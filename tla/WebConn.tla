------------------------------ MODULE WebConn -------------------------------
(***************************************************************************)
(* One worker of the web server (mongoose/mongoose.c) and the connections  *)
(* it is handed one after the other: reading requests out of a stream that *)
(* arrives in pieces of any size, handling them (WebFiles), reading bodies *)
(* and discarding what belongs to a request before the next is read.  The  *)
(* worker's mg_connection, buffer included, is the same for all of them.   *)
(*                                                                         *)
(* The stream of a connection is a sequence of units <<conn, request, k>>: *)
(* k = 0 inside the head of a request, -1 for the last unit of the head,   *)
(* and 1, 2, ... for the units of the body.  Beside the worker, somebody   *)
(* may edit the passwords file of a directory (mg_modify_passwords_file).  *)
(***************************************************************************)
EXTENDS Integers, WebFiles

CONSTANTS
    Scripts,     \* what the clients send: sets of sequences of connections
    Configs,     \* the options and the callback of the server
    Files0,      \* the files at the start
    BufSize,     \* conn->buf_size
    PwFile, TmpFile, Editor   \* mg_modify_passwords_file(PwFile, ..., Editor)

\* A request as its client sends it: the lengths of its head and body, whether
\* the head announces the length of the body, and how much of it is never sent.
RequestType ==
    [method : STRING, uri : Seq(STRING), slash : BOOLEAN, user : STRING, pass : STRING,
     unmodified : BOOLEAN, head : Nat \ {0}, body : Nat, length : BOOLEAN, version : STRING,
     expect : STRING, keep : BOOLEAN, from : Nat, lost : Nat]

\* Only a POST or PUT has a body that is not announced; a client that does not
\* send all of a request sends nothing more.
ASSUME ConnAssumption ==
    /\ BufSize \in Nat \ {0, 1}
    /\ Scripts \subseteq Seq(Seq(RequestType))
    /\ \A s \in Scripts : \A c \in DOMAIN s : \A n \in DOMAIN s[c] :
           /\ s[c][n].lost <= s[c][n].head + s[c][n].body
           /\ s[c][n].lost > 0 => n = Len(s[c])
           /\ s[c][n].body > 0 => s[c][n].length \/ s[c][n].method \in {"POST", "PUT"}

\* There is a document root, and it is neither of the two passwords files.
ASSUME FilesAssumption ==
    /\ Files0 = [p \in DOMAIN Files0 |-> Files0[p]]
    /\ <<>> \in DOMAIN Files0 /\ Files0[<<>>].dir
    /\ PwFile # <<>> /\ TmpFile # <<>>

VARIABLES
    script, config, fs,
    wire,        \* the units of each connection that have not been read
    cur,         \* the connection being served; 0 if none
    pc,
    buf,         \* conn->buf[0 .. data_len)
    request_len, content_len, consumed_content, must_close, status_code,
    got,         \* the request that was parsed, <<conn, index>>
    dest,        \* where the body goes: a path, or <<>> for a script
    input,       \* the units of the body the file, script or callback was given
    replies,     \* per connection, the requests answered and the status
    logged,      \* per connection, the lines of the access log
    parsed,      \* per connection, the requests parsed; <<0, 0>> for garbage
    adrift,      \* connections on which part of a body was left unread
    shown,       \* paths whose data was sent, and to which request
    edit         \* where mg_modify_passwords_file is

connVars == <<buf, request_len, content_len, consumed_content, must_close, status_code, got, dest, input>>
historyVars == <<replies, logged, parsed, adrift, shown>>
vars == <<script, config, fs, wire, cur, pc, connVars, historyVars, edit>>

Conns == 1 .. Len(script)
Request(id) == script[id[1]][id[2]]
ReqHead(id) == [i \in 1 .. Request(id).head |-> <<id[1], id[2], IF i < Request(id).head THEN 0 ELSE -1>>]
Body(id) == [i \in 1 .. Request(id).body |-> <<id[1], id[2], i>>]

TypeOK ==
    /\ script \in Scripts /\ config \in Configs
    /\ cur \in 0 .. Len(script)
    /\ pc \in {"idle", "read", "parse", "handle", "body", "pull", "discard", "close"}
    /\ Len(buf) <= BufSize
    /\ request_len \in 0 .. BufSize
    /\ content_len \in Nat \cup {-1}
    /\ consumed_content \in 0 .. IF content_len < 0 THEN 0 ELSE content_len
    /\ must_close \in BOOLEAN
    /\ adrift \subseteq Conns
    /\ edit \in {"none", "copied", "removed", "done", "crashed"}

\* A client may go away before it has sent all of a request.
Sent(id) == SubSeq(ReqHead(id) \o Body(id), 1, Request(id).head + Request(id).body - Request(id).lost)
FirstSent(c) ==
    LET f[n \in 0 .. Len(script[c])] == IF n = 0 THEN <<>> ELSE f[n - 1] \o Sent(<<c, n>>) IN f
Stream(c) == FirstSent(c)[Len(script[c])]

Init ==
    /\ script \in Scripts /\ config \in Configs
    /\ fs = Files0
    /\ wire = [c \in Conns |-> Stream(c)]
    /\ cur = 0 /\ pc = "idle"
    /\ buf = <<>> /\ request_len = 0 /\ content_len = 0 /\ consumed_content = 0
    /\ must_close = FALSE /\ status_code = -1
    /\ got = <<0, 0>> /\ dest = <<>> /\ input = <<>>
    /\ replies = [c \in Conns |-> <<>>] /\ logged = [c \in Conns |-> <<>>]
    /\ parsed = [c \in Conns |-> <<>>]
    /\ adrift = {} /\ shown = {} /\ edit = "none"

-----------------------------------------------------------------------------
(* Reading.                                                                *)

reset_per_request_attributes ==
    /\ must_close' = FALSE
    /\ request_len' = 0 /\ consumed_content' = 0
    /\ status_code' = -1

\* consume_socket has returned; process_new_connection begins.
NewConnection ==
    /\ pc = "idle" /\ cur < Len(script)
    /\ cur' = cur + 1 /\ pc' = "read"
    /\ buf' = <<>>
    /\ reset_per_request_attributes
    /\ UNCHANGED <<script, config, fs, wire, content_len, got, dest, input, historyVars, edit>>

\* pull: whatever has arrived is taken, up to a limit.
Arriving(limit) == 1 .. IF Len(wire[cur]) < limit THEN Len(wire[cur]) ELSE limit
Drop(s, n) == SubSeq(s, n + 1, Len(s))
Take(s, n) == SubSeq(s, 1, IF Len(s) < n THEN Len(s) ELSE n)

get_request_len(b) ==
    LET ends == {i \in 1 .. Len(b) : b[i][3] = -1}
    IN  IF ends = {} THEN 0 ELSE CHOOSE i \in ends : \A j \in ends : i <= j

\* Variant: the end of the stream is not noticed.
read_request_on ==
    /\ pc = "read"
    /\ \/ /\ get_request_len(buf) > 0
          /\ request_len' = get_request_len(buf)
          /\ pc' = "parse"
          /\ UNCHANGED <<buf, wire>>
       \/ /\ get_request_len(buf) = 0 /\ Len(buf) < BufSize
          /\ \E n \in Arriving(BufSize - Len(buf)) :
                 /\ buf' = buf \o SubSeq(wire[cur], 1, n)
                 /\ wire' = [wire EXCEPT ![cur] = Drop(@, n)]
          /\ UNCHANGED <<pc, request_len>>
    /\ UNCHANGED <<script, config, fs, cur, content_len, consumed_content, must_close, status_code, got, dest, input>>
    /\ UNCHANGED <<historyVars, edit>>

\* One turn of read_request: the head is complete, or more arrives, or the
\* client has closed its side, or the buffer is full.
read_request ==
    /\ pc = "read"
    /\ \/ /\ get_request_len(buf) > 0
          /\ request_len' = get_request_len(buf)
          /\ pc' = "parse"
          /\ UNCHANGED <<buf, wire, status_code, replies>>
       \/ /\ get_request_len(buf) = 0 /\ Len(buf) < BufSize
          /\ \E n \in Arriving(BufSize - Len(buf)) :
                 /\ buf' = buf \o SubSeq(wire[cur], 1, n)
                 /\ wire' = [wire EXCEPT ![cur] = Drop(@, n)]
          /\ UNCHANGED <<pc, request_len, status_code, replies>>
       \/ /\ get_request_len(buf) = 0 /\ Len(buf) < BufSize /\ wire[cur] = <<>>
          /\ pc' = "close"
          /\ UNCHANGED <<buf, wire, request_len, status_code, replies>>
       \/ /\ get_request_len(buf) = 0 /\ Len(buf) = BufSize
          /\ status_code' = 413
          /\ replies' = [replies EXCEPT ![cur] = Append(@, <<<<cur, 0>>, 413>>)]
          /\ pc' = "close"
          /\ UNCHANGED <<buf, wire, request_len>>
    /\ UNCHANGED <<script, config, fs, cur, content_len, consumed_content, must_close, got, dest, input>>
    /\ UNCHANGED <<logged, parsed, adrift, shown, edit>>

\* The request a head is, if it is one head and nothing else.
Parsed(b) ==
    LET ids == {id \in UNION {{c} \X DOMAIN script[c] : c \in Conns} : ReqHead(id) = b}
    IN  IF ids = {} THEN <<0, 0>> ELSE CHOOSE id \in ids : TRUE

\* What the access log will say: a redirection, an SSI page and what the callback
\* sends itself (status 0) leave status_code alone.
Noted(status) == IF status \in {0, 301} THEN status_code ELSE status

Reply(id, status) ==
    /\ status_code' = Noted(status)
    /\ replies' = [replies EXCEPT ![cur] = Append(@, <<id, status>>)]

log_access(id) == logged' = [logged EXCEPT ![cur] = Append(@, id)]

\* Headers and version are checked, and content_len is set, except where the
\* request is refused: then the value of the request before stays.
ParseRequest ==
    /\ pc = "parse"
    /\ LET id == Parsed(SubSeq(buf, 1, request_len))
       IN  /\ got' = id /\ input' = <<>>
           /\ parsed' = [parsed EXCEPT ![cur] = Append(@, id)]
           /\ \/ /\ id = <<0, 0>>
                 /\ Reply(id, 400)
                 /\ must_close' = TRUE
                 /\ pc' = "discard"
                 /\ UNCHANGED <<content_len, logged>>
              \/ /\ id # <<0, 0>> /\ Request(id).version = "odd"
                 /\ Reply(id, 505)
                 /\ log_access(id)
                 /\ pc' = "discard"
                 /\ UNCHANGED <<content_len, must_close>>
              \/ /\ id # <<0, 0>> /\ Request(id).version # "odd"
                 /\ content_len' = IF Request(id).length THEN Request(id).body
                                   ELSE IF Request(id).method \in {"POST", "PUT"} THEN -1 ELSE 0
                 /\ pc' = "handle"
                 /\ UNCHANGED <<status_code, replies, must_close, logged>>
    /\ UNCHANGED <<script, config, fs, wire, cur, buf, request_len, consumed_content, dest, adrift, shown, edit>>

-----------------------------------------------------------------------------
(* Handling.                                                               *)

Now == handle_request(config, fs, Request(got))
At == Target(fs, Request(got))

\* The request is answered and logged.
Answer(status, close, paths) ==
    /\ Reply(got, status)
    /\ log_access(got)
    /\ must_close' = close
    /\ shown' = shown \cup {<<p, got>> : p \in paths}
    /\ pc' = "discard"
    /\ UNCHANGED <<script, config, cur, buf, request_len, content_len, got, dest>>
    /\ UNCHANGED <<parsed, adrift, edit>>

\* Files and body are left alone as well.
Answered(status, close, paths) ==
    Answer(status, close, paths) /\ UNCHANGED <<fs, wire, consumed_content, input>>

send_http_error(status) == Answered(status, must_close, {})
send_authorization_request == Answered(401, must_close, {})
send_options == Answered(200, must_close, {})
handle_directory_request == Answered(200, TRUE, scan_directory(fs, At))
handle_propfind ==
    Answered(207, TRUE, IF config.listing /\ fs[At].dir THEN scan_directory(fs, At) ELSE {})
handle_ssi_file_request ==
    send_http_error(500) \/ Answered(0, TRUE, send_ssi_file(fs, At))

\* The data of the file is sent unless only the head is asked for.
handle_file_request ==
    send_http_error(500) \/ Answered(200, must_close, IF Request(got).method = "HEAD" THEN {} ELSE {At})

HandlePlain ==
    /\ pc = "handle"
    /\ \/ Now = "unauthorized" /\ send_authorization_request
       \/ Now = "handled" /\ Answered(0, must_close, {})
       \/ Now = "options" /\ send_options
       \/ Now = "not found" /\ send_http_error(404)
       \/ Now = "moved" /\ Answered(301, must_close, {})
       \/ Now = "propfind" /\ handle_propfind
       \/ Now = "list" /\ handle_directory_request
       \/ Now = "denied" /\ send_http_error(403)
       \/ Now = "not implemented" /\ send_http_error(501)
       \/ Now = "ssi" /\ handle_ssi_file_request
       \/ Now = "not modified" /\ send_http_error(304)
       \/ Now = "file" /\ handle_file_request

\* The part of the body the buffer holds behind the head.
Buffered == Take(Drop(buf, request_len), content_len)

\* The callback reads n octets of the body before it answers: first what the
\* buffer holds, then from the socket until it has them or the client closes.
mg_read ==
    /\ pc = "handle" /\ Now = "handled"
    /\ \E n \in 1 .. content_len :
           LET here == Take(Buffered, n)
               more == Take(wire[cur], n - Len(here))
           IN  /\ input' = here \o more
               /\ wire' = [wire EXCEPT ![cur] = Drop(@, Len(more))]
               /\ consumed_content' = Len(here) + Len(more)
    /\ Answer(0, must_close, {}) /\ UNCHANGED fs

\* What handle_cgi_request sends once the script has its input: the script's
\* own answer, or an error if that has no head.
CgiReply ==
    \/ send_http_error(500)
    \/ \E code \in {200, 302}, close \in BOOLEAN : Answered(code, close, {})

\* When fork fails, spawn_process sends an error and its caller sends another.
spawn_process ==
    /\ replies' = [replies EXCEPT ![cur] = @ \o <<<<<<cur, 0>>, 500>>, <<got, 500>>>>]
    /\ status_code' = 500
    /\ log_access(got)
    /\ pc' = "discard"
    /\ UNCHANGED <<script, config, fs, wire, cur, buf, request_len, content_len, consumed_content, must_close>>
    /\ UNCHANGED <<got, dest, input, parsed, adrift, shown, edit>>

\* The script cannot be started, or it answers.
HandleCgi ==
    /\ pc = "handle" /\ Now = "cgi"
    /\ \/ spawn_process
       \/ IF Request(got).method = "POST" THEN send_http_error(500) ELSE CgiReply

\* The script has been started and is to be given the body.
HandlePost ==
    /\ pc = "handle" /\ Now = "cgi" /\ Request(got).method = "POST"
    /\ dest' = <<>> /\ pc' = "body"
    /\ UNCHANGED <<script, config, fs, wire, cur, buf, request_len, content_len, consumed_content>>
    /\ UNCHANGED <<must_close, status_code, got, input, historyVars, edit>>

HandleDelete ==
    /\ pc = "handle" /\ Now = "delete"
    /\ \/ /\ Removable(fs, At) /\ fs' = mg_remove(fs, At)
          /\ Answer(200, must_close, {}) /\ UNCHANGED <<wire, consumed_content, input>>
       \/ ~Removable(fs, At) /\ send_http_error(500)

\* put_file up to the point where the body is read: the directories on the way
\* are made and the file is truncated, also when only a part of it is sent.
put_file ==
    /\ pc = "handle" /\ Now = "put"
    /\ LET made == put_dir(fs, At)
           code == IF Exists(fs, At) THEN 200 ELSE 201
       IN  \/ /\ PutDirOK(fs, At) /\ Request(got).slash
              /\ fs' = IF Exists(fs, At) THEN fs ELSE Write(made, At, Dir)
              /\ Answer(code, must_close, {}) /\ UNCHANGED <<wire, consumed_content, input>>
           \/ /\ ~PutDirOK(fs, At) \/ (~Request(got).slash /\ Exists(fs, At) /\ fs[At].dir)
              /\ send_http_error(500)
           \/ /\ PutDirOK(fs, At) /\ ~Request(got).slash /\ ~(Exists(fs, At) /\ fs[At].dir)
              /\ fs' = Write(made, At, File(<<>>))
              /\ dest' = At /\ pc' = "body"
              /\ status_code' = IF Request(got).from > 0 THEN 206 ELSE code
              /\ UNCHANGED <<script, config, wire, cur, buf, request_len, content_len, consumed_content>>
              /\ UNCHANGED <<must_close, got, input, historyVars, edit>>

-----------------------------------------------------------------------------
(* Bodies: forward_body_data.                                              *)

\* push: the units go to the file, behind the gap that Content-Range leaves, or
\* to the script.
push(units) ==
    /\ input' = input \o units
    /\ fs' = IF dest = <<>> \/ ~Exists(fs, dest) \/ units = <<>> THEN fs
             ELSE LET gap == IF fs[dest].data = <<>> THEN Request(got).from ELSE 0
                  IN  [fs EXCEPT ![dest].data =
                           @ \o [i \in 1 .. gap |-> 0] \o [i \in 1 .. Len(units) |-> units[i][3]]]

ForwardStart ==
    /\ pc = "body"
    /\ \/ content_len = -1 /\ send_http_error(411)
       \/ content_len >= 0 /\ Request(got).expect = "other" /\ send_http_error(417)
       \/ /\ content_len >= 0 /\ Request(got).expect # "other"
          /\ push(Buffered)
          /\ consumed_content' = Len(Buffered)
          /\ pc' = "pull"
          /\ UNCHANGED <<script, config, wire, cur, buf, request_len, content_len, must_close, status_code, got, dest>>
          /\ UNCHANGED <<historyVars, edit>>

\* The rest of the body comes from the socket and does not pass the buffer.
ForwardPull ==
    /\ pc = "pull" /\ consumed_content < content_len
    /\ \E n \in Arriving(content_len - consumed_content) :
           /\ push(SubSeq(wire[cur], 1, n))
           /\ wire' = [wire EXCEPT ![cur] = Drop(@, n)]
           /\ consumed_content' = consumed_content + n
    /\ UNCHANGED <<script, config, cur, pc, buf, request_len, content_len, must_close, status_code, got, dest>>
    /\ UNCHANGED <<historyVars, edit>>

\* The client closes early, or the script stops reading and the piece that was
\* pulled is lost; the caller of forward_body_data sends nothing more.
ForwardFails ==
    /\ pc = "pull" /\ consumed_content < content_len
    /\ \/ wire[cur] = <<>> /\ send_http_error(577)
       \/ /\ dest = <<>>
          /\ \E n \in Arriving(content_len - consumed_content) : wire' = [wire EXCEPT ![cur] = Drop(@, n)]
          /\ Answer(577, must_close, {}) /\ UNCHANGED <<fs, consumed_content, input>>

\* put_file and handle_cgi_request after the body.
ForwardDone ==
    /\ pc = "pull" /\ consumed_content = content_len
    /\ IF dest # <<>> THEN Answered(status_code, must_close, {}) ELSE CgiReply

-----------------------------------------------------------------------------
(* The end of a request and of a connection.                               *)

should_keep_alive ==
    /\ ~must_close /\ status_code # 401
    /\ config.keep_alive
    /\ got # <<0, 0>> => Request(got).keep

\* Variant: the body is not counted.
DiscardLenHead == request_len

discard_len ==
    IF content_len >= 0 /\ request_len + content_len < Len(buf)
    THEN request_len + content_len ELSE Len(buf)

EndRequest ==
    /\ pc = "discard"
    /\ buf' = Drop(buf, discard_len)
    /\ adrift' = IF \/ \E i \in 1 .. Len(wire[cur]) : wire[cur][i][3] > 0 /\ <<cur, wire[cur][i][2]>> = got
                    \/ status_code = 505
                 THEN adrift \cup {cur} ELSE adrift
    /\ \/ /\ config.keep_alive /\ content_len >= 0 /\ should_keep_alive
          /\ pc' = "read"
          /\ reset_per_request_attributes
       \/ /\ ~(config.keep_alive /\ content_len >= 0 /\ should_keep_alive)
          /\ pc' = "close"
          /\ UNCHANGED <<must_close, request_len, consumed_content, status_code>>
    /\ UNCHANGED <<script, config, fs, wire, cur, content_len, got, dest, input, replies, logged, parsed, shown, edit>>

\* What the client still sends goes nowhere.
close_connection ==
    /\ pc = "close"
    /\ wire' = [wire EXCEPT ![cur] = <<>>]
    /\ pc' = "idle" /\ must_close' = TRUE
    /\ UNCHANGED <<script, config, fs, cur, buf, request_len, content_len, consumed_content, status_code>>
    /\ UNCHANGED <<got, dest, input, historyVars, edit>>

-----------------------------------------------------------------------------
(* mg_modify_passwords_file, run by another process: the records are copied *)
(* to a temporary file, the file is removed, the copy takes its name.       *)

EditedLines ==
    LET lines == IF Exists(fs, PwFile) THEN fs[PwFile].data ELSE <<>>
        others == SelectSeq(lines, LAMBDA e : e.user # Editor.user)
        found == Len(others) # Len(lines)
        at == [i \in 1 .. Len(lines) |-> IF lines[i].user = Editor.user THEN Editor ELSE lines[i]]
    IN  IF Editor.pass = "none" THEN others
        ELSE IF found THEN at ELSE Append(lines, Editor)

\* Variant: the file is removed before it is copied.
EditRemoveFirst ==
    /\ edit \in {"none", "copied"} /\ config.edited
    /\ edit' = "removed"
    /\ fs' = mg_remove(fs, PwFile)
    /\ UNCHANGED <<script, config, wire, cur, pc, connVars, historyVars>>

\* The process may also be killed in the middle of the copy.
EditCopy ==
    /\ edit = "none" /\ config.edited
    /\ \E n \in 0 .. Len(EditedLines) :
           /\ fs' = Write(IF Exists(fs, PwFile) THEN fs ELSE Write(fs, PwFile, File(<<>>)),
                          TmpFile, File(SubSeq(EditedLines, 1, n)))
           /\ edit' = IF n = Len(EditedLines) THEN "copied" ELSE "crashed"
    /\ UNCHANGED <<script, config, wire, cur, pc, connVars, historyVars>>

EditRemove ==
    /\ edit = "copied"
    /\ edit' = "removed"
    /\ fs' = mg_remove(fs, PwFile)
    /\ UNCHANGED <<script, config, wire, cur, pc, connVars, historyVars>>

EditRename ==
    /\ edit = "removed"
    /\ edit' = "done"
    /\ fs' = IF Exists(fs, TmpFile) THEN mg_remove(Write(fs, PwFile, fs[TmpFile]), TmpFile) ELSE fs
    /\ UNCHANGED <<script, config, wire, cur, pc, connVars, historyVars>>

EditCrash ==
    /\ edit \in {"copied", "removed"}
    /\ edit' = "crashed"
    /\ UNCHANGED <<script, config, fs, wire, cur, pc, connVars, historyVars>>

Step ==
    \/ NewConnection \/ read_request \/ ParseRequest
    \/ HandlePlain \/ mg_read \/ HandleCgi \/ HandleDelete \/ put_file \/ HandlePost
    \/ ForwardStart \/ ForwardPull \/ ForwardFails \/ ForwardDone
    \/ EndRequest \/ close_connection
Edit == EditCopy \/ EditRemove \/ EditRename \/ EditCrash
Next == Step \/ Edit

\* Clients send what they have to send and then close their side.
Spec == Init /\ [][Next]_vars /\ WF_vars(Step)

-----------------------------------------------------------------------------
(* Properties.                                                             *)

\* What is parsed and answered on a connection was sent on that connection:
\* nothing a former client has sent, complete or not, is left in the buffer
\* (mongoose.c: "Important: on new connection, reset the receiving buffer").
OwnBytes ==
    /\ \A i \in 1 .. Len(buf) : pc \notin {"idle", "close"} => buf[i][1] = cur
    /\ \A c \in Conns : \A i \in 1 .. Len(parsed[c]) : parsed[c][i][1] \in {0, c}

\* However the stream is cut into pieces and whatever the lengths of heads and
\* bodies, the n-th request that is parsed is the n-th that was sent: discard_len
\* removes the request and its body and nothing else.  Excepted are connections
\* on which a handler left part of a body on the socket, or on which a request
\* was refused for its version before its length was read.
InStep ==
    \A c \in Conns : c \notin adrift =>
        \A i \in 1 .. Len(parsed[c]) : parsed[c][i] = <<c, i>>

\* Every request that was parsed is answered once and in order, the error paths
\* of forward_body_data included, and every one but a malformed one is logged;
\* 413 and the extra error of spawn_process belong to no request.
Without(s, e) ==
    LET f[n \in 0 .. Len(s)] ==
            IF n = 0 THEN <<>> ELSE IF s[n] = e THEN f[n - 1] ELSE Append(f[n - 1], s[n])
    IN  f[Len(s)]
OneAnswerEach ==
    pc \notin {"handle", "body", "pull"} =>
        \A c \in Conns :
            /\ Without([i \in 1 .. Len(replies[c]) |-> replies[c][i][1]], <<c, 0>>) = parsed[c]
            /\ logged[c] = Without(parsed[c], <<0, 0>>)

\* A file, a script or the callback is given the body of its own request, from
\* the start and without gaps, whether it came with the head, later, or in front
\* of the next request; and a file that was put and answered with success holds
\* all of it, unless it is a passwords file that is edited at the same time.
StoredExactly ==
    /\ pc \in {"handle", "body", "pull", "discard"} /\ got # <<0, 0>>
           => input = Take(Body(got), Len(input))
    /\ pc = "discard" /\ got # <<0, 0>> /\ status_code \in {200, 201, 206}
           /\ Request(got).method = "PUT" /\ ~Request(got).slash
           /\ (edit = "none" \/ dest \notin {PwFile, TmpFile})
       => /\ Exists(fs, dest)
          /\ fs[dest].data = [i \in 1 .. IF input = <<>> THEN 0 ELSE Request(got).from |-> 0]
                                 \o [i \in 1 .. Request(got).body |-> i]

\* The worker changes files only for a client that is in the passwords file
\* for PUT and DELETE; without that file it changes nothing.
OnlyAuthorised ==
    [][edit' = edit /\ fs' # fs =>
           /\ Request(got).method \in {"PUT", "DELETE"}
           /\ config.put_pass # <<>>
           /\ \E i \in 1 .. Len(fs[config.put_pass].data) :
                  fs[config.put_pass].data[i] = [user |-> Request(got).user, pass |-> Request(got).pass]]_vars

\* Hidden files are neither listed nor sent, unless an SSI page includes them
\* or they are the index file of a directory.
NothingHidden ==
    \A s \in shown :
        must_hide_file(s[1]) =>
            \/ Base(s[1]) \in {IndexFiles[i] : i \in 1 .. Len(IndexFiles)}
            \/ Named(Target(Files0, Request(s[2])), SsiExtensions)

\* What is in a directory with a passwords file goes to the users in it, also if
\* protect_uri names a file for it that cannot be opened; except while an edit
\* of the file has taken it away.
ProtectedKept ==
    \A s \in shown :
        LET r == Request(s[2])
        IN  /\ edit = "none" /\ config.gpass = <<>>
            /\ Parent(PwFile) \in {Target(Files0, r), Parent(Target(Files0, r))}
            /\ ProtectEntry(config, r) \cap DOMAIN Files0 = {}
            => \E i \in 1 .. Len(fs[PwFile].data) :
                   fs[PwFile].data[i] = [user |-> r.user, pass |-> r.pass]

\* An edit of the passwords file that is cut short anywhere loses nobody else's
\* record: each is in the file or in its copy.
RecordsKept ==
    \A i \in 1 .. Len(Files0[PwFile].data) :
        LET e == Files0[PwFile].data[i]
        IN  e.user # Editor.user =>
                \E p \in {PwFile, TmpFile} \cap DOMAIN fs :
                    \E j \in 1 .. Len(fs[p].data) : fs[p].data[j] = e

\* A worker that serves one connection after another out of one buffer keeps
\* their requests, bodies and answers apart (process_new_connection).
RequestsApart == TypeOK /\ OwnBytes /\ InStep /\ OneAnswerEach /\ StoredExactly

\* Files are shown and changed only as the passwords files and hide_files say,
\* also while a passwords file is edited (handle_request, check_authorization).
FilesGuarded == [](NothingHidden /\ ProtectedKept /\ RecordsKept) /\ OnlyAuthorised

\* Every connection is served to its end.
AllServed == <>(cur = Len(script) /\ pc = "idle")
=============================================================================
