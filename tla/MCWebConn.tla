----------------------------- MODULE MCWebConn ------------------------------
(***************************************************************************)
(* Small document roots, options and clients for WebConn.                  *)
(***************************************************************************)
EXTENDS WebConn

MCIndexFiles == <<"index.html", "index.key">>
MCPwFile == <<"dir", ".htpasswd">>
MCTmpFile == <<"dir", ".htpasswd.tmp">>
MCEditor == [user |-> "bob", pass |-> "new"]

Page(includes) == [dir |-> FALSE, data |-> <<7>>, includes |-> includes]
User(u, p) == [user |-> u, pass |-> p]

MCFiles ==
    LET paths == {<<>>, <<"a.txt">>, <<"x.cgi">>, <<"p.shtml">>, <<"q.shtml">>, <<"h.key">>, <<"put.pw">>,
                  <<"dir">>, <<"dir", ".htpasswd">>, <<"dir", "f.txt">>, <<"idx">>, <<"idx", "index.key">>}
    IN  [p \in paths |->
            CASE p \in {<<>>, <<"dir">>, <<"idx">>} -> Dir
              [] p = <<"put.pw">> -> File(<<User("ann", "a")>>)
              [] p = MCPwFile -> File(<<User("bob", "b"), User("eve", "e")>>)
              [] p = <<"p.shtml">> -> Page({<<"q.shtml">>, <<"h.key">>, <<"none">>})
              [] p = <<"q.shtml">> -> Page({<<"p.shtml">>, <<"a.txt">>})
              [] OTHER -> File(<<7>>)]

Base0 ==
    [gpass |-> <<>>, protect_uri |-> <<>>, put_pass |-> <<"put.pw">>, callback |-> "null",
     root |-> TRUE, listing |-> TRUE, keep_alive |-> TRUE, edited |-> FALSE]
Guarded == <<[uri |-> <<"dir">>, file |-> <<"gone">>], [uri |-> <<"a.txt">>, file |-> <<"put.pw">>]>>
MCConfigs ==
    {Base0,
     [Base0 EXCEPT !.keep_alive = FALSE, !.listing = FALSE, !.put_pass = <<>>],
     [Base0 EXCEPT !.callback = "handled"],
     [Base0 EXCEPT !.root = FALSE],
     [Base0 EXCEPT !.protect_uri = Guarded, !.edited = TRUE],
     [Base0 EXCEPT !.listing = FALSE, !.edited = TRUE],
     [Base0 EXCEPT !.gpass = <<"put.pw">>]}
\* A request without a body; a request with b units of one.
Req(method, uri) ==
    [method |-> method, uri |-> uri, slash |-> FALSE, user |-> "none", pass |-> "none", unmodified |-> FALSE,
     head |-> 2, body |-> 0, length |-> FALSE, version |-> "ok", expect |-> "none", keep |-> TRUE, from |-> 0, lost |-> 0]
With(method, uri, b) == [Req(method, uri) EXCEPT !.body = b, !.length = TRUE]
By(r, u, p) == [r EXCEPT !.user = u, !.pass = p]
Slash(r) == [r EXCEPT !.slash = TRUE]
Short(r) == [r EXCEPT !.head = 1]
Lost(r, n) == [r EXCEPT !.lost = n]

GetA == Req("GET", <<"a.txt">>)
Ann(r) == By(r, "ann", "a")

MCScripts ==
    {\* Bodies that come with the head, behind it, or not at all.
     << <<Ann(With("PUT", <<"n.txt">>, 3)), GetA>>, <<GetA>> >>,
     << <<Ann([With("PUT", <<"a.txt">>, 2) EXCEPT !.from = 1]), Ann(Req("DELETE", <<"a.txt">>)), GetA>> >>,
     << <<With("GET", <<"a.txt">>, 3), GetA>>, <<Short(GetA)>> >>,
     << <<With("POST", <<"x.cgi", "info">>, 3), GetA>> >>,
     << <<[With("POST", <<"x.cgi">>, 1) EXCEPT !.expect = "100"], Req("HEAD", <<"x.cgi">>), GetA>> >>,
     << <<Ann(Req("PUT", <<"n.txt">>)), GetA>>, <<[With("POST", <<"x.cgi">>, 2) EXCEPT !.expect = "other"], GetA>> >>,
     << <<Ann(Lost(With("PUT", <<"n.txt">>, 3), 1))>>, <<Lost(With("POST", <<"x.cgi">>, 3), 2)>>, <<Lost(GetA, 1)>>, <<GetA>> >>,
     \* Requests that are refused before they are handled.
     << <<With("POST", <<"x.cgi">>, 1), [GetA EXCEPT !.version = "odd"], GetA>> >>,
     << <<[GetA EXCEPT !.head = 6]>>, <<GetA>> >>,
     << <<GetA, [GetA EXCEPT !.keep = FALSE], GetA>>, <<Short(GetA), GetA>> >>,
     \* Files and directories.
     << <<Ann(Slash(Req("PUT", <<"new", "sub">>))), Ann(With("PUT", <<"new", "sub", "f">>, 1))>> >>,
     << <<Ann(With("PUT", <<"a.txt", "f">>, 1)), Ann(With("PUT", <<"dir">>, 1)), Ann(Req("DELETE", <<"dir">>))>> >>,
     << <<Slash(Req("GET", <<>>)), Req("GET", <<"dir">>), Slash(Req("GET", <<"idx">>))>> >>,
     << <<Req("GET", <<"h.key">>), Req("OPTIONS", <<>>), Slash(Req("PROPFIND", <<>>))>>, <<Req("GET", <<"p.shtml">>)>> >>,
     << <<Req("LOCK", <<"x.cgi">>), [GetA EXCEPT !.unmodified = TRUE], Req("HEAD", <<"a.txt">>)>> >>,
     \* Who may have them.
     << <<Req("GET", <<"dir", "f.txt">>)>>, <<By(Req("GET", <<"dir", "f.txt">>), "eve", "e"),
          Slash(By(Req("GET", <<"dir">>), "bob", "b"))>>, <<By(Req("GET", <<"dir", "f.txt">>), "eve", "b")>> >>,
     << <<By(With("PUT", <<"n.txt">>, 1), "eve", "e"), Req("DELETE", <<"a.txt">>)>>, <<Ann(GetA)>> >>}
=============================================================================
