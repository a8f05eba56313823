------------------------------ MODULE WebFiles ------------------------------
(***************************************************************************)
(* What the web server (mongoose/mongoose.c) decides about a request for a *)
(* file: which file a URI names, whether the client may have it, and what  *)
(* handle_request does with it.                                            *)
(*                                                                         *)
(* A path is the sequence of its names below the document root.  The files *)
(* are a function from the paths that exist to records [dir, data,         *)
(* includes]; the data of a passwords file is a sequence of [user, pass],  *)
(* includes are the paths an SSI page names.  Patterns are the sets of     *)
(* names they match; how they match is checked in WebText.                 *)
(***************************************************************************)
EXTENDS Naturals, Sequences, FiniteSets

Seqs == INSTANCE SequencesExt

CONSTANTS
    Passwords,   \* the name of passwords files, PASSWORDS_FILE_NAME
    HidePattern, CgiExtensions, SsiExtensions,
    IndexFiles,  \* a sequence of names
    MaxInclude   \* the deepest SSI include that is followed (10 in the code)

Dir == [dir |-> TRUE, data |-> <<>>, includes |-> {}]
File(data) == [dir |-> FALSE, data |-> data, includes |-> {}]

Exists(f, p) == p \in DOMAIN f
Parent(p) == SubSeq(p, 1, Len(p) - 1)
Base(p) == p[Len(p)]
Named(p, names) == p # <<>> /\ Base(p) \in names
Write(f, p, node) == [q \in DOMAIN f \cup {p} |-> IF q = p THEN node ELSE f[q]]
Children(f, p) == {q \in DOMAIN f : q # <<>> /\ Parent(q) = p}

-----------------------------------------------------------------------------
(* Which file.                                                             *)

\* A script takes the part of the URI behind it as PATH_INFO.
convert_uri_to_file_name(f, uri) ==
    LET scripts == {n \in 1 .. Len(uri) - 1 :
                        Named(SubSeq(uri, 1, n), CgiExtensions) /\ Exists(f, SubSeq(uri, 1, n))}
    IN  IF Exists(f, uri) \/ scripts = {} THEN uri
        ELSE SubSeq(uri, 1, CHOOSE n \in scripts : \A m \in scripts : n >= m)

\* The first of the index files that exists; the directory itself if none does.
substitute_index_file(f, p) ==
    LET found == {i \in 1 .. Len(IndexFiles) : Exists(f, Append(p, IndexFiles[i]))}
    IN  IF found = {} THEN p
        ELSE Append(p, IndexFiles[CHOOSE i \in found : \A j \in found : i <= j])

must_hide_file(p) == Named(p, {Passwords} \cup HidePattern)

-----------------------------------------------------------------------------
(* Who may have it.                                                        *)

\* A digest that was computed from the right password; the nonce is not
\* compared with anything the server has sent.
check_password(entry, r) == entry.pass = r.pass

\* parse_auth_header: without a user name in the header nobody is authorised.
parse_auth_header(r) == r.user # "none"

\* The first line for the user decides.
authorize(lines, r) ==
    LET mine == {i \in 1 .. Len(lines) : lines[i].user = r.user}
    IN  /\ parse_auth_header(r)
        /\ mine # {}
        /\ check_password(lines[CHOOSE i \in mine : \A j \in mine : i <= j], r)

\* The global file if there is one, else the file in the directory that is
\* asked for or that the file is in; parents of it do not count.
open_auth_file(c, f, p) ==
    LET dir == IF p = <<>> \/ (Exists(f, p) /\ f[p].dir) THEN p ELSE Parent(p)
    IN  {IF c.gpass # <<>> THEN c.gpass ELSE Append(dir, Passwords)} \cap DOMAIN f

\* The first entry of protect_uri whose URI the request begins with, if any.
ProtectEntry(c, r) ==
    LET fits == {i \in 1 .. Len(c.protect_uri) : Seqs!IsPrefix(c.protect_uri[i].uri, r.uri)}
    IN  IF fits = {} THEN {} ELSE {c.protect_uri[CHOOSE i \in fits : \A j \in fits : i <= j].file}

\* The file of the entry if it can be opened, else the file open_auth_file
\* finds; a request is authorised when there is neither.
check_authorization(c, f, r, p) ==
    LET files == IF ProtectEntry(c, r) \cap DOMAIN f # {} THEN ProtectEntry(c, r)
                 ELSE open_auth_file(c, f, p)
    IN  \A q \in files : authorize(f[q].data, r)

is_authorized_for_put(c, f, r) ==
    c.put_pass # <<>> /\ Exists(f, c.put_pass) /\ authorize(f[c.put_pass].data, r)

-----------------------------------------------------------------------------
(* What is sent.                                                           *)

scan_directory(f, p) == {q \in Children(f, p) : ~must_hide_file(q)}

Includes(f, pages) == UNION {f[p].includes : p \in pages} \cap DOMAIN f

\* The files whose data an SSI page shows.  A page that is included is a level
\* further down, and is left out when that is too deep.
send_ssi_file(f, p) ==
    LET level[k \in 0 .. MaxInclude] ==
            IF k = 0 THEN {p} ELSE {q \in Includes(f, level[k - 1]) : Named(q, SsiExtensions)}
        pages == UNION {level[k] : k \in 0 .. MaxInclude}
    IN  pages \cup {q \in Includes(f, pages) : ~Named(q, SsiExtensions)}

-----------------------------------------------------------------------------
(* What is done.                                                           *)

is_put_or_delete_request(r) == r.method \in {"PUT", "DELETE"}

\* How handle_request goes on, in the order of its tests.
handle_request(c, f, r) ==
    LET p == convert_uri_to_file_name(f, r.uri)
        q == IF Exists(f, p) /\ f[p].dir THEN substitute_index_file(f, p) ELSE p
    IN  IF ~is_put_or_delete_request(r) /\ ~check_authorization(c, f, r, p) THEN "unauthorized"
        ELSE IF c.callback = "handled" THEN "handled"
        ELSE IF r.method = "OPTIONS" THEN "options"
        ELSE IF ~c.root THEN "not found"
        ELSE IF is_put_or_delete_request(r) /\ ~is_authorized_for_put(c, f, r) THEN "unauthorized"
        ELSE IF r.method = "PUT" THEN "put"
        ELSE IF r.method = "DELETE" THEN "delete"
        ELSE IF ~Exists(f, p) \/ must_hide_file(p) THEN "not found"
        ELSE IF f[p].dir /\ ~r.slash THEN "moved"
        ELSE IF r.method = "PROPFIND" THEN "propfind"
        ELSE IF f[q].dir THEN IF c.listing THEN "list" ELSE "denied"
        ELSE IF Named(q, CgiExtensions)
             THEN IF r.method \in {"POST", "HEAD", "GET"} THEN "cgi" ELSE "not implemented"
        ELSE IF Named(q, SsiExtensions) THEN "ssi"
        ELSE IF r.unmodified THEN "not modified"
        ELSE "file"

\* The file a request comes down to.
Target(f, r) ==
    LET p == convert_uri_to_file_name(f, r.uri)
    IN  IF ~is_put_or_delete_request(r) /\ Exists(f, p) /\ f[p].dir /\ r.method # "PROPFIND"
        THEN substitute_index_file(f, p) ELSE p

\* PUT creates the directories on the way to p.
put_dir(f, p) ==
    LET above == {SubSeq(p, 1, n) : n \in 1 .. Len(p) - 1}
    IN  [q \in DOMAIN f \cup above |-> IF q \in DOMAIN f THEN f[q] ELSE Dir]

\* No file is in the way.
PutDirOK(f, p) == \A n \in 1 .. Len(p) - 1 : Exists(f, SubSeq(p, 1, n)) => f[SubSeq(p, 1, n)].dir

\* remove(path) takes files and empty directories.
mg_remove(f, p) == [q \in DOMAIN f \ {p} |-> f[q]]
Removable(f, p) == Exists(f, p) /\ p # <<>> /\ Children(f, p) = {}
=============================================================================
