--------------------------- MODULE WebConnProofs ----------------------------
(***************************************************************************)
(* Proofs about a worker of the web server and its connections, for any    *)
(* clients, options, files and size of the buffer.  The stream of a        *)
(* connection is laid out request after request (Begin, Unit); what the    *)
(* buffer holds and what has not been read are stretches of it.            *)
(***************************************************************************)
EXTENDS WebConn, SequenceTheorems, WellFoundedInduction, TLAPS

Units == Nat \X Nat \X Int
Ids == UNION {{c} \X DOMAIN script[c] : c \in Conns}
Known == Ids \cup {<<0, 0>>}

\* Where the n-th request of a connection begins in its stream, how much of a
\* request is sent, and what the i-th unit of it is.
Begin(c, n) == Len(FirstSent(c)[n - 1])
Size(id) == Request(id).head + Request(id).body - Request(id).lost
Unit(id, i) ==
    <<id[1], id[2], IF i < Request(id).head THEN 0
                    ELSE IF i = Request(id).head THEN -1 ELSE i - Request(id).head>>

\* The content_len of a request.
Announced(id) == IF Request(id).length THEN Request(id).body
                 ELSE IF Request(id).method \in {"POST", "PUT"} THEN -1 ELSE 0

Places == 0 .. Len(Stream(cur))

\* The buffer holds what follows position k of the stream, and q units of the
\* stream have been read; what passed the buffer by belongs to the body.
Lined(k, q) ==
    /\ q <= Len(Stream(cur)) /\ k + Len(buf) <= q
    /\ \A i \in 1 .. Len(buf) : buf[i] = Stream(cur)[k + i]
    /\ Len(wire[cur]) = Len(Stream(cur)) - q
    /\ \A i \in 1 .. Len(wire[cur]) : wire[cur][i] = Stream(cur)[q + i]
    /\ k + Len(buf) < q => content_len >= 0 /\ q <= k + request_len + content_len

Types ==
    /\ script \in Scripts /\ config \in Configs
    /\ cur \in 0 .. Len(script)
    /\ pc \in {"idle", "read", "parse", "handle", "body", "pull", "discard", "close"}
    /\ cur = 0 => pc = "idle"
    /\ buf \in Seq(Units) /\ Len(buf) <= BufSize /\ wire \in [Conns -> Seq(Units)]
    /\ request_len \in 0 .. BufSize /\ content_len \in Nat \cup {-1}
    /\ consumed_content \in 0 .. IF content_len < 0 THEN 0 ELSE content_len
    /\ must_close \in BOOLEAN /\ status_code \in Int /\ adrift \subseteq 1 .. cur
    /\ edit \in {"none", "copied", "removed", "done", "crashed"}
    /\ input \in Seq(Units) /\ got \in Known
    /\ replies \in [Conns -> Seq(((Nat \X Nat) \X Int))]
    /\ parsed \in [Conns -> Seq(Known)] /\ logged \in [Conns -> Seq(Known)]

\* The document root stays.
Rooted ==
    /\ fs = [p \in DOMAIN fs |-> fs[p]]
    /\ <<>> \in DOMAIN fs /\ fs[<<>>].dir

\* The request that is being handled is the one the buffer begins with.
Handling ==
    /\ got \in Ids /\ got[1] = cur
    /\ request_len = Request(got).head /\ request_len <= Len(buf)
    /\ content_len = Announced(got)

\* Unless part of a body was left on the connection, reading stands at the
\* beginning of the next request.
ReadOk ==
    /\ consumed_content = 0 /\ status_code = -1
    /\ \E k \in Places :
         /\ Lined(k, k + Len(buf))
         /\ cur \notin adrift => /\ Len(parsed[cur]) <= Len(script[cur])
                                 /\ k = Begin(cur, Len(parsed[cur]) + 1)
ParseOk == ReadOk /\ request_len = get_request_len(buf) /\ request_len > 0

\* What a file, script or callback was given so far.
Given(n) ==
    /\ Len(input) = n /\ n <= Request(got).body
    /\ \A i \in 1 .. n : input[i] = <<got[1], got[2], i>>

HandleOk ==
    /\ Handling /\ Lined(Begin(cur, got[2]), Begin(cur, got[2]) + Len(buf))
    /\ consumed_content = 0 /\ Given(0)

\* The gap and the units of a body, as they stand in a file.
Filled(gap, n) == [i \in 1 .. gap + n |-> IF i <= gap THEN 0 ELSE i - gap]

\* A file that nobody edits holds the first n units of the body it is given.
Stored(n) ==
    edit = "none" \/ dest \notin {PwFile, TmpFile} =>
        /\ dest \in DOMAIN fs
        /\ fs[dest] = File(Filled(IF n = 0 THEN 0 ELSE Request(got).from, n))
Destined(n) ==
    \/ dest = <<>> /\ Request(got).method = "POST"
    \/ dest # <<>> /\ Request(got).method = "PUT" /\ ~Request(got).slash /\ Stored(n)

PullOk ==
    /\ Handling /\ content_len >= 0
    /\ \/ consumed_content = content_len /\ Lined(Begin(cur, got[2]), Begin(cur, got[2]) + Len(buf))
       \/ Lined(Begin(cur, got[2]), Begin(cur, got[2]) + request_len + consumed_content)
    /\ Given(consumed_content) /\ Destined(consumed_content)

\* A request has been answered; what it was given is part of its body, and all
\* of it where a file was stored.
DiscardOk ==
    /\ request_len <= Len(buf)
    /\ got = <<0, 0>> => must_close
    /\ got # <<0, 0>> => Given(Len(input))
    /\ \E k, q \in Places :
         /\ Lined(k, q)
         /\ got # <<0, 0>> /\ status_code # 505 => Handling /\ k = Begin(cur, got[2])
    /\ got # <<0, 0>> /\ status_code \in {200, 201, 206} /\ Request(got).method = "PUT"
           /\ ~Request(got).slash => Stored(Len(input)) /\ Len(input) = Request(got).body

Busy == pc \in {"handle", "body", "pull"}
Flow ==
    /\ pc = "read" => ReadOk
    /\ pc = "parse" => ParseOk
    /\ pc = "handle" => HandleOk /\ status_code = -1
    /\ pc = "body" => HandleOk /\ Destined(0)
    /\ pc = "pull" => PullOk
    /\ pc = "discard" => DiscardOk

\* Connections that have not been served yet have all of their stream, and what
\* was parsed came on its own connection, in step.
Streams ==
    \A c \in Conns :
        /\ c > cur => wire[c] = Stream(c) /\ parsed[c] = <<>>
        /\ \A i \in 1 .. Len(parsed[c]) : /\ parsed[c][i][1] \in {0, c}
                                          /\ c \notin adrift => parsed[c][i] = <<c, i>>
        /\ c = cur /\ c \notin adrift /\ (Busy \/ pc = "discard") =>
             got = <<c, Len(parsed[c])>> /\ got \in Ids

\* Every request but the one that is being handled has its answer.
Firsts(s) == [i \in 1 .. Len(s) |-> s[i][1]]
Replied(c) == Without(Firsts(replies[c]), <<c, 0>>)
Answers ==
    \A c \in Conns :
        /\ parsed[c] = IF c = cur /\ Busy THEN Append(Replied(c), got) ELSE Replied(c)
        /\ logged[c] = Without(Replied(c), <<0, 0>>)

ConnInv == Types /\ Rooted /\ Flow /\ Streams /\ Answers

-----------------------------------------------------------------------------
(* Recursion. *)

LEMMA LeastNat ==
    ASSUME NEW T \in SUBSET Nat, T # {}
    PROVE  \E t \in T : \A u \in T : t <= u
<1>1. IsWellFoundedOn(OpToRel(<, Nat), Nat)
  BY NatLessThanWellFounded
<1>2. PICK t \in T : \A u \in T : ~(<<u, t>> \in OpToRel(<, Nat))
  BY <1>1, WFMin
<1>3. ASSUME NEW u \in T
      PROVE  t <= u
  <2>1. <<u, t>> \in Nat \X Nat
    OBVIOUS
  <2>2. ~(u < t)
    BY <1>2, <2>1 DEF OpToRel
  <2> QED BY <2>2
<1> QED BY <1>3

\* A set of numbers that holds 0 and with each number the next holds them all.
LEMMA UpTo ==
    ASSUME NEW N \in Nat, NEW T, 0 \in T, \A n \in 1 .. N : n - 1 \in T => n \in T
    PROVE  \A n \in 0 .. N : n \in T
<1> DEFINE U == {n \in 0 .. N : n \notin T}
<1> SUFFICES ASSUME U # {}  PROVE FALSE
  OBVIOUS
<1>1. U \subseteq Nat
  OBVIOUS
<1>2. PICK t \in U : \A u \in U : t <= u
  <2> HIDE DEF U
  <2> QED BY <1>1, LeastNat
<1>3. t \in 1 .. N /\ t \notin T
  OBVIOUS
<1>4. t - 1 \in 0 .. N /\ ~(t <= t - 1)
  BY <1>3
<1>5. t - 1 \in T
  BY <1>2, <1>4
<1> QED BY <1>3, <1>5

\* A function that is defined from one value to the next.
Built(g, k, S, a, step) ==
    g \in [0 .. k -> S] /\ g[0] = a /\ \A n \in 1 .. k : g[n] = step[n, g[n - 1]]

LEMMA Chain ==
    ASSUME NEW N \in Nat, NEW S, NEW a \in S, NEW step \in [(1 .. N) \X S -> S]
    PROVE  \E g : Built(g, N, S, a, step)
<1> DEFINE T == {k \in 0 .. N : \E g : Built(g, k, S, a, step)}
<1>1. 0 \in T
  <2> DEFINE g == [n \in 0 .. 0 |-> a]
  <2>1. g \in [0 .. 0 -> S] /\ g[0] = a /\ \A n \in 1 .. 0 : g[n] = step[n, g[n - 1]]
    OBVIOUS
  <2>2. Built(g, 0, S, a, step)
    <3> HIDE DEF g
    <3> QED BY <2>1 DEF Built
  <2> QED BY <2>2
<1>2. ASSUME NEW k \in 1 .. N, k - 1 \in T
      PROVE  k \in T
  <2>1. PICK g : Built(g, k - 1, S, a, step)
    BY <1>2
  <2>2. k \in 1 .. N /\ k - 1 \in 0 .. k - 1 /\ g[k - 1] \in S
    <3>1. k - 1 \in 0 .. k - 1
      OBVIOUS
    <3> QED BY <2>1, <3>1 DEF Built
  <2> DEFINE last == step[k, g[k - 1]]
  <2>7. last \in S
    <3> <<k, g[k - 1]>> \in (1 .. N) \X S
      BY <2>2
    <3> QED OBVIOUS
  <2> HIDE DEF last
  <2> DEFINE h == [n \in 0 .. k |-> IF n = k THEN last ELSE g[n]]
  <2>3. h \in [0 .. k -> S]
    <3>1. ASSUME NEW n \in 0 .. k
          PROVE  (IF n = k THEN last ELSE g[n]) \in S
      <4>1. n # k => n \in 0 .. k - 1
        OBVIOUS
      <4> QED BY <2>1, <2>7, <4>1 DEF Built
    <3> QED BY <3>1
  <2>4. h[0] = a
    <3>1. 0 \in 0 .. k /\ 0 # k
      OBVIOUS
    <3> QED BY <2>1, <3>1 DEF Built
  <2>5. ASSUME NEW n \in 1 .. k
        PROVE  h[n] = step[n, h[n - 1]]
    <3>1. n - 1 \in 0 .. k /\ n - 1 # k /\ n \in 0 .. k
      OBVIOUS
    <3>2. h[n - 1] = g[n - 1]
      BY <3>1
    <3>3. n # k => n \in 1 .. k - 1
      OBVIOUS
    <3>4. h[n] = IF n = k THEN last ELSE g[n]
      BY <3>1
    <3> HIDE DEF h
    <3> QED BY <2>1, <3>2, <3>3, <3>4 DEF last, Built
  <2>6. Built(h, k, S, a, step)
    <3> HIDE DEF h
    <3> QED BY <2>3, <2>4, <2>5 DEF Built
  <2> QED BY <2>6
<1>3. N \in T
  <2> HIDE DEF T
  <2> QED BY <1>1, <1>2, UpTo
<1> QED BY <1>3

\* What Without computes, one element after the other.
Run(f, A, s, e) ==
    /\ f \in [0 .. Len(s) -> Seq(A)]
    /\ f[0] = <<>> /\ Without(s, e) = f[Len(s)]
    /\ \A n \in 1 .. Len(s) : f[n] = IF s[n] = e THEN f[n - 1] ELSE Append(f[n - 1], s[n])

LEMMA WithoutRuns ==
    ASSUME NEW A, NEW s \in Seq(A), NEW e
    PROVE  \E f : Run(f, A, s, e)
<1> DEFINE N == Len(s)
           next(n, r) == IF s[n] = e THEN r ELSE Append(r, s[n])
           Walk(f) == [n \in 0 .. N |-> IF n = 0 THEN <<>> ELSE next(n, f[n - 1])]
           f == CHOOSE g : g = Walk(g)
           step == [x \in (1 .. N) \X Seq(A) |-> next(x[1], x[2])]
<1>1. N \in Nat /\ <<>> \in Seq(A)
  OBVIOUS
<1>2. Without(s, e) = f[N]
  BY DEF Without
<1>3. \A n \in 1 .. N : \A r \in Seq(A) : next(n, r) \in Seq(A)
  OBVIOUS
<1> HIDE DEF N, next
<1>4. step \in [(1 .. N) \X Seq(A) -> Seq(A)] /\ \A n \in 1 .. N : \A r \in Seq(A) : step[n, r] = next(n, r)
  BY <1>3
<1> HIDE DEF step
<1>5. PICK g : Built(g, N, Seq(A), <<>>, step)
  BY <1>1, <1>4, Chain
<1>6. ASSUME NEW n \in 0 .. N
      PROVE  g[n] = IF n = 0 THEN <<>> ELSE next(n, g[n - 1])
  <2>1. CASE n = 0
    BY <1>5, <2>1 DEF Built
  <2>2. CASE n # 0
    <3>1. n \in 1 .. N /\ n - 1 \in 0 .. N
      BY <1>1, <2>2
    <3>2. g[n - 1] \in Seq(A)
      BY <1>5, <3>1 DEF Built
    <3>3. g[n] = step[n, g[n - 1]]
      BY <1>5, <3>1 DEF Built
    <3> QED BY <1>4, <2>2, <3>1, <3>2, <3>3
  <2> QED BY <2>1, <2>2
<1>7. g = Walk(g)
  BY <1>5, <1>6 DEF Built
<1>8. f = Walk(f)
  <2> HIDE DEF Walk
  <2> QED BY <1>7
<1> HIDE DEF f
<1>9. \A n \in 0 .. N : f[n] = IF n = 0 THEN <<>> ELSE next(n, f[n - 1])
  BY <1>8
<1>10. \A n \in 0 .. N : f[n] \in Seq(A)
  <2> DEFINE T == {n \in 0 .. N : f[n] \in Seq(A)}
  <2>1. 0 \in T
    <3>1. 0 \in 0 .. N
      BY <1>1
    <3>2. f[0] = <<>>
      BY <1>9, <3>1
    <3> QED BY <1>1, <3>1, <3>2
  <2>2. ASSUME NEW n \in 1 .. N, n - 1 \in T
        PROVE  n \in T
    BY <1>3, <1>9, <2>2
  <2>3. \A n \in 0 .. N : n \in T
    <3> HIDE DEF T
    <3> QED BY <1>1, <2>1, <2>2, UpTo
  <2> QED BY <2>3
<1>11. f \in [0 .. N -> Seq(A)]
  BY <1>8, <1>10
<1>12. f[0] = <<>>
  BY <1>1, <1>9
<1>13. \A n \in 1 .. N : f[n] = next(n, f[n - 1])
  <2> TAKE n \in 1 .. N
  <2>1. n \in 0 .. N /\ n # 0
    BY <1>1
  <2> QED BY <1>9, <2>1
<1>14. Run(f, A, s, e)
  BY <1>2, <1>11, <1>12, <1>13 DEF N, next, Run
<1> QED BY <1>14

\* Without keeps the order of what it keeps.
LEMMA WithoutAppend ==
    ASSUME NEW A, NEW s \in Seq(A), NEW x \in A, NEW e
    PROVE  /\ Without(s, e) \in Seq(A)
           /\ Without(Append(s, x), e) = IF x = e THEN Without(s, e) ELSE Append(Without(s, e), x)
<1> DEFINE N == Len(s)
           t == Append(s, x)
<1>1. N \in Nat /\ t \in Seq(A) /\ Len(t) = N + 1 /\ t[N + 1] = x /\ \A n \in 1 .. N : t[n] = s[n]
  OBVIOUS
<1>2. PICK f : Run(f, A, s, e)
  BY WithoutRuns
<1> HIDE DEF t
<1>3. PICK g : Run(g, A, t, e)
  BY <1>1, WithoutRuns
<1> HIDE DEF N
<1>4. \A n \in 0 .. N : f[n] = g[n]
  <2> DEFINE T == {n \in 0 .. N : f[n] = g[n]}
  <2>1. 0 \in T
    BY <1>1, <1>2, <1>3 DEF Run
  <2>2. ASSUME NEW n \in 1 .. N, n - 1 \in T
        PROVE  n \in T
    <3>1. n \in 1 .. Len(t) /\ t[n] = s[n] /\ f[n - 1] = g[n - 1]
      BY <1>1, <2>2
    <3>2. f[n] = IF s[n] = e THEN f[n - 1] ELSE Append(f[n - 1], s[n])
      BY <1>2 DEF Run, N
    <3>3. g[n] = IF t[n] = e THEN g[n - 1] ELSE Append(g[n - 1], t[n])
      BY <1>3, <3>1 DEF Run
    <3> QED BY <1>1, <3>1, <3>2, <3>3
  <2>3. \A n \in 0 .. N : n \in T
    <3> HIDE DEF T
    <3> QED BY <1>1, <2>1, <2>2, UpTo
  <2> QED BY <2>3
<1>5. f[N] \in Seq(A) /\ f[N] = g[N]
  BY <1>1, <1>2, <1>4 DEF Run, N
<1>6. g[N + 1] = IF t[N + 1] = e THEN g[N] ELSE Append(g[N], t[N + 1])
  <2>1. N + 1 \in 1 .. Len(t) /\ (N + 1) - 1 = N
    BY <1>1
  <2> QED BY <1>3, <2>1 DEF Run
<1>7. Without(s, e) = f[N] /\ Without(t, e) = g[N + 1]
  BY <1>1, <1>2, <1>3 DEF Run, N
<1> QED BY <1>1, <1>5, <1>6, <1>7 DEF t

LEMMA WithoutEmpty ==
    ASSUME NEW e
    PROVE  Without(<<>>, e) = <<>>
<1>1. <<>> \in Seq({0}) /\ Len(<<>>) = 0
  OBVIOUS
<1>2. PICK f : Run(f, {0}, <<>>, e)
  BY <1>1, WithoutRuns
<1> QED BY <1>1, <1>2 DEF Run

-----------------------------------------------------------------------------
(* Requests and streams. *)

\* What is assumed of the requests.
LEMMA RequestFacts ==
    ASSUME script \in Scripts, NEW id \in Ids
    PROVE  /\ id = <<id[1], id[2]>> /\ id[1] \in Conns /\ id[2] \in 1 .. Len(script[id[1]])
           /\ Len(script) \in Nat /\ Len(script[id[1]]) \in Nat
           /\ Request(id).head \in Nat \ {0} /\ Request(id).body \in Nat /\ Request(id).lost \in Nat
           /\ Request(id).from \in Nat /\ Request(id).length \in BOOLEAN
           /\ Size(id) \in Nat
           /\ Request(id).lost > 0 => id[2] = Len(script[id[1]])
           /\ Request(id).body > 0 => Request(id).length \/ Request(id).method \in {"POST", "PUT"}
<1>1. script \in Seq(Seq(RequestType))
  BY ConnAssumption
<1>2. PICK c \in Conns : id \in {c} \X DOMAIN script[c]
  BY DEF Ids
<1>3. script[c] \in Seq(RequestType) /\ Len(script) \in Nat
  BY <1>1 DEF Conns
<1>4. Len(script[c]) \in Nat /\ DOMAIN script[c] = 1 .. Len(script[c])
  BY <1>3
<1>5. id = <<id[1], id[2]>> /\ id[1] = c /\ id[2] \in 1 .. Len(script[c]) /\ c \in DOMAIN script
  BY <1>1, <1>2, <1>4 DEF Conns
<1>6. Request(id) \in RequestType
  BY <1>3, <1>5 DEF Request
<1>7. /\ Request(id).head \in Nat \ {0} /\ Request(id).body \in Nat /\ Request(id).lost \in Nat
      /\ Request(id).from \in Nat /\ Request(id).length \in BOOLEAN
  BY <1>6 DEF RequestType
<1>8. /\ Request(id).lost <= Request(id).head + Request(id).body
      /\ Request(id).lost > 0 => id[2] = Len(script[c])
      /\ Request(id).body > 0 => Request(id).length \/ Request(id).method \in {"POST", "PUT"}
  BY <1>4, <1>5, ConnAssumption DEF Request
<1>9. Size(id) \in Nat
  BY <1>7, <1>8 DEF Size
<1> QED BY <1>3, <1>4, <1>5, <1>7, <1>8, <1>9

LEMMA HeadFacts ==
    ASSUME script \in Scripts, NEW id \in Ids
    PROVE  /\ ReqHead(id) \in Seq(Units) /\ Len(ReqHead(id)) = Request(id).head
           /\ \A i \in 1 .. Request(id).head : ReqHead(id)[i] = Unit(id, i)
<1> DEFINE h == Request(id).head
           unit(i) == <<id[1], id[2], IF i < h THEN 0 ELSE -1>>
<1>1. id[1] \in Nat /\ id[2] \in Nat /\ h \in Nat
  BY RequestFacts DEF Conns
<1>2. ReqHead(id) = [i \in 1 .. h |-> unit(i)]
  BY DEF ReqHead
<1> HIDE DEF h
<1>3. \A i \in 1 .. h : unit(i) \in Units
  BY <1>1 DEF Units
<1>4. \A i \in 1 .. h : unit(i) = Unit(id, i)
  BY <1>1 DEF Unit, h
<1> HIDE DEF unit
<1>5. [i \in 1 .. h |-> unit(i)] \in Seq(Units) /\ Len([i \in 1 .. h |-> unit(i)]) = h
  BY <1>1, <1>3
<1> QED BY <1>2, <1>4, <1>5 DEF h

LEMMA SentFacts ==
    ASSUME script \in Scripts, NEW id \in Ids
    PROVE  /\ Sent(id) \in Seq(Units) /\ Len(Sent(id)) = Size(id)
           /\ \A i \in 1 .. Size(id) : Sent(id)[i] = Unit(id, i)
<1> DEFINE h == Request(id).head
           b == Request(id).body
           n == Size(id)
           unit(i) == <<id[1], id[2], i>>
           H == ReqHead(id)
           B == Body(id)
<1>1. /\ id[1] \in Nat /\ id[2] \in Nat /\ h \in Nat /\ b \in Nat /\ n \in Nat
      /\ Request(id).lost \in Nat /\ n = h + b - Request(id).lost
  BY RequestFacts DEF Conns, Size
<1>2. H \in Seq(Units) /\ Len(H) = h /\ \A i \in 1 .. h : H[i] = Unit(id, i)
  BY HeadFacts
<1>3. B = [i \in 1 .. b |-> unit(i)]
  BY DEF Body
<1>4. Sent(id) = SubSeq(H \o B, 1, n)
  BY DEF Sent, Size
<1>5. \A i \in 1 .. b : unit(i) \in Units /\ unit(i) = Unit(id, h + i)
  <2> TAKE i \in 1 .. b
  <2>1. ~(h + i < h) /\ h + i # h /\ h + i - h = i /\ i \in Int
    BY <1>1
  <2> QED BY <1>1, <2>1 DEF Units, Unit
<1> HIDE DEF h, b, n, unit, H
<1>6. B \in Seq(Units) /\ Len(B) = b /\ \A i \in 1 .. b : B[i] = unit(i)
  BY <1>1, <1>3, <1>5
<1> HIDE DEF B
<1> DEFINE S == H \o B
<1>7. S \in Seq(Units) /\ Len(S) = h + b
  BY <1>2, <1>6
<1>8. ASSUME NEW i \in 1 .. h + b
      PROVE  S[i] = Unit(id, i)
  <2>1. CASE i <= h
    BY <1>1, <1>2, <1>6, <2>1
  <2>2. CASE i > h
    <3>1. i - h \in 1 .. b /\ h + (i - h) = i
      BY <1>1, <2>2
    <3>2. S[i] = B[i - h]
      BY <1>1, <1>2, <1>6, <2>2
    <3> QED BY <1>5, <1>6, <3>1, <3>2
  <2>3. i <= h \/ i > h
    BY <1>1
  <2> QED BY <2>1, <2>2, <2>3
<1> HIDE DEF S
<1>9. n <= h + b
  BY <1>1
<1>10. SubSeq(S, 1, n) \in Seq(Units) /\ Len(SubSeq(S, 1, n)) = n /\ \A i \in 1 .. n : SubSeq(S, 1, n)[i] = S[i]
  BY <1>1, <1>7, <1>9
<1>11. \A i \in 1 .. n : i \in 1 .. h + b
  BY <1>1, <1>9
<1> QED BY <1>4, <1>8, <1>10, <1>11 DEF n, S

\* FirstSent adds one request after the other.
LEMMA FirstRuns ==
    ASSUME script \in Scripts, NEW c \in Conns
    PROVE  /\ Len(script[c]) \in Nat
           /\ \A n \in 1 .. Len(script[c]) : <<c, n>> \in Ids
           /\ \A n \in 0 .. Len(script[c]) : FirstSent(c)[n] \in Seq(Units)
           /\ FirstSent(c)[0] = <<>>
           /\ \A n \in 1 .. Len(script[c]) : FirstSent(c)[n] = FirstSent(c)[n - 1] \o Sent(<<c, n>>)
<1> DEFINE N == Len(script[c])
           next(n, r) == r \o Sent(<<c, n>>)
           Walk(f) == [n \in 0 .. N |-> IF n = 0 THEN <<>> ELSE next(n, f[n - 1])]
           f == CHOOSE g : g = Walk(g)
           step == [x \in (1 .. N) \X Seq(Units) |-> next(x[1], x[2])]
<1>1. N \in Nat /\ <<>> \in Seq(Units) /\ DOMAIN script[c] = 1 .. N
  <2>1. script[c] \in Seq(RequestType)
    BY ConnAssumption DEF Conns
  <2> QED BY <2>1
<1>2. \A n \in 1 .. N : <<c, n>> \in Ids
  BY <1>1 DEF Ids
<1>3. FirstSent(c) = f
  BY DEF FirstSent
<1>4. \A n \in 1 .. N : \A r \in Seq(Units) : next(n, r) \in Seq(Units)
  BY <1>2, SentFacts
<1> HIDE DEF N, next
<1>5. step \in [(1 .. N) \X Seq(Units) -> Seq(Units)]
      /\ \A n \in 1 .. N : \A r \in Seq(Units) : step[n, r] = next(n, r)
  BY <1>4
<1> HIDE DEF step
<1>6. PICK g : Built(g, N, Seq(Units), <<>>, step)
  BY <1>1, <1>5, Chain
<1>7. ASSUME NEW n \in 0 .. N
      PROVE  g[n] = IF n = 0 THEN <<>> ELSE next(n, g[n - 1])
  <2>1. CASE n = 0
    BY <1>6, <2>1 DEF Built
  <2>2. CASE n # 0
    <3>1. n \in 1 .. N /\ n - 1 \in 0 .. N
      BY <1>1, <2>2
    <3>2. g[n - 1] \in Seq(Units)
      BY <1>6, <3>1 DEF Built
    <3>3. g[n] = step[n, g[n - 1]]
      BY <1>6, <3>1 DEF Built
    <3> QED BY <1>5, <2>2, <3>1, <3>2, <3>3
  <2> QED BY <2>1, <2>2
<1>8. g = Walk(g)
  BY <1>6, <1>7 DEF Built
<1>9. f = Walk(f)
  <2> HIDE DEF Walk
  <2> QED BY <1>8
<1> HIDE DEF f
<1>10. \A n \in 0 .. N : f[n] = IF n = 0 THEN <<>> ELSE next(n, f[n - 1])
  BY <1>9
<1>11. f[0] = <<>>
  <2>1. 0 \in 0 .. N
    BY <1>1
  <2> QED BY <1>10, <2>1
<1>12. \A n \in 0 .. N : f[n] \in Seq(Units)
  <2> DEFINE T == {n \in 0 .. N : f[n] \in Seq(Units)}
  <2>1. 0 \in T
    <3>1. 0 \in 0 .. N
      BY <1>1
    <3> QED BY <1>1, <1>11, <3>1
  <2>2. ASSUME NEW n \in 1 .. N, n - 1 \in T
        PROVE  n \in T
    BY <1>4, <1>10, <2>2
  <2>3. \A n \in 0 .. N : n \in T
    <3> HIDE DEF T
    <3> QED BY <1>1, <2>1, <2>2, UpTo
  <2> QED BY <2>3
<1>13. \A n \in 1 .. N : f[n] = next(n, f[n - 1])
  <2> TAKE n \in 1 .. N
  <2>1. n \in 0 .. N /\ n # 0
    BY <1>1
  <2> QED BY <1>10, <2>1
<1> QED BY <1>1, <1>2, <1>3, <1>11, <1>12, <1>13 DEF N, next

\* The first k requests of a connection lie one behind the other.
Laid(c, k) ==
    /\ \A n \in 1 .. k + 1 : Begin(c, n) <= Begin(c, k + 1)
    /\ \A n \in 1 .. k : \A i \in 1 .. Size(<<c, n>>) :
          FirstSent(c)[k][Begin(c, n) + i] = Unit(<<c, n>>, i)
    /\ \A p \in 1 .. Begin(c, k + 1) : \E n \in 1 .. k : \E i \in 1 .. Size(<<c, n>>) : p = Begin(c, n) + i

LEMMA Layout ==
    ASSUME script \in Scripts, NEW c \in Conns
    PROVE  /\ Stream(c) \in Seq(Units) /\ Len(script[c]) \in Nat
           /\ Begin(c, 1) = 0 /\ Begin(c, Len(script[c]) + 1) = Len(Stream(c))
           /\ \A n \in 1 .. Len(script[c]) + 1 : Begin(c, n) \in 0 .. Len(Stream(c))
           /\ \A n \in 1 .. Len(script[c]) :
                 /\ <<c, n>> \in Ids /\ Begin(c, n + 1) = Begin(c, n) + Size(<<c, n>>)
                 /\ \A i \in 1 .. Size(<<c, n>>) : Stream(c)[Begin(c, n) + i] = Unit(<<c, n>>, i)
           /\ \A p \in 1 .. Len(Stream(c)) :
                 \E n \in 1 .. Len(script[c]) : \E i \in 1 .. Size(<<c, n>>) : p = Begin(c, n) + i
<1> DEFINE N == Len(script[c])
           F == FirstSent(c)
           T == {k \in 0 .. N : Laid(c, k)}
<1>1. /\ N \in Nat /\ F[0] = <<>>
      /\ \A n \in 1 .. N : <<c, n>> \in Ids /\ F[n] = F[n - 1] \o Sent(<<c, n>>)
      /\ \A n \in 0 .. N : F[n] \in Seq(Units)
  BY FirstRuns
<1>2. \A n \in 1 .. N : /\ Sent(<<c, n>>) \in Seq(Units) /\ Len(Sent(<<c, n>>)) = Size(<<c, n>>)
                        /\ \A i \in 1 .. Size(<<c, n>>) : Sent(<<c, n>>)[i] = Unit(<<c, n>>, i)
                        /\ Size(<<c, n>>) \in Nat
  BY <1>1, SentFacts, RequestFacts
<1>3. Stream(c) = F[N]
  BY DEF Stream
<1>4. \A n \in 1 .. N + 1 : Begin(c, n) = Len(F[n - 1])
  BY DEF Begin
<1> HIDE DEF F
<1>5. \A n \in 1 .. N + 1 : Begin(c, n) \in Nat
  <2> TAKE n \in 1 .. N + 1
  <2>1. n - 1 \in 0 .. N
    BY <1>1
  <2> QED BY <1>1, <1>4, <2>1
<1>6. Begin(c, 1) = 0
  <2>1. 1 \in 1 .. N + 1
    BY <1>1
  <2> QED BY <1>1, <1>4, <2>1
<1>7. \A n \in 1 .. N : Begin(c, n + 1) = Begin(c, n) + Size(<<c, n>>)
  <2> TAKE n \in 1 .. N
  <2>1. n - 1 \in 0 .. N /\ n \in 1 .. N + 1 /\ n + 1 \in 1 .. N + 1 /\ (n + 1) - 1 = n
    BY <1>1
  <2>2. F[n - 1] \in Seq(Units) /\ F[n] = F[n - 1] \o Sent(<<c, n>>)
    BY <1>1, <2>1
  <2>3. Len(F[n]) = Len(F[n - 1]) + Len(Sent(<<c, n>>))
    BY <1>2, <2>2
  <2> QED BY <1>2, <1>4, <2>1, <2>3
<1>8. 0 \in T
  <2>1. Begin(c, 0 + 1) = 0 /\ \A n \in 1 .. 0 + 1 : n = 1
    BY <1>6
  <2>2. Laid(c, 0)
    BY <1>6, <2>1 DEF Laid
  <2> QED BY <1>1, <2>2
<1>9. ASSUME NEW k \in 1 .. N, k - 1 \in T
      PROVE  k \in T
  <2> DEFINE E == Begin(c, k)
  <2>1. Laid(c, k - 1) /\ (k - 1) + 1 = k
    BY <1>9
  <2>2. /\ E \in Nat /\ k \in 1 .. N + 1 /\ k + 1 \in 1 .. N + 1
        /\ Begin(c, k + 1) = E + Size(<<c, k>>) /\ Size(<<c, k>>) \in Nat
    BY <1>1, <1>2, <1>5, <1>6, <1>7
  <2>3. /\ \A n \in 1 .. k : Begin(c, n) <= E
        /\ \A n \in 1 .. k - 1 : \A i \in 1 .. Size(<<c, n>>) : F[k - 1][Begin(c, n) + i] = Unit(<<c, n>>, i)
        /\ \A p \in 1 .. E : \E n \in 1 .. k - 1 : \E i \in 1 .. Size(<<c, n>>) : p = Begin(c, n) + i
    BY <2>1 DEF Laid, F
  <2>4. /\ F[k - 1] \in Seq(Units) /\ F[k] = F[k - 1] \o Sent(<<c, k>>)
        /\ Len(F[k - 1]) = E
    <3>1. k - 1 \in 0 .. N
      BY <1>1
    <3> QED BY <1>1, <1>4, <2>2, <3>1
  <2> HIDE DEF E
  <2>5. ASSUME NEW n \in 1 .. k + 1
        PROVE  Begin(c, n) <= Begin(c, k + 1)
    <3>1. n = k + 1 \/ n \in 1 .. k
      OBVIOUS
    <3>2. n \in 1 .. N + 1
      BY <1>1
    <3> QED BY <1>5, <2>2, <2>3, <3>1, <3>2
  <2>6. ASSUME NEW n \in 1 .. k, NEW i \in 1 .. Size(<<c, n>>)
        PROVE  F[k][Begin(c, n) + i] = Unit(<<c, n>>, i)
    <3>0. n \in 1 .. N /\ n \in 1 .. N + 1
      BY <1>1
    <3>1. Begin(c, n) \in Nat /\ Size(<<c, n>>) \in Nat
      BY <1>2, <1>5, <3>0
    <3>2. CASE n = k
      <4>1. /\ Sent(<<c, k>>) \in Seq(Units) /\ i \in 1 .. Len(Sent(<<c, k>>))
            /\ Sent(<<c, k>>)[i] = Unit(<<c, n>>, i)
        BY <1>2, <3>0, <3>2
      <4>2. F[k][E + i] = Sent(<<c, k>>)[i]
        <5> DEFINE S == Sent(<<c, k>>)
        <5>1. S \in Seq(Units) /\ i \in 1 .. Len(S)
          BY <4>1
        <5>2. (F[k - 1] \o S)[E + i] = S[i]
          <6> DEFINE R == F[k - 1]
          <6>1. R \in Seq(Units) /\ Len(R) = E
            BY <2>4
          <6> HIDE DEF S, R
          <6>2. E + i \in 1 .. Len(R) + Len(S) /\ ~(E + i <= Len(R)) /\ (E + i) - Len(R) = i
            BY <2>2, <5>1, <6>1
          <6>3. (R \o S)[E + i] = S[(E + i) - Len(R)]
            BY <5>1, <6>1, <6>2
          <6> QED BY <6>2, <6>3 DEF R
        <5> QED BY <2>4, <5>2
      <4> QED BY <3>2, <4>1, <4>2 DEF E
    <3>3. CASE n # k
      <4>1. n \in 1 .. k - 1 /\ n + 1 \in 1 .. k
        BY <3>3
      <4>2. Begin(c, n + 1) = Begin(c, n) + Size(<<c, n>>) /\ Begin(c, n + 1) <= E
        BY <1>7, <2>3, <3>0, <4>1
      <4>3. Begin(c, n) + i \in 1 .. E
        BY <2>2, <3>1, <4>2
      <4>4. F[k][Begin(c, n) + i] = F[k - 1][Begin(c, n) + i]
        <5> DEFINE S == Sent(<<c, k>>)
        <5>1. S \in Seq(Units)
          BY <1>2
        <5>2. \A j \in 1 .. E : (F[k - 1] \o S)[j] = F[k - 1][j]
          <6> HIDE DEF S
          <6> QED BY <2>2, <2>4, <5>1
        <5> QED BY <2>4, <4>3, <5>2
      <4> QED BY <2>3, <4>1, <4>4
    <3> QED BY <3>2, <3>3
  <2>7. ASSUME NEW p \in 1 .. Begin(c, k + 1)
        PROVE  \E n \in 1 .. k : \E i \in 1 .. Size(<<c, n>>) : p = Begin(c, n) + i
    <3>1. CASE p <= E
      <4>1. PICK n \in 1 .. k - 1 : \E i \in 1 .. Size(<<c, n>>) : p = Begin(c, n) + i
        BY <2>2, <2>3, <3>1
      <4>2. n \in 1 .. k
        OBVIOUS
      <4> QED BY <4>1, <4>2
    <3>2. CASE p > E
      <4>1. p - E \in 1 .. Size(<<c, k>>) /\ p = E + (p - E) /\ k \in 1 .. k
        BY <2>2, <3>2
      <4> QED BY <4>1 DEF E
    <3>3. p <= E \/ p > E
      BY <2>2
    <3> QED BY <3>1, <3>2, <3>3
  <2>8. Laid(c, k)
    BY <2>5, <2>6, <2>7 DEF Laid, F
  <2> QED BY <2>8
<1>10. N \in T
  <2>1. \A n \in 0 .. N : n \in T
    <3> HIDE DEF T
    <3> QED BY <1>1, <1>8, <1>9, UpTo
  <2> QED BY <1>1, <2>1
<1>11. Laid(c, N) /\ F[N] \in Seq(Units) /\ Begin(c, N + 1) = Len(F[N])
  <2>1. N \in 0 .. N /\ N + 1 \in 1 .. N + 1 /\ (N + 1) - 1 = N
    BY <1>1
  <2> QED BY <1>1, <1>4, <1>10, <2>1
<1>12. \A n \in 1 .. N + 1 : Begin(c, n) \in 0 .. Len(F[N])
  BY <1>5, <1>11 DEF Laid
<1>13. \A n \in 1 .. N : \A i \in 1 .. Size(<<c, n>>) : F[N][Begin(c, n) + i] = Unit(<<c, n>>, i)
  BY <1>11 DEF Laid, F
<1>14. \A p \in 1 .. Len(F[N]) : \E n \in 1 .. N : \E i \in 1 .. Size(<<c, n>>) : p = Begin(c, n) + i
  BY <1>11 DEF Laid
<1> QED BY <1>1, <1>3, <1>6, <1>7, <1>11, <1>12, <1>13, <1>14

-----------------------------------------------------------------------------
(* Heads in the buffer. *)

LEMMA OwnUnits ==
    ASSUME script \in Scripts, NEW c \in Conns, NEW p \in 1 .. Len(Stream(c))
    PROVE  Stream(c)[p][1] = c
<1>1. PICK n \in 1 .. Len(script[c]) : \E i \in 1 .. Size(<<c, n>>) : p = Begin(c, n) + i
  BY Layout
<1>2. PICK i \in 1 .. Size(<<c, n>>) : p = Begin(c, n) + i
  BY <1>1
<1>3. Stream(c)[p] = Unit(<<c, n>>, i)
  BY <1>1, <1>2, Layout
<1> QED BY <1>3 DEF Unit

\* The last unit of a head tells where the request begins.
LEMMA Aligned ==
    ASSUME script \in Scripts, NEW c \in Conns, NEW id \in Ids, NEW k \in Nat,
           k + Request(id).head <= Len(Stream(c)),
           Stream(c)[k + Request(id).head] = Unit(id, Request(id).head)
    PROVE  id[1] = c /\ k = Begin(c, id[2])
<1> DEFINE p == k + Request(id).head
<1>1. Request(id).head \in Nat \ {0} /\ id = <<id[1], id[2]>>
  BY RequestFacts
<1>2. Len(Stream(c)) \in Nat
  BY Layout
<1>3. p \in 1 .. Len(Stream(c))
  BY <1>1, <1>2
<1>4. PICK n \in 1 .. Len(script[c]) : \E i \in 1 .. Size(<<c, n>>) : p = Begin(c, n) + i
  BY <1>3, Layout
<1>5. PICK i \in 1 .. Size(<<c, n>>) : p = Begin(c, n) + i
  BY <1>4
<1>6. Stream(c)[p] = Unit(<<c, n>>, i) /\ <<c, n>> \in Ids
  BY <1>4, <1>5, Layout
<1>7. Unit(id, Request(id).head) = <<id[1], id[2], -1>>
  BY <1>1 DEF Unit
<1>8. /\ Request(<<c, n>>).head \in Nat /\ Size(<<c, n>>) \in Nat
      /\ Begin(c, n) \in 0 .. Len(Stream(c))
  <2>1. n \in 1 .. Len(script[c]) + 1
    BY <1>4, Layout
  <2>2. Begin(c, n) \in 0 .. Len(Stream(c))
    BY <2>1, Layout
  <2> QED BY <1>6, <2>2, RequestFacts
<1>9. c = id[1] /\ n = id[2]
  BY <1>6, <1>7 DEF Unit
<1>10. <<c, n>> = id
  BY <1>1, <1>9
<1>11. i \in Nat /\ (IF i < Request(id).head THEN 0 ELSE IF i = Request(id).head THEN -1 ELSE i - Request(id).head) = -1
  BY <1>6, <1>7, <1>8, <1>10 DEF Unit
<1>12. i = Request(id).head
  BY <1>1, <1>11
<1> QED BY <1>1, <1>5, <1>8, <1>9, <1>12

LEMMA HeadEnd ==
    ASSUME NEW b \in Seq(Units)
    PROVE  /\ get_request_len(b) \in 0 .. Len(b)
           /\ get_request_len(b) > 0 => /\ b[get_request_len(b)][3] = -1
                                        /\ \A j \in 1 .. Len(b) : b[j][3] = -1 => get_request_len(b) <= j
<1> DEFINE ends == {i \in 1 .. Len(b) : b[i][3] = -1}
<1>1. get_request_len(b) = IF ends = {} THEN 0 ELSE CHOOSE i \in ends : \A j \in ends : i <= j
  BY DEF get_request_len
<1>2. Len(b) \in Nat /\ ends \subseteq Nat
  OBVIOUS
<1>3. CASE ends = {}
  BY <1>1, <1>2, <1>3
<1>4. CASE ends # {}
  <2>1. \E i \in ends : \A j \in ends : i <= j
    <3> HIDE DEF ends
    <3> QED BY <1>2, <1>4, LeastNat
  <2>2. get_request_len(b) \in ends /\ \A j \in ends : get_request_len(b) <= j
    BY <1>1, <1>4, <2>1
  <2> QED BY <1>2, <2>2
<1> QED BY <1>3, <1>4

\* What Parsed finds is the request with that head, if there is one.
LEMMA ParsedFacts ==
    ASSUME script \in Scripts, NEW b
    PROVE  /\ <<0, 0>> \notin Ids
           /\ Parsed(b) \in Known
           /\ Parsed(b) # <<0, 0>> => Parsed(b) \in Ids /\ ReqHead(Parsed(b)) = b
           /\ \A id \in Ids : ReqHead(id) = b => Parsed(b) = id
<1> DEFINE ids == {id \in Ids : ReqHead(id) = b}
<1>1. Parsed(b) = IF ids = {} THEN <<0, 0>> ELSE CHOOSE id \in ids : TRUE
  BY DEF Parsed, Ids
<1>2. <<0, 0>> \notin Ids
  <2> SUFFICES ASSUME <<0, 0>> \in Ids  PROVE FALSE
    OBVIOUS
  <2>1. <<0, 0>>[1] \in Conns
    BY RequestFacts
  <2> QED BY <2>1 DEF Conns
<1>3. \A id \in Ids : ReqHead(id) = b => \A other \in ids : other = id
  <2> TAKE id \in Ids
  <2> HAVE ReqHead(id) = b
  <2> TAKE other \in ids
  <2>1. other \in Ids /\ ReqHead(other) = ReqHead(id)
    OBVIOUS
  <2>2. 1 \in 1 .. Request(id).head /\ 1 \in 1 .. Request(other).head
    BY <2>1, RequestFacts
  <2>3. ReqHead(id)[1] = Unit(id, 1) /\ ReqHead(other)[1] = Unit(other, 1)
    BY <2>1, <2>2, HeadFacts
  <2>4. id[1] = other[1] /\ id[2] = other[2]
    BY <2>1, <2>3 DEF Unit
  <2>5. id = <<id[1], id[2]>> /\ other = <<other[1], other[2]>>
    BY <2>1, RequestFacts
  <2> QED BY <2>4, <2>5
<1>4. ids # {} => Parsed(b) \in ids
  BY <1>1
<1>5. ids = {} => Parsed(b) = <<0, 0>>
  BY <1>1
<1> QED BY <1>2, <1>3, <1>4, <1>5 DEF Known

\* A buffer that begins with a request has its head before any other.
LEMMA NextHead ==
    ASSUME script \in Scripts, NEW c \in Conns, NEW n \in 1 .. Len(script[c]) + 1,
           NEW b \in Seq(Units), Begin(c, n) + Len(b) <= Len(Stream(c)),
           \A i \in 1 .. Len(b) : b[i] = Stream(c)[Begin(c, n) + i],
           get_request_len(b) > 0
    PROVE  n <= Len(script[c]) /\ SubSeq(b, 1, get_request_len(b)) = ReqHead(<<c, n>>)
<1> DEFINE r == get_request_len(b)
           k == Begin(c, n)
           L == Len(Stream(c))
           id == <<c, n>>
           h == Request(id).head
           z == Size(id)
<1>1. L \in Nat /\ k \in 0 .. L /\ Len(script[c]) \in Nat /\ Len(b) \in Nat
  BY Layout
<1>2. r \in 1 .. Len(b) /\ b[r][3] = -1 /\ \A j \in 1 .. Len(b) : b[j][3] = -1 => r <= j
  <2>1. r \in 0 .. Len(b)
    BY HeadEnd
  <2> QED BY <1>1, <2>1, HeadEnd
<1>3. n \in 1 .. Len(script[c])
  <2>1. n # Len(script[c]) + 1
    BY <1>1, <1>2, Layout
  <2> QED BY <1>1, <2>1
<1>4. /\ id \in Ids /\ Begin(c, n + 1) = k + z /\ n + 1 \in 1 .. Len(script[c]) + 1
      /\ \A i \in 1 .. z : Stream(c)[k + i] = Unit(id, i)
  <2>1. /\ id \in Ids /\ Begin(c, n + 1) = k + z
        /\ \A i \in 1 .. z : Stream(c)[k + i] = Unit(id, i)
    BY <1>3, Layout
  <2>2. n + 1 \in 1 .. Len(script[c]) + 1
    BY <1>1, <1>3
  <2> QED BY <2>1, <2>2
<1>5. /\ h \in Nat \ {0} /\ z \in Nat /\ z = h + Request(id).body - Request(id).lost
      /\ Request(id).body \in Nat /\ Request(id).lost \in Nat
      /\ Request(id).lost > 0 => n = Len(script[c])
  <2>1. id[2] = n /\ id[1] = c
    OBVIOUS
  <2> HIDE DEF id
  <2> QED BY <1>4, <2>1, RequestFacts DEF Size
<1>6. k + Len(b) <= L /\ \A i \in 1 .. Len(b) : b[i] = Stream(c)[k + i]
  OBVIOUS
<1> HIDE DEF r, k, L, h, z
<1>7. k + z <= L /\ (Request(id).lost > 0 => k + z = L)
  <2>1. Begin(c, n + 1) \in 0 .. L /\ (n = Len(script[c]) => Begin(c, n + 1) = L)
    BY <1>4, Layout DEF L
  <2> QED BY <1>1, <1>4, <1>5, <2>1
<1>16. \A i \in 1 .. z : i <= Len(b) => b[i] = Unit(id, i)
  <2> TAKE i \in 1 .. z
  <2>1. i <= Len(b) => i \in 1 .. Len(b)
    BY <1>1, <1>5
  <2> QED BY <1>4, <1>6, <2>1
<1> HIDE DEF id
<1>8. ASSUME NEW i \in 1 .. z
      PROVE  Unit(id, i)[3] = -1 <=> i = h
  BY <1>5 DEF Unit, h
<1>9. h <= z
  <2> SUFFICES ASSUME h > z  PROVE FALSE
    BY <1>5
  <2>3. k + z = L
    <3>1. Request(id).lost > 0
      BY <1>5
    <3> QED BY <1>7, <3>1
  <2>4. Len(b) <= z /\ Len(b) \in Nat
    <3>1. k + Len(b) <= k + z
      BY <1>6, <2>3
    <3> QED BY <1>1, <1>5, <3>1
  <2>1. k + z = L /\ r \in 1 .. z
    BY <1>2, <1>5, <2>3, <2>4
  <2>2. Unit(id, r)[3] = -1
    BY <1>2, <1>16, <2>1
  <2> QED BY <1>5, <1>8, <2>1, <2>2
<1>10. r <= h
  <2> SUFFICES ASSUME r > h  PROVE FALSE
    BY <1>2, <1>5
  <2>1. h \in 1 .. Len(b) /\ h \in 1 .. z
    BY <1>1, <1>2, <1>5, <1>9
  <2>2. b[h][3] = -1
    BY <1>16, <1>8, <2>1
  <2>3. r <= h
    BY <1>2, <2>1, <2>2
  <2> QED BY <1>2, <1>5, <2>3
<1>11. r = h
  <2>1. r \in 1 .. z /\ r <= Len(b)
    BY <1>1, <1>2, <1>5, <1>9, <1>10
  <2>2. Unit(id, r)[3] = -1
    BY <1>2, <1>16, <2>1
  <2> QED BY <1>8, <2>1, <2>2
<1>12. /\ ReqHead(id) \in Seq(Units) /\ Len(ReqHead(id)) = h
       /\ \A i \in 1 .. h : ReqHead(id)[i] = Unit(id, i)
  BY <1>4, HeadFacts DEF h
<1>13. SubSeq(b, 1, r) \in Seq(Units) /\ Len(SubSeq(b, 1, r)) = r /\ \A i \in 1 .. r : SubSeq(b, 1, r)[i] = b[i]
  BY <1>1, <1>2
<1>14. ASSUME NEW i \in 1 .. h
       PROVE  SubSeq(b, 1, r)[i] = ReqHead(id)[i]
  <2>1. i \in 1 .. z /\ i <= Len(b) /\ i \in 1 .. r
    BY <1>1, <1>2, <1>5, <1>9, <1>11
  <2> QED BY <1>16, <1>12, <1>13, <2>1
<1>15. SubSeq(b, 1, r) = ReqHead(id)
  <2> DEFINE x == SubSeq(b, 1, r)
             y == ReqHead(id)
  <2>1. x \in Seq(Units) /\ y \in Seq(Units) /\ Len(x) = Len(y) /\ \A i \in 1 .. Len(x) : x[i] = y[i]
    BY <1>11, <1>12, <1>13, <1>14
  <2> HIDE DEF x, y
  <2>2. x = y
    BY <2>1, SeqEqual, Zenon
  <2> QED BY <2>2 DEF x, y
<1>17. n <= Len(script[c])
  BY <1>1, <1>3
<1> QED BY <1>15, <1>17 DEF r, id

\* The clients' requests do not change.
LEMMA SameScript ==
    ASSUME script' = script
    PROVE  /\ \A c : FirstSent(c)' = FirstSent(c) /\ Stream(c)' = Stream(c)
           /\ \A id : Request(id)' = Request(id)
           /\ Conns' = Conns /\ Ids' = Ids /\ Known' = Known
           /\ \A id : Size(id)' = Size(id) /\ Announced(id)' = Announced(id)
           /\ \A c, n : Begin(c, n)' = Begin(c, n)
<1> DEFINE Rq(s, id) == s[id[1]][id[2]]
           Hd(s, id) == [i \in 1 .. Rq(s, id).head |-> <<id[1], id[2], IF i < Rq(s, id).head THEN 0 ELSE -1>>]
           Bd(s, id) == [i \in 1 .. Rq(s, id).body |-> <<id[1], id[2], i>>]
           Snt(s, id) == SubSeq(Hd(s, id) \o Bd(s, id), 1, Rq(s, id).head + Rq(s, id).body - Rq(s, id).lost)
           Fs(s, c) == LET f[n \in 0 .. Len(s[c])] == IF n = 0 THEN <<>> ELSE f[n - 1] \o Snt(s, <<c, n>>) IN f
<1>1. \A c : FirstSent(c) = Fs(script, c)
  BY DEF FirstSent, Sent, ReqHead, Body, Request
<1>2. \A c : FirstSent(c)' = Fs(script', c)
  BY DEF FirstSent, Sent, ReqHead, Body, Request
<1> HIDE DEF Fs
<1>3. \A c : FirstSent(c)' = FirstSent(c)
  BY <1>1, <1>2
<1>4. \A c : Stream(c)' = Stream(c)
  BY <1>3 DEF Stream
<1>5. \A id : Request(id)' = Request(id)
  BY DEF Request
<1>6. Conns' = Conns /\ Ids' = Ids /\ Known' = Known
  BY DEF Conns, Ids, Known
<1>7.  \A id : Size(id)' = Size(id) /\ Announced(id)' = Announced(id)
  BY DEF Size, Announced, Request
<1>8. \A c, n : Begin(c, n)' = Begin(c, n)
  BY <1>3 DEF Begin
<1> QED BY <1>3, <1>4, <1>5, <1>6, <1>7, <1>8

-----------------------------------------------------------------------------
(* Parts that many steps leave alone. *)

LEMMA TypesFacts ==
    ASSUME Types
    PROVE  /\ script \in Scripts /\ Len(script) \in Nat /\ cur \in Nat
           /\ pc # "idle" => cur \in Conns
           /\ Known \subseteq Nat \X Nat /\ Ids \subseteq Known
<1>1. script \in Scripts /\ cur \in 0 .. Len(script) /\ (cur = 0 => pc = "idle")
  BY DEF Types
<1>2. Len(script) \in Nat
  BY <1>1, ConnAssumption
<1>3. ASSUME NEW id \in Ids
      PROVE  id \in Nat \X Nat
  BY <1>1, RequestFacts DEF Conns
<1> QED BY <1>1, <1>2, <1>3 DEF Known, Conns

\* Nothing is parsed, and the connections behind the current one are not touched.
LEMMA StreamsKept ==
    ASSUME Types, Streams, script' = script, cur' = cur, parsed' = parsed, adrift' = adrift,
           \A c \in Conns : c > cur => wire'[c] = wire[c],
           (Busy \/ pc = "discard")' => (Busy \/ pc = "discard") /\ got' = got
    PROVE  Streams'
<1>1. Conns' = Conns /\ Ids' = Ids /\ \A c : Stream(c)' = Stream(c)
  BY SameScript
<1> DEFINE Serving == Busy \/ pc = "discard"
<1>2. \A c \in Conns :
        /\ c > cur => wire[c] = Stream(c) /\ parsed[c] = <<>>
        /\ \A i \in 1 .. Len(parsed[c]) : parsed[c][i][1] \in {0, c} /\ (c \notin adrift => parsed[c][i] = <<c, i>>)
        /\ c = cur /\ c \notin adrift /\ Serving => got = <<c, Len(parsed[c])>> /\ got \in Ids
  BY DEF Streams
<1>3. Serving' => Serving /\ got' = got
  OBVIOUS
<1> HIDE DEF Serving
<1> SUFFICES ASSUME NEW c \in Conns
             PROVE  /\ c > cur' => wire'[c] = Stream(c)' /\ parsed'[c] = <<>>
                    /\ \A i \in 1 .. Len(parsed'[c]) :
                          parsed'[c][i][1] \in {0, c} /\ (c \notin adrift' => parsed'[c][i] = <<c, i>>)
                    /\ c = cur' /\ c \notin adrift' /\ Serving' => got' = <<c, Len(parsed'[c])>> /\ got' \in Ids'
  BY <1>1 DEF Streams, Serving
<1> QED BY <1>1, <1>2, <1>3

\* Nothing is answered.
LEMMA AnswersKept ==
    ASSUME Answers, script' = script, cur' = cur, parsed' = parsed,
           replies' = replies, logged' = logged, Busy' = Busy, Busy => got' = got
    PROVE  Answers'
<1>1. Conns' = Conns
  BY SameScript
<1>2. \A c : Replied(c)' = Replied(c)
  BY DEF Replied
<1>3. ASSUME NEW c \in Conns
      PROVE  /\ parsed'[c] = IF c = cur' /\ Busy' THEN Append(Replied(c)', got') ELSE Replied(c)'
             /\ logged'[c] = Without(Replied(c)', <<0, 0>>)
  BY <1>2, <1>3 DEF Answers
<1> QED BY <1>1, <1>3 DEF Answers

LEMMA FirstsAppend ==
    ASSUME NEW s \in Seq((Nat \X Nat) \X Int), NEW id \in Nat \X Nat, NEW status \in Int
    PROVE  Firsts(s) \in Seq(Nat \X Nat) /\ Firsts(Append(s, <<id, status>>)) = Append(Firsts(s), id)
<1>1. Firsts(s) \in Seq(Nat \X Nat) /\ Len(Firsts(s)) = Len(s) /\ Len(s) \in Nat
      /\ \A i \in 1 .. Len(s) : Firsts(s)[i] = s[i][1]
  BY DEF Firsts
<1> DEFINE t == Append(s, <<id, status>>)
           u == Append(Firsts(s), id)
<1>2. t \in Seq((Nat \X Nat) \X Int) /\ Len(t) = Len(s) + 1 /\ t[Len(s) + 1] = <<id, status>>
      /\ \A i \in 1 .. Len(s) : t[i] = s[i]
  OBVIOUS
<1>3. u \in Seq(Nat \X Nat) /\ Len(u) = Len(s) + 1 /\ u[Len(s) + 1] = id
      /\ \A i \in 1 .. Len(s) : u[i] = s[i][1]
  <2>1. PICK v, l : v = Firsts(s) /\ l = Len(s)
    OBVIOUS
  <2>2. v \in Seq(Nat \X Nat) /\ Len(v) = l /\ l \in Nat /\ \A i \in 1 .. l : v[i] = s[i][1]
    BY <1>1, <2>1
  <2>3. /\ Append(v, id) \in Seq(Nat \X Nat) /\ Len(Append(v, id)) = l + 1 /\ Append(v, id)[l + 1] = id
        /\ \A i \in 1 .. l : Append(v, id)[i] = v[i]
    BY <2>2
  <2>4. \A i \in 1 .. l : Append(v, id)[i] = s[i][1]
    BY <2>2, <2>3
  <2> QED BY <2>1, <2>3, <2>4
<1> HIDE DEF t, u
<1>4. Firsts(t) \in Seq(Nat \X Nat) /\ Len(Firsts(t)) = Len(t) /\ \A i \in 1 .. Len(t) : Firsts(t)[i] = t[i][1]
  BY <1>2 DEF Firsts
<1>5. ASSUME NEW i \in 1 .. Len(s) + 1
      PROVE  Firsts(t)[i] = u[i]
  <2> DEFINE n == Len(s)
  <2>1. n \in Nat /\ i \in 1 .. n + 1
    BY <1>1
  <2> HIDE DEF n
  <2>2. i \in 1 .. n \/ i = n + 1
    BY <2>1
  <2>3. Firsts(t)[i] = t[i][1]
    BY <1>2, <1>4, <2>1 DEF n
  <2>4. CASE i \in 1 .. n
    BY <1>2, <1>3, <2>3, <2>4 DEF n
  <2>5. CASE i = n + 1
    <3>1. t[i] = <<id, status>> /\ u[i] = id
      BY <1>2, <1>3, <2>5 DEF n
    <3> QED BY <2>3, <3>1
  <2> QED BY <2>2, <2>4, <2>5
<1>6. \A i \in 1 .. Len(Firsts(t)) : Firsts(t)[i] = u[i]
  BY <1>2, <1>4, <1>5
<1>7. Firsts(t) = u
  <2> DEFINE f == Firsts(t)
  <2>1. f \in Seq(Nat \X Nat) /\ Len(f) = Len(u) /\ \A i \in 1 .. Len(f) : f[i] = u[i]
    BY <1>2, <1>3, <1>4, <1>6
  <2> HIDE DEF f
  <2>2. f = u
    BY <1>3, <2>1, SeqEqual, Zenon
  <2> QED BY <2>2 DEF f
<1> QED BY <1>1, <1>7 DEF t, u

\* Only the connection that is served gets answers.
LEMMA AnswersAt ==
    ASSUME Answers, script' = script, cur' = cur,
           \A c \in Conns : c # cur => parsed'[c] = parsed[c] /\ replies'[c] = replies[c] /\ logged'[c] = logged[c],
           parsed'[cur] = IF Busy' THEN Append(Replied(cur)', got') ELSE Replied(cur)',
           logged'[cur] = Without(Replied(cur)', <<0, 0>>)
    PROVE  Answers'
<1>1. Conns' = Conns
  BY SameScript
<1>2. ASSUME NEW c \in Conns
      PROVE  /\ parsed'[c] = IF c = cur' /\ Busy' THEN Append(Replied(c)', got') ELSE Replied(c)'
             /\ logged'[c] = Without(Replied(c)', <<0, 0>>)
  <2>1. CASE c = cur
    <3>1. Replied(c)' = Replied(cur)'
      BY <2>1
    <3> QED BY <2>1, <3>1
  <2>2. CASE c # cur
    <3>1. parsed[c] = Replied(c) /\ logged[c] = Without(Replied(c), <<0, 0>>)
      BY <2>2 DEF Answers
    <3>2. Replied(c)' = Replied(c)
      BY <2>2 DEF Replied
    <3> QED BY <2>2, <3>1, <3>2
  <2> QED BY <2>1, <2>2
<1> QED BY <1>1, <1>2 DEF Answers

LEMMA ReplyFacts ==
    ASSUME Types, cur \in Conns, script' = script, cur' = cur,
           NEW id \in Nat \X Nat, NEW status \in Int,
           replies' = [replies EXCEPT ![cur] = Append(@, <<id, status>>)]
    PROVE  /\ replies' \in [Conns' -> Seq((Nat \X Nat) \X Int)]
           /\ \A c \in Conns : c # cur => replies'[c] = replies[c]
           /\ Replied(cur) \in Seq(Nat \X Nat)
           /\ Replied(cur)' = IF id = <<cur, 0>> THEN Replied(cur) ELSE Append(Replied(cur), id)
<1> DEFINE s == replies[cur]
<1>1. replies \in [Conns -> Seq((Nat \X Nat) \X Int)]
  BY DEF Types
<1>2. s \in Seq((Nat \X Nat) \X Int) /\ replies'[cur] = Append(s, <<id, status>>)
  BY <1>1
<1>3. Append(s, <<id, status>>) \in Seq((Nat \X Nat) \X Int)
  BY <1>2
<1>4. Conns' = Conns
  BY SameScript
<1>5. /\ replies' \in [Conns' -> Seq((Nat \X Nat) \X Int)]
      /\ \A c \in Conns : c # cur => replies'[c] = replies[c]
  BY <1>1, <1>3, <1>4
<1> HIDE DEF s
<1>6. Firsts(s) \in Seq(Nat \X Nat) /\ Firsts(Append(s, <<id, status>>)) = Append(Firsts(s), id)
  BY <1>2, FirstsAppend
<1>7. Replied(cur) = Without(Firsts(s), <<cur, 0>>)
  BY DEF Replied, s
<1>8. Replied(cur)' = Without(Append(Firsts(s), id), <<cur, 0>>)
  BY <1>2, <1>6 DEF Replied
<1> DEFINE f == Firsts(s)
           e == <<cur, 0>>
<1>9. Without(f, e) \in Seq(Nat \X Nat)
      /\ Without(Append(f, id), e) = IF id = e THEN Without(f, e) ELSE Append(Without(f, e), id)
  <2> DEFINE A == Nat \X Nat
  <2>1. f \in Seq(A) /\ id \in A
    BY <1>6
  <2> HIDE DEF f, e, A
  <2>2. /\ Without(f, e) \in Seq(A)
        /\ Without(Append(f, id), e) = IF id = e THEN Without(f, e) ELSE Append(Without(f, e), id)
    BY <2>1, WithoutAppend
  <2> QED BY <2>2 DEF A
<1> QED BY <1>5, <1>7, <1>8, <1>9

LEMMA LogFacts ==
    ASSUME Types, cur \in Conns, script' = script, NEW id \in Known, log_access(id)
    PROVE  /\ logged' \in [Conns' -> Seq(Known')] /\ logged'[cur] = Append(logged[cur], id)
           /\ \A c \in Conns : c # cur => logged'[c] = logged[c]
<1>1. Conns' = Conns /\ Known' = Known
  BY SameScript
<1>2. logged \in [Conns -> Seq(Known)]
  BY DEF Types
<1>3. Append(logged[cur], id) \in Seq(Known)
  BY <1>2
<1> QED BY <1>1, <1>2, <1>3 DEF log_access

\* A request that is handled gets an answer and a line in the log.
LEMMA AnswersGiven ==
    ASSUME Types, Answers, Busy, ~Busy', got \in Ids, got # <<cur, 0>>,
           script' = script, cur' = cur, parsed' = parsed, NEW status \in Int,
           replies' = [replies EXCEPT ![cur] = Append(@, <<got, status>>)], log_access(got)
    PROVE  Answers'
<1>1. cur \in Conns /\ got \in Nat \X Nat /\ got \in Known
  BY TypesFacts DEF Busy
<1>2. /\ \A c \in Conns : c # cur => replies'[c] = replies[c]
      /\ Replied(cur) \in Seq(Nat \X Nat) /\ Replied(cur)' = Append(Replied(cur), got)
  BY <1>1, ReplyFacts
<1>3. parsed[cur] = Append(Replied(cur), got) /\ logged[cur] = Without(Replied(cur), <<0, 0>>)
  BY <1>1 DEF Answers
<1>4. logged'[cur] = Append(logged[cur], got) /\ \A c \in Conns : c # cur => logged'[c] = logged[c]
  BY <1>1, LogFacts
<1>5. Without(Append(Replied(cur), got), <<0, 0>>) = Append(Without(Replied(cur), <<0, 0>>), got)
  <2>1. got # <<0, 0>>
    BY TypesFacts, ParsedFacts
  <2> DEFINE A == Nat \X Nat
             r == Replied(cur)
             e == <<0, 0>>
  <2>2. r \in Seq(A) /\ got \in A /\ got # e
    BY <1>1, <1>2, <2>1
  <2> HIDE DEF A, r, e
  <2>3. Without(Append(r, got), e) = Append(Without(r, e), got)
    BY <2>2, WithoutAppend
  <2> QED BY <2>3 DEF r, e
<1>6. parsed'[cur] = Replied(cur)' /\ logged'[cur] = Without(Replied(cur)', <<0, 0>>)
  BY <1>2, <1>3, <1>4, <1>5
<1> QED BY <1>2, <1>4, <1>6, AnswersAt

-----------------------------------------------------------------------------
(* The end of handling. *)

\* A file that was put and answered with success holds its body.
Finished ==
    status_code \in {200, 201, 206} /\ Request(got).method = "PUT" /\ ~Request(got).slash
        => Stored(Len(input)) /\ Len(input) = Request(got).body

\* What holds while a request is handled.
Held ==
    /\ Handling /\ Given(Len(input))
    /\ \E q \in Places : Lined(Begin(cur, got[2]), q)

LEMMA HeldFacts ==
    ASSUME Types, Flow, Busy
    PROVE  /\ Held /\ got \in Ids /\ got[1] = cur /\ got # <<cur, 0>> /\ got # <<0, 0>>
           /\ Begin(cur, got[2]) \in Places /\ Len(input) \in Nat /\ Len(Stream(cur)) \in Nat
           /\ Len(buf) \in Nat /\ request_len <= Len(buf)
<1> DEFINE k == Begin(cur, got[2])
           L == Len(Stream(cur))
<1>1. Handling /\ script \in Scripts /\ cur \in Conns /\ Len(input) \in Nat /\ Len(buf) \in Nat
  BY TypesFacts DEF Busy, Flow, HandleOk, PullOk, Types
<1>2. got \in Ids /\ got[1] = cur /\ request_len <= Len(buf)
  BY <1>1 DEF Handling
<1>3. got = <<got[1], got[2]>> /\ got[2] \in 1 .. Len(script[cur]) /\ Len(script[cur]) \in Nat
  BY <1>1, <1>2, RequestFacts
<1>4. L \in Nat /\ k \in 0 .. L
  <2>1. got[2] \in 1 .. Len(script[cur]) + 1
    BY <1>3
  <2> QED BY <1>1, <2>1, Layout
<1>5. got # <<cur, 0>> /\ got # <<0, 0>>
  BY <1>3
<1> HIDE DEF k, L
<1>6. Given(Len(input)) /\ \E q \in 0 .. L : Lined(k, q)
  <2>1. CASE pc \in {"handle", "body"}
    <3>1. Given(0) /\ Lined(k, k + Len(buf))
      BY <2>1 DEF Flow, HandleOk, k
    <3>2. Given(Len(input)) /\ k + Len(buf) <= L
      BY <3>1 DEF Given, Lined, L
    <3> QED BY <1>1, <1>4, <3>1, <3>2
  <2>2. CASE pc = "pull"
    <3>1. /\ Given(consumed_content) /\ content_len >= 0
          /\ Lined(k, k + Len(buf)) \/ Lined(k, k + request_len + consumed_content)
      BY <2>2 DEF Flow, PullOk, k
    <3>2. request_len \in Nat /\ consumed_content \in Nat
      BY <3>1 DEF Types
    <3>3. PICK q \in {k + Len(buf), k + request_len + consumed_content} : Lined(k, q)
      BY <3>1
    <3>4. q \in Nat /\ q <= L
      BY <1>1, <1>4, <3>2, <3>3 DEF Lined, L
    <3>5. Given(Len(input))
      BY <3>1 DEF Given
    <3> QED BY <1>4, <3>3, <3>4, <3>5
  <2> QED BY <2>1, <2>2 DEF Busy
<1> QED BY <1>1, <1>2, <1>4, <1>5, <1>6 DEF Held, k, L, Places

LEMMA LinedSame ==
    ASSUME script' = script, cur' = cur, buf' = buf, wire' = wire,
           content_len' = content_len, request_len' = request_len
    PROVE  /\ Places' = Places /\ \A k, q : Lined(k, q)' <=> Lined(k, q)
<1>1. \A c : Stream(c)' = Stream(c)
  BY SameScript
<1>2. Stream(cur)' = Stream(cur)
  BY <1>1
<1> QED BY <1>2 DEF Lined, Places

LEMMA HandlingSame ==
    ASSUME script' = script, cur' = cur, buf' = buf, got' = got,
           content_len' = content_len, request_len' = request_len
    PROVE  /\ Handling' <=> Handling
           /\ Begin(cur, got[2])' = Begin(cur, got[2]) /\ Request(got)' = Request(got)
<1>1. /\ Ids' = Ids /\ \A id : Request(id)' = Request(id) /\ Announced(id)' = Announced(id)
      /\ \A c, n : Begin(c, n)' = Begin(c, n)
  BY SameScript
<1>2. /\ Request(got)' = Request(got) /\ Announced(got)' = Announced(got)
      /\ Begin(cur, got[2])' = Begin(cur, got[2])
  BY <1>1
<1> QED BY <1>1, <1>2 DEF Handling

LEMMA GivenSame ==
    ASSUME script' = script, got' = got, input' = input
    PROVE  \A n : Given(n)' <=> Given(n)
<1>1. \A id : Request(id)' = Request(id)
  BY SameScript
<1>2. Request(got)' = Request(got)
  BY <1>1
<1> QED BY <1>2 DEF Given

\* The end of handling: the answers are right, and so is what was read of the body.
LEMMA SettledInv ==
    ASSUME ConnInv, Busy, script' = script, config' = config, cur' = cur, buf' = buf, got' = got,
           request_len' = request_len, content_len' = content_len, parsed' = parsed, adrift' = adrift,
           edit' = edit, pc' = "discard", must_close' \in BOOLEAN, status_code' \in Int,
           replies' \in [Conns -> Seq((Nat \X Nat) \X Int)], logged' \in [Conns -> Seq(Known)], Answers',
           Rooted', wire' \in [Conns -> Seq(Units)], \A c \in Conns : c > cur => wire'[c] = wire[c],
           consumed_content' \in 0 .. IF content_len < 0 THEN 0 ELSE content_len,
           input' \in Seq(Units), Given(Len(input))',
           \E q \in Places : Lined(Begin(cur, got[2]), q)', Finished'
    PROVE  ConnInv'
<1>1. Types /\ Flow /\ Streams
  BY DEF ConnInv
<1>2. /\ Held /\ got \in Ids /\ got # <<0, 0>> /\ Begin(cur, got[2]) \in Places
      /\ request_len <= Len(buf) /\ cur # 0
  BY <1>1, HeldFacts, TypesFacts DEF Busy, Conns
<1>3. Conns' = Conns /\ Known' = Known
  BY SameScript
<1>4. Types'
  BY <1>1, <1>2, <1>3 DEF Types
<1>5. Streams'
  <2>1. ~Busy' /\ Busy
    BY DEF Busy
  <2> QED BY <1>1, <2>1, StreamsKept
<1>6. Flow'
  <2>1. Handling' /\ Begin(cur, got[2])' = Begin(cur, got[2])
    BY <1>2, HandlingSame DEF Held
  <2>2. Places' = Places
    <3>1. \A c : Stream(c)' = Stream(c)
      BY SameScript
    <3>2. Stream(cur)' = Stream(cur)
      BY <3>1
    <3> QED BY <3>2 DEF Places
  <2>3. PICK q \in Places : Lined(Begin(cur, got[2]), q)'
    OBVIOUS
  <2>4. \E k, q1 \in Places' : Lined(k, q1)' /\ k = Begin(cur, got[2])'
    BY <1>2, <2>1, <2>2, <2>3
  <2>5. DiscardOk'
    BY <1>2, <2>1, <2>4 DEF DiscardOk, Finished
  <2> QED BY <2>5 DEF Flow
<1> QED BY <1>4, <1>5, <1>6 DEF ConnInv

\* An answer to the request that is handled, whatever was read of its body.
LEMMA AnswerInv ==
    ASSUME ConnInv, Busy, NEW status \in Int, NEW close \in BOOLEAN, NEW paths, Answer(status, close, paths),
           Rooted', wire' \in [Conns -> Seq(Units)], \A c \in Conns : c > cur => wire'[c] = wire[c],
           consumed_content' \in 0 .. IF content_len < 0 THEN 0 ELSE content_len,
           input' \in Seq(Units), Given(Len(input))',
           \E q \in Places : Lined(Begin(cur, got[2]), q)', Finished'
    PROVE  ConnInv'
<1>1. Types /\ Flow /\ Answers
  BY DEF ConnInv
<1>2. /\ script' = script /\ config' = config /\ cur' = cur /\ buf' = buf /\ got' = got
      /\ request_len' = request_len /\ content_len' = content_len
      /\ parsed' = parsed /\ adrift' = adrift /\ edit' = edit /\ pc' = "discard" /\ must_close' = close
      /\ replies' = [replies EXCEPT ![cur] = Append(@, <<got, status>>)] /\ log_access(got)
      /\ status_code' = Noted(status)
  BY DEF Answer, Reply
<1>3. /\ got \in Ids /\ got # <<cur, 0>> /\ cur \in Conns /\ got \in Known
  BY <1>1, HeldFacts, TypesFacts DEF Busy
<1>4. Conns' = Conns /\ Known' = Known
  BY <1>2, SameScript
<1>5. /\ replies' \in [Conns -> Seq((Nat \X Nat) \X Int)] /\ logged' \in [Conns -> Seq(Known)]
  BY <1>1, <1>2, <1>3, <1>4, TypesFacts, ReplyFacts, LogFacts
<1>6. ~Busy'
  BY <1>2 DEF Busy
<1>7. Answers'
  BY <1>1, <1>2, <1>3, <1>6, AnswersGiven
<1>8. status_code' \in Int
  BY <1>1, <1>2 DEF Noted, Types
<1> QED BY <1>2, <1>5, <1>7, <1>8, SettledInv

\* An answer that reads nothing.
LEMMA AnswerAtOnce ==
    ASSUME ConnInv, Busy, NEW status \in Int, NEW close \in BOOLEAN, NEW paths, Answer(status, close, paths),
           Rooted', wire' = wire, consumed_content' = consumed_content, input' = input, Finished'
    PROVE  ConnInv'
<1>1. Types /\ Flow
  BY DEF ConnInv
<1>2. /\ script' = script /\ cur' = cur /\ buf' = buf /\ got' = got
      /\ request_len' = request_len /\ content_len' = content_len
  BY DEF Answer, Reply
<1>3. Held
  BY <1>1, HeldFacts
<1>4. /\ wire' \in [Conns -> Seq(Units)] /\ input' \in Seq(Units)
      /\ consumed_content' \in 0 .. IF content_len < 0 THEN 0 ELSE content_len
  BY <1>1 DEF Types
<1>5. Given(Len(input))'
  <2>1. Len(input)' = Len(input)
    OBVIOUS
  <2> QED BY <1>2, <1>3, <2>1, GivenSame DEF Held
<1>6. \E q \in Places : Lined(Begin(cur, got[2]), q)'
  <2>1. PICK q \in Places : Lined(Begin(cur, got[2]), q)
    BY <1>3 DEF Held
  <2>2. Begin(cur, got[2])' = Begin(cur, got[2])
    BY <1>2, HandlingSame
  <2> DEFINE k == Begin(cur, got[2])
  <2>3. Lined(k, q) /\ k' = k
    BY <2>1, <2>2
  <2>4. Lined(k, q)'
    <3>1. PICK j : j = k
      OBVIOUS
    <3>2. Lined(j, q)
      BY <2>3, <3>1
    <3>3. Lined(j, q)'
      BY <1>2, <3>2, LinedSame
    <3>4. j = k'
      BY <2>3, <3>1
    <3> HIDE DEF k
    <3> QED BY <3>3, <3>4
  <2> QED BY <2>1, <2>4
<1> QED BY <1>4, <1>5, <1>6, AnswerInv

\* An answer before the body is read.
LEMMA PlainInv ==
    ASSUME ConnInv, pc \in {"handle", "body"}, NEW status \in Int, NEW close \in BOOLEAN, NEW paths,
           Answered(status, close, paths),
           pc = "body" => status \notin {0, 301},
           status \in {200, 201, 206} => Request(got).method # "PUT" \/ Request(got).slash
    PROVE  ConnInv'
<1>1. Types /\ Flow /\ Rooted
  BY DEF ConnInv
<1>2. /\ fs' = fs /\ wire' = wire /\ consumed_content' = consumed_content /\ input' = input
      /\ Answer(status, close, paths)
  BY DEF Answered
<1>3. Rooted' /\ Busy
  BY <1>1, <1>2 DEF Rooted, Busy
<1>4. status_code' = Noted(status) /\ script' = script /\ got' = got
  BY <1>2 DEF Answer, Reply
<1>5. Request(got)' = Request(got)
  BY <1>4 DEF Request
<1>6. status \in {0, 301} => status_code = -1
  BY <1>1 DEF Flow
<1>7. status_code' \in {200, 201, 206} => status \in {200, 201, 206}
  BY <1>4, <1>6 DEF Noted
<1>8. Finished'
  BY <1>5, <1>7 DEF Finished
<1> QED BY <1>2, <1>3, <1>8, AnswerAtOnce

LEMMA HandlePlainInv ==
    ASSUME ConnInv, HandlePlain
    PROVE  ConnInv'
<1>1. pc = "handle" /\ must_close \in BOOLEAN
  BY DEF HandlePlain, ConnInv, Types
<1>2. Now \in {"options", "propfind", "list", "ssi", "file"} => Request(got).method # "PUT"
  BY DEF Now, handle_request, is_put_or_delete_request
<1>3. ASSUME NEW status \in {401, 404, 403, 501, 304, 500, 0, 301}, Answered(status, must_close, {})
      PROVE  ConnInv'
  BY <1>1, <1>3, PlainInv
<1>4. ASSUME NEW status \in {200, 207, 0}, NEW yes \in BOOLEAN, NEW paths, Answered(status, yes, paths),
             status = 200 => Now = "list"
      PROVE  ConnInv'
  BY <1>1, <1>2, <1>4, PlainInv
<1> DEFINE yes == TRUE
<1>11. yes \in BOOLEAN
  OBVIOUS
<1>5. CASE Now = "options" /\ send_options
  BY <1>1, <1>2, <1>5, PlainInv DEF send_options
<1>6. CASE Now = "propfind" /\ handle_propfind
  <2>1. PICK paths : Answered(207, yes, paths)
    BY <1>6, Zenon DEF handle_propfind
  <2>2. PICK status \in {200, 207, 0} : status = 207
    OBVIOUS
  <2>3. Answered(status, yes, paths)
    BY <2>1, <2>2, Zenon
  <2>4. status # 200
    BY <2>2
  <2> HIDE DEF yes
  <2> QED BY <1>4, <1>11, <2>3, <2>4
<1>7. CASE Now = "list" /\ handle_directory_request
  <2>1. PICK paths : Answered(200, yes, paths)
    BY <1>7, Zenon DEF handle_directory_request
  <2>2. PICK status \in {200, 207, 0} : status = 200
    OBVIOUS
  <2>3. Answered(status, yes, paths)
    BY <2>1, <2>2
  <2> HIDE DEF yes
  <2> QED BY <1>4, <1>7, <1>11, <2>3
<1>8. CASE Now = "ssi" /\ handle_ssi_file_request
  <2>1. Answered(500, must_close, {}) \/ \E paths : Answered(0, yes, paths)
    BY <1>8, Zenon DEF handle_ssi_file_request, send_http_error
  <2>2. CASE Answered(500, must_close, {})
    <3>1. PICK status \in {401, 404, 403, 501, 304, 500, 0, 301} : status = 500
      OBVIOUS
    <3> QED BY <1>3, <2>2, <3>1
  <2>3. CASE \E paths : Answered(0, yes, paths)
    <3>1. PICK paths : Answered(0, yes, paths)
      BY <2>3
    <3>2. PICK status \in {200, 207, 0} : status = 0
      OBVIOUS
    <3>3. Answered(status, yes, paths)
      BY <3>1, <3>2, Zenon
    <3>4. status # 200
      BY <3>2
    <3> HIDE DEF yes
    <3> QED BY <1>4, <1>11, <3>3, <3>4
  <2> QED BY <2>1, <2>2, <2>3
<1>9. CASE Now = "file" /\ handle_file_request
  <2>1. PICK paths : send_http_error(500) \/ Answered(200, must_close, paths)
    BY <1>9 DEF handle_file_request
  <2>2. CASE Answered(200, must_close, paths)
    BY <1>1, <1>2, <1>9, <2>2, PlainInv
  <2> QED BY <1>3, <2>1, <2>2 DEF send_http_error
<1>10. \/ Answered(401, must_close, {}) \/ Answered(404, must_close, {}) \/ Answered(403, must_close, {})
       \/ Answered(501, must_close, {}) \/ Answered(304, must_close, {}) \/ Answered(0, must_close, {})
       \/ Answered(301, must_close, {})
       \/ Now = "options" /\ send_options
       \/ Now = "propfind" /\ handle_propfind
       \/ Now = "list" /\ handle_directory_request
       \/ Now = "ssi" /\ handle_ssi_file_request
       \/ Now = "file" /\ handle_file_request
  BY DEF HandlePlain, send_authorization_request, send_http_error
<1> QED BY <1>3, <1>5, <1>6, <1>7, <1>8, <1>9, <1>10

-----------------------------------------------------------------------------
(* Reading a body. *)

LEMMA TakeDrop ==
    ASSUME NEW s \in Seq(Units), NEW n \in Nat
    PROVE  /\ Take(s, n) \in Seq(Units) /\ Len(Take(s, n)) = IF Len(s) < n THEN Len(s) ELSE n
           /\ \A i \in 1 .. Len(Take(s, n)) : Take(s, n)[i] = s[i]
           /\ Drop(s, n) \in Seq(Units) /\ Len(Drop(s, n)) = IF Len(s) < n THEN 0 ELSE Len(s) - n
           /\ \A i \in 1 .. Len(Drop(s, n)) : Drop(s, n)[i] = s[n + i]
<1> DEFINE m == IF Len(s) < n THEN Len(s) ELSE n
<1>1. m \in Nat /\ m <= Len(s) /\ Len(s) \in Nat
  OBVIOUS
<1>2. Take(s, n) = SubSeq(s, 1, m) /\ Drop(s, n) = SubSeq(s, n + 1, Len(s))
  BY DEF Take, Drop
<1>3. SubSeq(s, 1, m) \in Seq(Units) /\ Len(SubSeq(s, 1, m)) = m /\ \A i \in 1 .. m : SubSeq(s, 1, m)[i] = s[i]
  <2> HIDE DEF m
  <2> QED BY <1>1
<1>4. /\ SubSeq(s, n + 1, Len(s)) \in Seq(Units)
      /\ Len(SubSeq(s, n + 1, Len(s))) = IF Len(s) < n THEN 0 ELSE Len(s) - n
      /\ \A i \in 1 .. Len(SubSeq(s, n + 1, Len(s))) : SubSeq(s, n + 1, Len(s))[i] = s[n + i]
  BY <1>1
<1> QED BY <1>2, <1>3, <1>4

\* What comes behind the head, as far as the announced length goes, is the body.
LEMMA BodyUnits ==
    ASSUME Types, Handling, content_len >= 0, pc # "idle",
           NEW i \in 1 .. content_len, Begin(cur, got[2]) + request_len + i <= Len(Stream(cur))
    PROVE  /\ Stream(cur)[Begin(cur, got[2]) + request_len + i] = <<got[1], got[2], i>>
           /\ content_len = Request(got).body
<1> DEFINE h == Request(got).head
           b == Request(got).body
           lost == Request(got).lost
           z == Size(got)
           k == Begin(cur, got[2])
           L == Len(Stream(cur))
           n == got[2]
<1>1. /\ script \in Scripts /\ cur \in Conns /\ got \in Ids /\ got[1] = cur
      /\ request_len = h /\ content_len = Announced(got) /\ content_len \in Nat
  BY TypesFacts DEF Types, Handling
<1>2. /\ got = <<cur, n>> /\ n \in 1 .. Len(script[cur]) /\ Len(script[cur]) \in Nat
      /\ h \in Nat /\ b \in Nat /\ lost \in Nat /\ z \in Nat /\ z = h + b - lost
      /\ lost > 0 => n = Len(script[cur])
      /\ b > 0 => Request(got).length \/ Request(got).method \in {"POST", "PUT"}
  BY <1>1, RequestFacts DEF Size
<1>3. content_len = b
  BY <1>1, <1>2 DEF Announced
<1>4. /\ L \in Nat /\ k \in 0 .. L /\ Begin(cur, n + 1) = k + z /\ (n = Len(script[cur]) => k + z = L)
      /\ \A j \in 1 .. z : Stream(cur)[k + j] = Unit(got, j)
  <2>1. n \in 1 .. Len(script[cur]) + 1
    BY <1>2
  <2>2. /\ Begin(cur, n + 1) = k + Size(<<cur, n>>)
        /\ \A j \in 1 .. Size(<<cur, n>>) : Stream(cur)[k + j] = Unit(<<cur, n>>, j)
    BY <1>1, <1>2, Layout
  <2>3. n = Len(script[cur]) => Begin(cur, n + 1) = L
    BY <1>1, Layout
  <2> QED BY <1>1, <1>2, <2>1, <2>2, <2>3, Layout
<1>5. i \in Nat /\ i >= 1 /\ i <= b /\ k + h + i <= L
  BY <1>1, <1>3
<1> HIDE DEF h, b, lost, z, k, L
<1>6. h + i \in 1 .. z
  BY <1>2, <1>4, <1>5
<1>7. Stream(cur)[k + h + i] = Unit(got, h + i)
  <2>1. k + (h + i) = k + h + i
    BY <1>2, <1>4, <1>5
  <2> QED BY <1>4, <1>6, <2>1
<1>8. Unit(got, h + i) = <<got[1], got[2], i>>
  <2> DEFINE j == h + i
  <2>1. ~(j < h) /\ j # h /\ j - h = i
    BY <1>2, <1>5
  <2> HIDE DEF j
  <2>2. Unit(got, j) = <<got[1], got[2], IF j < h THEN 0 ELSE IF j = h THEN -1 ELSE j - h>>
    BY Zenon DEF Unit, h
  <2> QED BY <2>1, <2>2 DEF j
<1> QED BY <1>1, <1>3, <1>7, <1>8 DEF h, b, k

\* n more units are taken from the socket, past the buffer.
LEMMA PullWire ==
    ASSUME Types, pc # "idle", NEW k \in Nat, NEW q \in Nat, Lined(k, q), NEW n \in 0 .. Len(wire[cur]),
           n > 0 => content_len >= 0 /\ q + n <= k + request_len + content_len,
           script' = script, cur' = cur, buf' = buf, content_len' = content_len, request_len' = request_len,
           wire' = [wire EXCEPT ![cur] = Drop(@, n)]
    PROVE  /\ wire' \in [Conns -> Seq(Units)] /\ \A c \in Conns : c > cur => wire'[c] = wire[c]
           /\ Lined(k, q + n)' /\ q + n \in Places
<1> DEFINE w == wire[cur]
           S == Stream(cur)
<1>1. cur \in Conns /\ cur \in Nat /\ script \in Scripts
  BY TypesFacts
<1>2. wire \in [Conns -> Seq(Units)] /\ w \in Seq(Units) /\ Len(w) \in Nat /\ Len(buf) \in Nat /\ Len(S) \in Nat
  BY <1>1, Layout DEF Types
<1>3. Drop(w, n) \in Seq(Units) /\ Len(Drop(w, n)) = Len(w) - n
      /\ \A i \in 1 .. Len(Drop(w, n)) : Drop(w, n)[i] = w[n + i]
  <2>1. w \in Seq(Units) /\ n \in Nat /\ ~(Len(w) < n)
    BY <1>2
  <2> HIDE DEF w
  <2> QED BY <2>1, TakeDrop
<1>4. wire' = [wire EXCEPT ![cur] = Drop(w, n)]
  OBVIOUS
<1>5. wire'[cur] = Drop(w, n) /\ wire' \in [Conns -> Seq(Units)] /\ \A c \in Conns : c > cur => wire'[c] = wire[c]
  <2> HIDE DEF w
  <2> QED BY <1>1, <1>2, <1>3, <1>4 DEF Conns
<1>6. /\ q <= Len(S) /\ k + Len(buf) <= q
      /\ \A i \in 1 .. Len(buf) : buf[i] = S[k + i]
      /\ Len(w) = Len(S) - q
      /\ \A i \in 1 .. Len(w) : w[i] = S[q + i]
      /\ k + Len(buf) < q => content_len >= 0 /\ q <= k + request_len + content_len
  BY DEF Lined
<1>7. Stream(cur)' = S
  <2>1. \A c : Stream(c)' = Stream(c)
    BY SameScript
  <2> QED BY <2>1
<1> HIDE DEF w, S
<1>8. \A i \in 1 .. Len(Drop(w, n)) : Drop(w, n)[i] = S[q + n + i]
  <2> TAKE i \in 1 .. Len(Drop(w, n))
  <2>1. n + i \in 1 .. Len(w) /\ q + (n + i) = q + n + i
    BY <1>2, <1>3
  <2> QED BY <1>3, <1>6, <2>1
<1>9. /\ q + n <= Len(S) /\ k + Len(buf) <= q + n
      /\ Len(Drop(w, n)) = Len(S) - (q + n)
      /\ k + Len(buf) < q + n => content_len >= 0 /\ q + n <= k + request_len + content_len
  <2>1. CASE n = 0
    BY <1>2, <1>3, <1>6, <2>1
  <2>2. CASE n > 0
    BY <1>2, <1>3, <1>6, <2>2
  <2> QED BY <2>1, <2>2
<1>10. Lined(k, q + n)'
  <2>1. Lined(k, q + n)' <=>
          /\ q + n <= Len(Stream(cur)') /\ k + Len(buf') <= q + n
          /\ \A i \in 1 .. Len(buf') : buf'[i] = Stream(cur)'[k + i]
          /\ Len(wire'[cur']) = Len(Stream(cur)') - (q + n)
          /\ \A i \in 1 .. Len(wire'[cur']) : wire'[cur'][i] = Stream(cur)'[q + n + i]
          /\ k + Len(buf') < q + n => content_len' >= 0 /\ q + n <= k + request_len' + content_len'
    BY DEF Lined
  <2>2. wire'[cur'] = Drop(w, n) /\ Stream(cur)' = S /\ buf' = buf /\ content_len' = content_len
        /\ request_len' = request_len
    BY <1>5, <1>7
  <2> QED BY <1>6, <1>8, <1>9, <2>1, <2>2
<1> QED BY <1>5, <1>9, <1>10, <1>2 DEF Places, S

\* What the buffer holds of the body.
LEMMA BufferedFacts ==
    ASSUME Types, request_len <= Len(buf), content_len >= 0
    PROVE  /\ Buffered \in Seq(Units) /\ Len(Buffered) <= content_len /\ Len(Buffered) <= Len(buf) - request_len
           /\ Len(Buffered) < content_len => Len(Buffered) = Len(buf) - request_len
           /\ \A i \in 1 .. Len(Buffered) : Buffered[i] = buf[request_len + i]
<1> DEFINE B == Buffered
           d == Drop(buf, request_len)
<1>1. /\ buf \in Seq(Units) /\ request_len \in Nat /\ content_len \in Nat /\ Len(buf) \in Nat
      /\ request_len <= Len(buf)
  BY DEF Types
<1>2. d \in Seq(Units) /\ Len(d) = Len(buf) - request_len /\ \A i \in 1 .. Len(d) : d[i] = buf[request_len + i]
  BY <1>1, TakeDrop
<1>3. B = Take(d, content_len)
  BY DEF Buffered
<1> HIDE DEF d, B
<1>4. /\ B \in Seq(Units) /\ Len(B) = IF Len(d) < content_len THEN Len(d) ELSE content_len
      /\ \A i \in 1 .. Len(B) : B[i] = d[i]
  BY <1>1, <1>2, <1>3, TakeDrop
<1>5. /\ B \in Seq(Units) /\ Len(B) <= content_len /\ Len(B) <= Len(buf) - request_len
      /\ Len(B) < content_len => Len(B) = Len(buf) - request_len
      /\ \A i \in 1 .. Len(B) : B[i] = buf[request_len + i]
  BY <1>1, <1>2, <1>4
<1> QED BY <1>5 DEF B

LEMMA MgReadInv ==
    ASSUME ConnInv, mg_read
    PROVE  ConnInv'
<1> DEFINE k == Begin(cur, got[2])
           B == Buffered
           L == Len(Stream(cur))
<1>1. Types /\ Flow /\ Rooted /\ pc = "handle"
  BY DEF ConnInv, mg_read
<1>2. PICK n \in 1 .. content_len :
        LET here == Take(B, n)
            more == Take(wire[cur], n - Len(here))
        IN  /\ input' = here \o more
            /\ wire' = [wire EXCEPT ![cur] = Drop(@, Len(more))]
            /\ consumed_content' = Len(here) + Len(more)
  BY DEF mg_read
<1> DEFINE here == Take(B, n)
           rest == n - Len(here)
           more == Take(wire[cur], rest)
<1>3. /\ input' = here \o more /\ wire' = [wire EXCEPT ![cur] = Drop(@, Len(more))]
      /\ consumed_content' = Len(here) + Len(more)
      /\ Answer(0, must_close, {}) /\ fs' = fs
  BY <1>2 DEF mg_read
<1>4. /\ script' = script /\ cur' = cur /\ buf' = buf /\ got' = got
      /\ request_len' = request_len /\ content_len' = content_len /\ status_code' = Noted(0)
  BY <1>3 DEF Answer, Reply
<1>5. /\ Handling /\ Lined(k, k + Len(buf)) /\ status_code = -1
  BY <1>1 DEF Flow, HandleOk
<1>6. /\ got \in Ids /\ k \in 0 .. L /\ L \in Nat /\ Len(buf) \in Nat /\ request_len \in Nat
      /\ request_len <= Len(buf) /\ cur \in Conns /\ script \in Scripts
  <2>1. Busy
    BY <1>1 DEF Busy
  <2>2. got \in Ids /\ k \in 0 .. L /\ L \in Nat /\ Len(buf) \in Nat /\ request_len <= Len(buf)
    BY <1>1, <2>1, HeldFacts DEF Places
  <2>3. cur \in Conns /\ script \in Scripts
    BY <1>1, TypesFacts
  <2>4. request_len \in Nat
    BY <1>1 DEF Types
  <2> QED BY <2>2, <2>3, <2>4
<1>7. content_len \in Nat /\ n \in Nat /\ n >= 1 /\ n <= content_len
  BY <1>1 DEF Types
<1>8. /\ buf \in Seq(Units) /\ wire[cur] \in Seq(Units) /\ wire \in [Conns -> Seq(Units)]
  BY <1>1, <1>6 DEF Types
<1>9. /\ B \in Seq(Units) /\ Len(B) <= content_len /\ Len(B) <= Len(buf) - request_len
      /\ Len(B) < content_len => Len(B) = Len(buf) - request_len
      /\ \A i \in 1 .. Len(B) : B[i] = buf[request_len + i]
  BY <1>1, <1>6, <1>7, BufferedFacts
<1> HIDE DEF B
<1>10. /\ here \in Seq(Units) /\ Len(here) <= n /\ Len(here) <= Len(B)
       /\ Len(here) < n => Len(here) = Len(buf) - request_len
       /\ \A i \in 1 .. Len(here) : here[i] = B[i]
  <2>1. /\ here \in Seq(Units) /\ Len(here) = IF Len(B) < n THEN Len(B) ELSE n
        /\ \A i \in 1 .. Len(here) : here[i] = B[i]
    BY <1>7, <1>9, TakeDrop
  <2> HIDE DEF here
  <2> QED BY <1>7, <1>9, <2>1
<1> HIDE DEF here
<1>11. Len(here) \in Nat /\ rest \in Nat
  BY <1>7, <1>10
<1> HIDE DEF rest
<1>12. /\ more \in Seq(Units) /\ Len(more) <= rest /\ Len(more) <= Len(wire[cur]) /\ Len(wire[cur]) \in Nat
       /\ \A i \in 1 .. Len(more) : more[i] = wire[cur][i]
  <2>1. /\ more \in Seq(Units) /\ Len(more) = IF Len(wire[cur]) < rest THEN Len(wire[cur]) ELSE rest
        /\ \A i \in 1 .. Len(more) : more[i] = wire[cur][i]
    BY <1>8, <1>11, TakeDrop
  <2> HIDE DEF more
  <2> QED BY <1>8, <1>11, <2>1
<1> HIDE DEF more
<1>24. PICK m : m = Len(more)
  OBVIOUS
<1>13. m \in Nat /\ Len(here) + m <= n /\ (m > 0 => Len(here) = Len(buf) - request_len)
  BY <1>7, <1>10, <1>11, <1>12, <1>24 DEF rest
<1>14. /\ \A i \in 1 .. Len(buf) : buf[i] = Stream(cur)[k + i]
       /\ \A i \in 1 .. Len(wire[cur]) : wire[cur][i] = Stream(cur)[k + Len(buf) + i]
       /\ Len(wire[cur]) = L - (k + Len(buf)) /\ k + Len(buf) <= L
  BY <1>5 DEF Lined
<1> HIDE DEF L, k
<1>15. ASSUME NEW i \in 1 .. content_len, k + request_len + i <= L
       PROVE  Stream(cur)[k + request_len + i] = <<got[1], got[2], i>> /\ content_len = Request(got).body
  BY <1>1, <1>5, <1>7, <1>15, BodyUnits DEF k, L
<1>16. ASSUME NEW i \in 1 .. Len(here) + m
       PROVE  (here \o more)[i] = <<got[1], got[2], i>> /\ content_len = Request(got).body
  <2>1. i \in 1 .. content_len /\ i \in Nat
    BY <1>7, <1>11, <1>13
  <2>2. CASE i <= Len(here)
    <3>1. i \in 1 .. Len(here) /\ i \in 1 .. Len(B) /\ request_len + i \in 1 .. Len(buf)
      BY <1>6, <1>9, <1>10, <1>11, <2>2
    <3>2. (here \o more)[i] = here[i]
      BY <1>10, <1>12, <1>24, <3>1
    <3>3. here[i] = Stream(cur)[k + (request_len + i)]
      BY <1>9, <1>10, <1>14, <3>1
    <3>4. k + (request_len + i) = k + request_len + i /\ k + request_len + i <= L
      BY <1>6, <1>14, <2>1, <3>1
    <3> QED BY <1>15, <2>1, <3>2, <3>3, <3>4
  <2>3. CASE i > Len(here)
    <3>1. i - Len(here) \in 1 .. m /\ m > 0
      BY <1>11, <1>13, <2>1, <2>3
    <3>2. (here \o more)[i] = more[i - Len(here)]
      BY <1>10, <1>11, <1>12, <1>24, <3>1
    <3>3. i - Len(here) \in 1 .. Len(wire[cur])
      BY <1>12, <1>24, <1>13, <3>1
    <3>4. more[i - Len(here)] = Stream(cur)[k + Len(buf) + (i - Len(here))]
      BY <1>12, <1>24, <1>14, <3>1, <3>3
    <3>5. k + Len(buf) + (i - Len(here)) = k + request_len + i /\ k + request_len + i <= L
      <4>1. Len(here) = Len(buf) - request_len
        BY <1>13, <3>1
      <4>2. k \in Nat
        BY <1>6
      <4> QED BY <1>6, <1>11, <1>14, <2>1, <3>3, <4>1, <4>2
    <3> QED BY <1>15, <2>1, <3>2, <3>4, <3>5
  <2>4. i <= Len(here) \/ i > Len(here)
    BY <1>11, <2>1
  <2> QED BY <2>2, <2>3, <2>4
<1>17. input' \in Seq(Units) /\ Len(input') = Len(here) + m
  BY <1>3, <1>10, <1>12, <1>24
<1>18. Given(Len(input))'
  <2>1. Request(got)' = Request(got)
    BY <1>4 DEF Request
  <2>2. Len(here) + m <= Request(got).body
    <3>1. CASE Len(here) + m = 0
      BY <1>6, <3>1, RequestFacts
    <3>2. CASE Len(here) + m # 0
      <4>1. 1 \in 1 .. Len(here) + m
        BY <1>11, <1>13, <3>2
      <4> QED BY <1>7, <1>11, <1>13, <1>16, <4>1
    <3> QED BY <3>1, <3>2
  <2>3. \A i \in 1 .. Len(input') : input'[i] = <<got[1], got[2], i>>
    BY <1>3, <1>16, <1>17
  <2> QED BY <1>4, <1>17, <2>1, <2>2, <2>3 DEF Given
<1>19. /\ wire' \in [Conns -> Seq(Units)] /\ \A c \in Conns : c > cur => wire'[c] = wire[c]
       /\ \E q \in Places : Lined(k, q)'
  <2>0. PICK j, q : j = k /\ q = k + Len(buf)
    OBVIOUS
  <2>1. j \in Nat /\ q \in Nat /\ m \in 0 .. Len(wire[cur]) /\ Lined(j, q)
    BY <1>5, <1>6, <1>12, <1>13, <1>24, <2>0
  <2>2. m > 0 => content_len >= 0 /\ q + m <= j + request_len + content_len
    BY <1>6, <1>7, <1>11, <1>13, <2>0
  <2>3. wire' = [wire EXCEPT ![cur] = Drop(@, m)]
    BY <1>3, <1>24
  <2>4. /\ wire' \in [Conns -> Seq(Units)] /\ \A c \in Conns : c > cur => wire'[c] = wire[c]
        /\ Lined(j, q + m)' /\ q + m \in Places
    BY <1>1, <1>4, <2>1, <2>2, <2>3, PullWire
  <2>5. k' = j
    BY <1>4, <2>0, HandlingSame DEF k
  <2>6. Lined(k, q + m)'
    BY <2>4, <2>5
  <2> QED BY <2>4, <2>6
<1>20. \E q \in Places : Lined(Begin(cur, got[2]), q)'
  BY <1>19 DEF k
<1>21. Finished'
  BY <1>4, <1>5 DEF Finished, Noted
<1>22. Rooted'
  BY <1>1, <1>3 DEF Rooted
<1>23. consumed_content' \in 0 .. IF content_len < 0 THEN 0 ELSE content_len
  BY <1>3, <1>7, <1>11, <1>13, <1>24
<1>25. Busy /\ must_close \in BOOLEAN
  BY <1>1 DEF Busy, Types
<1> QED BY <1>3, <1>17, <1>18, <1>19, <1>20, <1>21, <1>22, <1>23, <1>25, AnswerInv

-----------------------------------------------------------------------------
(* Scripts, files and what is done to them. *)

\* spawn_process answers twice, once for no request.
LEMMA SpawnInv ==
    ASSUME ConnInv, pc = "handle", spawn_process
    PROVE  ConnInv'
<1> DEFINE A == Nat \X Nat
           s == replies[cur]
           t == Append(s, <<<<cur, 0>>, 500>>)
           u == Append(t, <<got, 500>>)
           r == Replied(cur)
           e == <<cur, 0>>
<1>1. Types /\ Flow /\ Rooted /\ Answers /\ Busy /\ cur \in Conns
  BY TypesFacts DEF ConnInv, Busy
<1>2. /\ Held /\ got \in Ids /\ got # e /\ got # <<0, 0>> /\ cur \in Nat /\ got \in Nat \X Nat /\ got \in Known
  BY <1>1, HeldFacts, TypesFacts
<1>3. /\ script' = script /\ config' = config /\ cur' = cur /\ buf' = buf /\ got' = got
      /\ request_len' = request_len /\ content_len' = content_len /\ parsed' = parsed /\ adrift' = adrift
      /\ edit' = edit /\ pc' = "discard" /\ must_close' = must_close /\ status_code' = 500
      /\ wire' = wire /\ fs' = fs /\ input' = input /\ consumed_content' = consumed_content /\ log_access(got)
  BY DEF spawn_process
<1>4. replies \in [Conns -> Seq(A \X Int)] /\ s \in Seq(A \X Int)
  BY <1>1 DEF Types
<1>5. replies' = [replies EXCEPT ![cur] = u]
  <2>1. replies' = [replies EXCEPT ![cur] = s \o <<<<<<cur, 0>>, 500>>, <<got, 500>>>>]
    BY DEF spawn_process
  <2> DEFINE x == <<<<cur, 0>>, 500>>
             y == <<got, 500>>
  <2>2. x \in A \X Int /\ y \in A \X Int
    BY <1>2
  <2>3. s \o <<x, y>> = Append(Append(s, x), y)
    <3> HIDE DEF s, x, y, A
    <3> QED BY <1>4, <2>2
  <2>4. Append(Append(s, x), y) = u
    OBVIOUS
  <2> HIDE DEF s, x, y, A, t, u
  <2>5. s \o <<x, y>> = u
    BY <2>3, <2>4
  <2>6. replies' = [replies EXCEPT ![cur] = s \o <<x, y>>]
    BY <2>1 DEF x, y
  <2> QED BY <2>5, <2>6
<1>6. t \in Seq(A \X Int) /\ u \in Seq(A \X Int)
  BY <1>2, <1>4
<1>7. /\ Firsts(s) \in Seq(A) /\ Firsts(t) = Append(Firsts(s), e)
      /\ Firsts(t) \in Seq(A) /\ Firsts(u) = Append(Firsts(t), got)
  <2>1. e \in A
    BY <1>2
  <2> HIDE DEF s
  <2>2. Firsts(s) \in Seq(A) /\ Firsts(t) = Append(Firsts(s), e)
    BY <1>4, <2>1, FirstsAppend
  <2> HIDE DEF t
  <2>3. t \in Seq((Nat \X Nat) \X Int) /\ got \in Nat \X Nat /\ 500 \in Int
    BY <1>2, <1>6
  <2>4. Firsts(t) \in Seq(A) /\ Firsts(u) = Append(Firsts(t), got)
    <3>1. PICK status \in Int : status = 500
      BY <2>3
    <3>2. Firsts(t) \in Seq(Nat \X Nat) /\ Firsts(Append(t, <<got, status>>)) = Append(Firsts(t), got)
      BY <2>3, <3>1, FirstsAppend
    <3> QED BY <3>1, <3>2
  <2> QED BY <2>2, <2>4
<1> HIDE DEF A, s, t, u, e
<1>8. r \in Seq(A) /\ Without(Firsts(u), e) = Append(r, got)
  <2>1. r = Without(Firsts(s), e)
    BY DEF Replied, s, e
  <2>2. e \in A /\ got \in A
    BY <1>2 DEF A, e
  <2>3. Without(Firsts(s), e) \in Seq(A) /\ Without(Firsts(t), e) = Without(Firsts(s), e)
    BY <1>7, <2>2, WithoutAppend
  <2>4. Without(Append(Firsts(t), got), e) = Append(Without(Firsts(t), e), got)
    <3> DEFINE f == Firsts(t)
    <3>1. f \in Seq(A) /\ got # e
      BY <1>2, <1>7
    <3> HIDE DEF f
    <3>2. Without(Append(f, got), e) = Append(Without(f, e), got)
      BY <2>2, <3>1, WithoutAppend
    <3> QED BY <3>2 DEF f
  <2> QED BY <1>7, <2>1, <2>3, <2>4
<1>9. Replied(cur)' = Append(r, got)
  <2>1. replies'[cur] = u
    BY <1>1, <1>4, <1>5
  <2>2. Replied(cur)' = Without(Firsts(u), e)
    BY <1>3, <2>1 DEF Replied, e
  <2> QED BY <1>8, <2>2
<1>10. parsed[cur] = Append(r, got) /\ logged[cur] = Without(r, <<0, 0>>)
  BY <1>1 DEF Answers
<1>11. /\ logged' \in [Conns' -> Seq(Known')] /\ logged'[cur] = Append(logged[cur], got)
       /\ \A c \in Conns : c # cur => logged'[c] = logged[c]
  BY <1>1, <1>2, <1>3, LogFacts
<1>12. Without(Append(r, got), <<0, 0>>) = Append(Without(r, <<0, 0>>), got)
  <2> DEFINE z == <<0, 0>>
  <2>1. got \in A /\ got # z
    BY <1>2 DEF A
  <2> HIDE DEF z, r
  <2>2. Without(Append(r, got), z) = Append(Without(r, z), got)
    BY <1>8, <2>1, WithoutAppend
  <2> QED BY <2>2 DEF z
<1>13. Conns' = Conns /\ Known' = Known
  BY <1>3, SameScript
<1>14. Answers'
  <2>1. ~Busy'
    BY <1>3 DEF Busy
  <2>2. \A c \in Conns : c # cur => parsed'[c] = parsed[c] /\ replies'[c] = replies[c] /\ logged'[c] = logged[c]
    BY <1>3, <1>4, <1>5, <1>11
  <2>3. parsed'[cur] = Replied(cur)' /\ logged'[cur] = Without(Replied(cur)', <<0, 0>>)
    BY <1>3, <1>9, <1>10, <1>11, <1>12
  <2> QED BY <1>1, <1>3, <2>1, <2>2, <2>3, AnswersAt
<1>15. replies' \in [Conns -> Seq((Nat \X Nat) \X Int)]
  BY <1>4, <1>5, <1>6 DEF A
<1>16. Given(Len(input))' /\ \E q \in Places : Lined(Begin(cur, got[2]), q)'
  <2>1. PICK q \in Places : Lined(Begin(cur, got[2]), q)
    BY <1>2 DEF Held
  <2>2. PICK k, n : k = Begin(cur, got[2]) /\ n = Len(input)
    OBVIOUS
  <2>3. Lined(k, q) /\ Given(n)
    BY <1>2, <2>1, <2>2 DEF Held
  <2>4. Lined(k, q)' /\ Given(n)'
    BY <1>3, <2>3, LinedSame, GivenSame
  <2>5. Begin(cur, got[2])' = k /\ Len(input)' = n
    BY <1>3, <2>2, HandlingSame
  <2> QED BY <2>4, <2>5
<1>17. Finished' /\ Rooted'
  BY <1>1, <1>3 DEF Finished, Rooted
<1>18. /\ wire' \in [Conns -> Seq(Units)] /\ input' \in Seq(Units) /\ must_close' \in BOOLEAN
       /\ consumed_content' \in 0 .. IF content_len < 0 THEN 0 ELSE content_len
  BY <1>1, <1>3 DEF Types
<1> QED BY <1>1, <1>3, <1>11, <1>13, <1>14, <1>15, <1>16, <1>17, <1>18, SettledInv

LEMMA HandleCgiInv ==
    ASSUME ConnInv, HandleCgi
    PROVE  ConnInv'
<1>1. pc = "handle" /\ Now = "cgi" /\ must_close \in BOOLEAN
  BY DEF HandleCgi, ConnInv, Types
<1>2. Request(got).method # "PUT"
  BY <1>1 DEF Now, handle_request
<1>3. CASE spawn_process
  BY <1>1, <1>3, SpawnInv
<1>4. CASE send_http_error(500)
  BY <1>1, <1>4, PlainInv DEF send_http_error
<1>5. CASE \E code \in {200, 302}, close \in BOOLEAN : Answered(code, close, {})
  BY <1>1, <1>2, <1>5, PlainInv
<1> QED BY <1>3, <1>4, <1>5 DEF HandleCgi, CgiReply

\* What is written or removed elsewhere leaves the document root.
LEMMA RootedWrite ==
    ASSUME Rooted, NEW p, p # <<>>, NEW node
    PROVE  /\ <<>> \in DOMAIN Write(fs, p, node) /\ Write(fs, p, node)[<<>>].dir
           /\ Write(fs, p, node) = [q \in DOMAIN Write(fs, p, node) |-> Write(fs, p, node)[q]]
           /\ <<>> \in DOMAIN mg_remove(fs, p) /\ mg_remove(fs, p)[<<>>].dir
           /\ mg_remove(fs, p) = [q \in DOMAIN mg_remove(fs, p) |-> mg_remove(fs, p)[q]]
           /\ \A q : /\ q # p => (q \in DOMAIN Write(fs, p, node) <=> q \in DOMAIN fs)
                     /\ q # p => (q \in DOMAIN mg_remove(fs, p) <=> q \in DOMAIN fs)
                     /\ q # p /\ q \in DOMAIN fs => Write(fs, p, node)[q] = fs[q] /\ mg_remove(fs, p)[q] = fs[q]
           /\ p \in DOMAIN Write(fs, p, node) /\ Write(fs, p, node)[p] = node
BY DEF Rooted, Write, mg_remove

\* DELETE, and PUT of a directory or of nothing that can be written.
LEMMA ChangeInv ==
    ASSUME ConnInv, pc = "handle", NEW status \in Int, Answer(status, must_close, {}), Rooted',
           Request(got).method # "PUT" \/ Request(got).slash,
           wire' = wire, consumed_content' = consumed_content, input' = input
    PROVE  ConnInv'
<1>1. Busy /\ must_close \in BOOLEAN
  BY DEF Busy, ConnInv, Types
<1>2. script' = script /\ got' = got
  BY DEF Answer
<1>3. Request(got)' = Request(got)
  BY <1>2 DEF Request
<1>4. Finished'
  BY <1>3 DEF Finished
<1> QED BY <1>1, <1>4, AnswerAtOnce

LEMMA HandleDeleteInv ==
    ASSUME ConnInv, HandleDelete
    PROVE  ConnInv'
<1>1. pc = "handle" /\ Now = "delete" /\ Rooted /\ must_close \in BOOLEAN
  BY DEF HandleDelete, ConnInv, Types
<1>2. Request(got).method # "PUT"
  BY <1>1 DEF Now, handle_request
<1>3. CASE send_http_error(500)
  BY <1>1, <1>3, PlainInv DEF send_http_error
<1>4. CASE /\ Removable(fs, At) /\ fs' = mg_remove(fs, At) /\ Answer(200, must_close, {})
           /\ wire' = wire /\ consumed_content' = consumed_content /\ input' = input
  <2>1. At # <<>>
    BY <1>4 DEF Removable
  <2>2. Rooted'
    BY <1>1, <1>4, <2>1, RootedWrite DEF Rooted
  <2> QED BY <1>1, <1>2, <1>4, <2>2, ChangeInv
<1> QED BY <1>3, <1>4 DEF HandleDelete

\* The body is about to be read, into a file or for a script.
LEMMA BodyInv ==
    ASSUME ConnInv, pc = "handle", pc' = "body", status_code' \in Int, Rooted', Destined(0)',
           UNCHANGED <<script, config, wire, cur, buf, request_len, content_len, consumed_content,
                       must_close, got, input, historyVars, edit>>
    PROVE  ConnInv'
<1>1. Types /\ Flow /\ Streams /\ Answers
  BY DEF ConnInv
<1>2. /\ script' = script /\ config' = config /\ wire' = wire /\ cur' = cur /\ buf' = buf
      /\ request_len' = request_len /\ content_len' = content_len /\ consumed_content' = consumed_content
      /\ must_close' = must_close /\ got' = got /\ input' = input /\ edit' = edit
      /\ replies' = replies /\ logged' = logged /\ parsed' = parsed /\ adrift' = adrift
  BY DEF historyVars
<1>3. Conns' = Conns /\ Known' = Known
  BY <1>2, SameScript
<1>4. Types'
  <2>1. cur # 0
    BY <1>1 DEF Types
  <2> QED BY <1>1, <1>2, <1>3, <2>1 DEF Types
<1>5. Busy /\ Busy'
  BY DEF Busy
<1>6. Streams' /\ Answers'
  BY <1>1, <1>2, <1>5, StreamsKept, AnswersKept
<1>7. HandleOk'
  <2>1. HandleOk
    BY <1>1 DEF Flow
  <2>2. PICK k, q : k = Begin(cur, got[2]) /\ q = Begin(cur, got[2]) + Len(buf)
    OBVIOUS
  <2>3. Lined(k, q)' /\ Given(0)' /\ Handling'
    BY <1>2, <2>1, <2>2, LinedSame, GivenSame, HandlingSame DEF HandleOk
  <2>4. Begin(cur, got[2])' = k /\ (Begin(cur, got[2]) + Len(buf))' = q
    BY <1>2, <2>2, HandlingSame
  <2>5. Lined(Begin(cur, got[2]), Begin(cur, got[2]) + Len(buf))'
    BY <2>3, <2>4
  <2> QED BY <1>2, <2>1, <2>3, <2>5 DEF HandleOk
<1>8. Flow'
  BY <1>7 DEF Flow
<1> QED BY <1>4, <1>6, <1>8 DEF ConnInv

LEMMA HandlePostInv ==
    ASSUME ConnInv, HandlePost
    PROVE  ConnInv'
<1>1. pc = "handle" /\ pc' = "body" /\ Request(got).method = "POST" /\ dest' = <<>> /\ fs' = fs
      /\ script' = script /\ got' = got /\ status_code' = status_code
  BY DEF HandlePost
<1>2. Rooted /\ status_code \in Int
  BY DEF ConnInv, Types
<1>3. Request(got)' = Request(got)
  BY <1>1 DEF Request
<1>4. Destined(0)' /\ Rooted' /\ status_code' \in Int
  BY <1>1, <1>2, <1>3 DEF Destined, Rooted
<1> QED BY <1>1, <1>4, BodyInv DEF HandlePost

LEMMA PutFileInv ==
    ASSUME ConnInv, put_file
    PROVE  ConnInv'
<1> DEFINE made == put_dir(fs, At)
           code == IF Exists(fs, At) THEN 200 ELSE 201
<1>1. pc = "handle" /\ Now = "put" /\ Rooted /\ must_close \in BOOLEAN
  BY DEF put_file, ConnInv, Types
<1>2. Request(got).method = "PUT"
  BY <1>1 DEF Now, handle_request
<1>3. <<>> \in DOMAIN made /\ made[<<>>].dir /\ made = [q \in DOMAIN made |-> made[q]]
  BY <1>1 DEF Rooted, put_dir
<1> HIDE DEF made
<1>4. CASE /\ Request(got).slash
           /\ fs' = IF Exists(fs, At) THEN fs ELSE Write(made, At, Dir)
           /\ Answer(code, must_close, {}) /\ wire' = wire /\ consumed_content' = consumed_content /\ input' = input
  <2>1. Rooted'
    BY <1>1, <1>3, <1>4 DEF Rooted, Write, Exists, Dir
  <2>2. code \in Int
    OBVIOUS
  <2> QED BY <1>1, <1>4, <2>1, <2>2, ChangeInv
<1>5. CASE send_http_error(500)
  BY <1>1, <1>5, PlainInv DEF send_http_error
<1>6. CASE /\ PutDirOK(fs, At) /\ ~Request(got).slash /\ ~(Exists(fs, At) /\ fs[At].dir)
           /\ fs' = Write(made, At, File(<<>>))
           /\ dest' = At /\ pc' = "body"
           /\ status_code' = IF Request(got).from > 0 THEN 206 ELSE code
           /\ UNCHANGED <<script, config, wire, cur, buf, request_len, content_len, consumed_content>>
           /\ UNCHANGED <<must_close, got, input, historyVars, edit>>
  <2>1. At # <<>>
    BY <1>1, <1>6 DEF Rooted, Exists
  <2>2. Rooted'
    BY <1>3, <1>6, <2>1 DEF Rooted, Write
  <2>3. status_code' \in Int
    BY <1>6
  <2>4. dest' # <<>> /\ dest' \in DOMAIN fs' /\ fs'[dest'] = File(<<>>)
    BY <1>6, <2>1 DEF Write
  <2>5. Request(got)' = Request(got)
    BY <1>6 DEF Request
  <2>6. Destined(0)'
    <3>1. Filled(0, 0) = <<>>
      BY DEF Filled
    <3>2. Stored(0)'
      BY <2>4, <3>1 DEF Stored
    <3> QED BY <1>2, <1>6, <2>4, <2>5, <3>2 DEF Destined
  <2> QED BY <1>1, <1>6, <2>2, <2>3, <2>6, BodyInv
<1> QED BY <1>4, <1>5, <1>6 DEF put_file, made

LEMMA Joined ==
    ASSUME NEW S, NEW a \in Seq(S), NEW b \in Seq(S)
    PROVE  /\ a \o b \in Seq(S) /\ Len(a \o b) = Len(a) + Len(b) /\ Len(a) \in Nat /\ Len(b) \in Nat
           /\ \A i \in 1 .. Len(a) : (a \o b)[i] = a[i]
           /\ \A i \in 1 .. Len(b) : (a \o b)[Len(a) + i] = b[i]
<1>1. Len(a) \in Nat /\ Len(b) \in Nat /\ a \o b \in Seq(S) /\ Len(a \o b) = Len(a) + Len(b)
  OBVIOUS
<1>2. ASSUME NEW i \in 1 .. Len(b)
      PROVE  (a \o b)[Len(a) + i] = b[i]
  <2>1. Len(a) + i \in 1 .. Len(a) + Len(b) /\ ~(Len(a) + i <= Len(a)) /\ (Len(a) + i) - Len(a) = i
    BY <1>1
  <2>2. (a \o b)[Len(a) + i] = b[(Len(a) + i) - Len(a)]
    BY <1>1, <2>1
  <2> QED BY <2>1, <2>2
<1> QED BY <1>1, <1>2

Extended(old, from, units) ==
    old \o [i \in 1 .. IF old = <<>> THEN from ELSE 0 |-> 0] \o [i \in 1 .. Len(units) |-> units[i][3]]

LEMMA FilledMore ==
    ASSUME NEW from \in Nat, NEW n \in Nat, NEW m \in Nat \ {0}, NEW units, Len(units) = m,
           \A i \in 1 .. m : units[i][3] = n + i
    PROVE  Extended(Filled(IF n = 0 THEN 0 ELSE from, n), from, units) = Filled(from, n + m)
<1> DEFINE g == IF n = 0 THEN 0 ELSE from
           old == Filled(g, n)
           gap == IF old = <<>> THEN from ELSE 0
           zero == [i \in 1 .. gap |-> 0]
           new == [i \in 1 .. m |-> n + i]
           x == old \o zero
           y == x \o new
           z == Filled(from, n + m)
<1>1. [i \in 1 .. Len(units) |-> units[i][3]] = new
  OBVIOUS
<1>2. g \in Nat
  OBVIOUS
<1>3. old \in Seq(Int) /\ Len(old) = g + n /\ \A i \in 1 .. g + n : old[i] = IF i <= g THEN 0 ELSE i - g
  <2> HIDE DEF g
  <2> QED BY <1>2 DEF Filled
<1>4. z \in Seq(Int) /\ Len(z) = from + (n + m) /\ \A i \in 1 .. from + (n + m) : z[i] = IF i <= from THEN 0 ELSE i - from
  BY DEF Filled
<1>5. old = <<>> <=> n = 0
  <2>1. CASE n = 0
    <3>1. Len(old) = 0
      BY <1>3, <2>1
    <3> HIDE DEF old
    <3> QED BY <1>3, <2>1, <3>1
  <2>2. CASE n # 0
    <3>1. Len(old) # 0
      BY <1>2, <1>3, <2>2
    <3>2. old # <<>>
      <4> HIDE DEF old
      <4> QED BY <1>3, <3>1
    <3> QED BY <2>2, <3>2
  <2> QED BY <2>1, <2>2
<1>6. gap \in Nat /\ g + gap = from
  BY <1>5
<1> HIDE DEF old, gap, g, z
<1>7. zero \in Seq(Int) /\ Len(zero) = gap /\ \A i \in 1 .. gap : zero[i] = 0
  BY <1>6
<1>8. new \in Seq(Int) /\ Len(new) = m /\ \A i \in 1 .. m : new[i] = n + i
  OBVIOUS
<1> HIDE DEF zero, new
<1>9. x \in Seq(Int) /\ Len(x) = g + n + gap
  <2>1. x \in Seq(Int) /\ Len(x) = Len(old) + Len(zero)
    BY <1>3, <1>7, Joined, Zenon
  <2> HIDE DEF x
  <2> QED BY <1>3, <1>7, <2>1
<1>10. \A i \in 1 .. g + n + gap : x[i] = IF i <= from THEN 0 ELSE i - from
  <2> TAKE i \in 1 .. g + n + gap
  <2>1. CASE i <= g + n
    <3>1. i \in 1 .. g + n
      BY <1>2, <1>6, <2>1
    <3>2. x[i] = old[i]
      BY <1>2, <1>3, <1>7, <3>1
    <3>3. n # 0 => g = from
      BY DEF g
    <3>4. n = 0 => g = 0
      BY DEF g
    <3> QED BY <1>2, <1>3, <3>1, <3>2, <3>3, <3>4
  <2>2. CASE i > g + n
    <3>1. i - (g + n) \in 1 .. gap
      BY <1>2, <1>6, <2>2
    <3>2. x[i] = zero[i - (g + n)]
      BY <1>2, <1>3, <1>7, <2>2, <3>1
    <3>3. n = 0
      BY <1>5, <1>6, <3>1 DEF gap
    <3>4. i <= from
      BY <1>2, <1>6, <3>3
    <3> QED BY <1>7, <3>1, <3>2, <3>4
  <2>3. i <= g + n \/ i > g + n
    BY <1>2, <1>6
  <2> QED BY <2>1, <2>2, <2>3
<1> HIDE DEF x
<1>11. y \in Seq(Int) /\ Len(y) = from + (n + m)
  <2>1. y \in Seq(Int) /\ Len(y) = Len(x) + Len(new)
    BY <1>8, <1>9, Joined, Zenon
  <2> HIDE DEF y
  <2> QED BY <1>2, <1>6, <1>8, <1>9, <2>1
<1>12. \A i \in 1 .. from + (n + m) : y[i] = z[i]
  <2> TAKE i \in 1 .. from + (n + m)
  <2>1. Len(x) = from + n
    BY <1>2, <1>6, <1>9
  <2>2. CASE i <= from + n
    <3>1. i \in 1 .. g + n + gap /\ i \in 1 .. Len(x)
      BY <1>2, <1>6, <2>1, <2>2
    <3>2. y[i] = x[i]
      BY <1>8, <1>9, <3>1
    <3> QED BY <1>4, <1>10, <3>1, <3>2
  <2>3. CASE i > from + n
    <3>1. i - (from + n) \in 1 .. m
      BY <2>3
    <3>2. y[i] = new[i - Len(x)]
      <4>1. PICK j \in 1 .. Len(new) : j = i - Len(x)
        BY <1>8, <2>1, <3>1
      <4>2. y[Len(x) + j] = new[j]
        <5>1. x \in Seq(Int) /\ new \in Seq(Int)
          BY <1>8, <1>9
        <5> HIDE DEF y
        <5>2. \A k \in 1 .. Len(new) : (x \o new)[Len(x) + k] = new[k]
          BY <5>1, Joined
        <5> QED BY <4>1, <5>2 DEF y
      <4>3. Len(x) + j = i
        BY <2>1, <4>1
      <4> QED BY <4>1, <4>2, <4>3
    <3>3. new[i - Len(x)] = n + (i - (from + n))
      BY <1>8, <2>1, <3>1
    <3> QED BY <1>4, <2>3, <3>2, <3>3
  <2>4. i <= from + n \/ i > from + n
    OBVIOUS
  <2> QED BY <2>2, <2>3, <2>4
<1>13. y = z
  <2> HIDE DEF y
  <2>1. Len(y) = Len(z) /\ \A i \in 1 .. Len(y) : y[i] = z[i]
    BY <1>4, <1>11, <1>12
  <2> QED BY <1>4, <1>11, <2>1, SeqEqual, Zenon
<1>14. Extended(old, from, units) = old \o zero \o [i \in 1 .. Len(units) |-> units[i][3]]
  BY DEF Extended, zero, gap
<1> QED BY <1>1, <1>13, <1>14 DEF y, x, z, old, g

\* The data of a file is replaced.
LEMMA FileSet ==
    ASSUME NEW x, NEW y, NEW S, NEW T, NEW R, x \in S, y \in S, NEW d \in T, NEW i \in R
    PROVE  [[dir |-> d, data |-> x, includes |-> i] EXCEPT !.data = y] = [dir |-> d, data |-> y, includes |-> i]
<1> DEFINE r == [dir |-> d, data |-> x, includes |-> i]
<1>1. r \in [dir : T, data : S, includes : R]
  OBVIOUS
<1>2. r.dir = d /\ r.includes = i
  OBVIOUS
<1> HIDE DEF r
<1> QED BY <1>1, <1>2

LEMMA FileData ==
    ASSUME NEW x, NEW y
    PROVE  [File(x) EXCEPT !.data = y] = File(y)
<1> DEFINE no == FALSE
           none == {}
<1>1. x \in {x, y} /\ y \in {x, y} /\ no \in {no} /\ none \in {none}
  OBVIOUS
<1> DEFINE S == {x, y}
           T == {no}
           R == {none}
<1>2. x \in S /\ y \in S /\ no \in T /\ none \in R
  BY <1>1
<1> HIDE DEF no, none, S, T, R
<1>3. [[dir |-> no, data |-> x, includes |-> none] EXCEPT !.data = y] = [dir |-> no, data |-> y, includes |-> none]
  BY <1>2, FileSet
<1> QED BY <1>3, Zenon DEF File, no, none

\* The next units of the body go where the body goes.
LEMMA PushInv ==
    ASSUME Types, Rooted, got \in Ids, NEW n \in Nat, Given(n), Destined(n), NEW units \in Seq(Units), push(units),
           n + Len(units) <= Request(got).body,
           \A i \in 1 .. Len(units) : units[i] = <<got[1], got[2], n + i>>,
           script' = script, got' = got, dest' = dest, edit' = edit
    PROVE  Given(n + Len(units))' /\ Destined(n + Len(units))' /\ Rooted' /\ input' \in Seq(Units)
<1> DEFINE m == Len(units)
           from == Request(got).from
<1>1. m \in Nat /\ from \in Nat /\ input \in Seq(Units)
  <2>1. script \in Scripts /\ input \in Seq(Units)
    BY DEF Types
  <2>2. from \in Nat
    BY <2>1, RequestFacts
  <2> QED BY <2>1, <2>2
<1>2. Request(got)' = Request(got)
  BY DEF Request
<1>3. input' = input \o units
  BY DEF push
<1>4. Len(input) = n /\ \A i \in 1 .. n : input[i] = <<got[1], got[2], i>>
  BY DEF Given
<1>5. /\ input' \in Seq(Units) /\ Len(input') = n + m
      /\ \A i \in 1 .. n : input'[i] = input[i]
      /\ \A i \in 1 .. m : input'[n + i] = units[i]
  <2>1. /\ input \o units \in Seq(Units) /\ Len(input \o units) = Len(input) + Len(units)
        /\ \A i \in 1 .. Len(input) : (input \o units)[i] = input[i]
        /\ \A i \in 1 .. Len(units) : (input \o units)[Len(input) + i] = units[i]
    <3> DEFINE U == Units
    <3>1. input \in Seq(U) /\ units \in Seq(U)
      BY <1>1
    <3> HIDE DEF U
    <3>2. /\ input \o units \in Seq(U) /\ Len(input \o units) = Len(input) + Len(units)
          /\ \A i \in 1 .. Len(input) : (input \o units)[i] = input[i]
          /\ \A i \in 1 .. Len(units) : (input \o units)[Len(input) + i] = units[i]
      BY <3>1, Joined
    <3> QED BY <3>2 DEF U
  <2> QED BY <1>3, <1>4, <2>1
<1>6. \A i \in 1 .. n + m : input'[i] = <<got[1], got[2], i>>
  <2> TAKE i \in 1 .. n + m
  <2> HIDE DEF m
  <2>1. CASE i <= n
    <3>1. i \in 1 .. n
      BY <1>1, <2>1
    <3> QED BY <1>4, <1>5, <3>1
  <2>2. CASE i > n
    <3>1. PICK j \in 1 .. m : j = i - n
      BY <1>1, <2>2
    <3>2. i = n + j
      BY <1>1, <3>1
    <3>3. units[j] = <<got[1], got[2], n + j>>
      BY <3>1 DEF m
    <3> QED BY <1>5, <3>1, <3>2, <3>3
  <2>3. i <= n \/ i > n
    BY <1>1
  <2> QED BY <2>1, <2>2, <2>3
<1>7. Given(n + m)'
  <2>1. Given(n + m)' <=> /\ Len(input') = n + m /\ n + m <= Request(got)'.body
                          /\ \A i \in 1 .. n + m : input'[i] = <<got'[1], got'[2], i>>
    BY DEF Given
  <2> QED BY <1>2, <1>5, <1>6, <2>1
<1>8. /\ dest = <<>> \/ dest \notin DOMAIN fs \/ units = <<>> => fs' = fs
      /\ ~(dest = <<>> \/ dest \notin DOMAIN fs \/ units = <<>>) =>
           fs' = [fs EXCEPT ![dest].data = @ \o [i \in 1 .. IF fs[dest].data = <<>> THEN from ELSE 0 |-> 0]
                                             \o [i \in 1 .. Len(units) |-> units[i][3]]]
  BY DEF push, Exists
<1> DEFINE d == Extended(fs[dest].data, from, units)
<1>9. ~(dest = <<>> \/ dest \notin DOMAIN fs \/ units = <<>>) => fs' = [fs EXCEPT ![dest] = [fs[dest] EXCEPT !.data = d]]
  BY <1>8 DEF Extended
<1>10. Rooted' /\ (dest # <<>> /\ dest \in DOMAIN fs => dest \in DOMAIN fs')
  <2> HIDE DEF d
  <2> QED BY <1>8, <1>9 DEF Rooted
<1>11. ASSUME dest # <<>>, Stored(n), edit = "none" \/ dest \notin {PwFile, TmpFile}
       PROVE  dest \in DOMAIN fs' /\ fs'[dest] = File(Filled(IF n + m = 0 THEN 0 ELSE from, n + m))
  <2> DEFINE g == IF n = 0 THEN 0 ELSE from
             old == Filled(g, n)
  <2>1. dest \in DOMAIN fs /\ fs[dest] = File(old)
    BY <1>11 DEF Stored
  <2>2. CASE units = <<>>
    <3>1. m = 0 /\ fs' = fs
      BY <1>8, <2>2
    <3>2. n + m = n
      BY <3>1
    <3> HIDE DEF m, old
    <3> QED BY <2>1, <3>1, <3>2 DEF old
  <2>3. CASE units # <<>>
    <3>1. m \in Nat \ {0}
      BY <1>1, <2>3
    <3>2. \A i \in 1 .. m : units[i][3] = n + i
      OBVIOUS
    <3>3. fs[dest].data = old
      BY <2>1 DEF File
    <3>4. d = Filled(from, n + m)
      <4>1. Extended(old, from, units) = Filled(from, n + m)
        <5> HIDE DEF from
        <5>1. Len(units) = m
          OBVIOUS
        <5>2. from \in Nat /\ n \in Nat
          BY <1>1
        <5> HIDE DEF m
        <5>3. n \in Nat /\ m \in Nat \ {0} /\ Len(units) = m /\ \A i \in 1 .. m : units[i][3] = n + i
          BY <3>1, <3>2, <5>1, <5>2
        <5>4. PICK l \in Nat \ {0} : l = m
          BY <5>3
        <5>5. Len(units) = l /\ \A i \in 1 .. l : units[i][3] = n + i
          BY <5>3, <5>4
        <5>6. \A a \in Nat : Extended(Filled(IF n = 0 THEN 0 ELSE a, n), a, units) = Filled(a, n + l)
          BY <5>5, FilledMore
        <5> QED BY <5>2, <5>4, <5>6
      <4> HIDE DEF old, m, from
      <4> QED BY <3>3, <4>1
    <3>5. [fs[dest] EXCEPT !.data = d] = File(d)
      BY <2>1, FileData
    <3>6. fs' = [fs EXCEPT ![dest] = File(d)]
      BY <1>9, <1>11, <2>1, <2>3, <3>5
    <3>7. dest \in DOMAIN fs' /\ fs'[dest] = File(d)
      <4> HIDE DEF d
      <4> QED BY <2>1, <3>6
    <3>8. n + m # 0
      BY <3>1
    <3> HIDE DEF d, m, from
    <3> QED BY <3>4, <3>7, <3>8
  <2> QED BY <2>2, <2>3
<1>12. dest # <<>> /\ Stored(n) => Stored(n + m)'
  <2>1. Stored(n + m)' <=>
          (edit' = "none" \/ dest' \notin {PwFile, TmpFile} =>
             dest' \in DOMAIN fs' /\ fs'[dest'] = File(Filled(IF n + m = 0 THEN 0 ELSE Request(got)'.from, n + m)))
    BY DEF Stored
  <2> HIDE DEF m
  <2> QED BY <1>2, <1>11, <2>1
<1>13. Destined(n + m)'
  <2>1. Destined(n + m)' <=> \/ dest' = <<>> /\ Request(got)'.method = "POST"
                             \/ /\ dest' # <<>> /\ Request(got)'.method = "PUT"
                                /\ ~Request(got)'.slash /\ Stored(n + m)'
    BY DEF Destined
  <2> HIDE DEF m
  <2> QED BY <1>2, <1>12, <2>1 DEF Destined
<1> QED BY <1>5, <1>7, <1>10, <1>13

LEMMA Further ==
    ASSUME NEW k \in Nat, NEW r \in Nat, NEW n \in Nat, NEW m \in Nat, NEW i \in 1 .. m, NEW L \in Nat,
           k + r + n + m <= L
    PROVE  k + r + (n + i) <= L /\ k + r + n + i = k + r + (n + i)
OBVIOUS

\* A piece of the body, n units behind its start.
LEMMA BodyPiece ==
    ASSUME Types, Handling, content_len >= 0, pc # "idle", NEW k, k = Begin(cur, got[2]), k \in Nat,
           NEW n \in Nat, NEW m \in Nat, n + m <= content_len,
           k + request_len + n + m <= Len(Stream(cur)), NEW i \in 1 .. m
    PROVE  /\ Stream(cur)[k + request_len + n + i] = <<got[1], got[2], n + i>>
           /\ content_len = Request(got).body
<1> DEFINE L == Len(Stream(cur))
<1>1. request_len \in Nat /\ content_len \in Nat /\ script \in Scripts /\ cur \in Conns
  <2>1. request_len \in Nat /\ content_len \in Nat
    BY DEF Types
  <2> QED BY <2>1, TypesFacts
<1>2. L \in Nat
  BY <1>1, Layout
<1>3. k + request_len + n + m <= L
  OBVIOUS
<1>4. PICK j \in 1 .. content_len : j = n + i
  BY <1>1
<1> HIDE DEF L
<1>5. k + request_len + j <= L /\ k + request_len + n + i = k + request_len + j
  <2>1. PICK r \in Nat, g \in Nat : r = request_len /\ g = L
    BY <1>1, <1>2
  <2>2. k + r + n + m <= g
    BY <1>3, <2>1
  <2>3. k + r + (n + i) <= g /\ k + r + n + i = k + r + (n + i)
    BY <2>1, <2>2, Further, SMTT(30)
  <2> QED BY <1>4, <2>1, <2>3
<1>6. Stream(cur)[k + request_len + j] = <<got[1], got[2], j>> /\ content_len = Request(got).body
  BY <1>5, BodyUnits DEF L
<1> QED BY <1>4, <1>5, <1>6

\* A piece of the body is passed on; k is where the request begins, q how much
\* of the stream has been read after that.
LEMMA PulledInv ==
    ASSUME ConnInv, pc \in {"body", "pull"}, pc' = "pull", content_len >= 0,
           NEW n \in Nat, Given(n), Destined(n),
           NEW k \in Nat, k = Begin(cur, got[2]), NEW q \in Nat, Lined(k, q)',
           NEW units \in Seq(Units), push(units), n + Len(units) <= content_len,
           k + request_len + n + Len(units) <= Len(Stream(cur)),
           \A i \in 1 .. Len(units) : units[i] = Stream(cur)[k + request_len + n + i],
           consumed_content' = n + Len(units),
           \/ n + Len(units) = content_len /\ q = k + Len(buf)
           \/ q = k + request_len + n + Len(units),
           wire' \in [Conns -> Seq(Units)], \A c \in Conns : c > cur => wire'[c] = wire[c],
           script' = script, config' = config, cur' = cur, buf' = buf, request_len' = request_len,
           content_len' = content_len, must_close' = must_close, status_code' = status_code,
           got' = got, dest' = dest, UNCHANGED historyVars, edit' = edit
    PROVE  ConnInv'
<1> DEFINE m == Len(units)
           L == Len(Stream(cur))
<1>1. Types /\ Flow /\ Rooted /\ Streams /\ Answers /\ Busy
  BY DEF ConnInv, Busy
<1>2. /\ Handling /\ got \in Ids /\ cur \in Conns /\ script \in Scripts
      /\ request_len \in Nat /\ content_len \in Nat /\ m \in Nat /\ L \in Nat /\ cur # 0
  <2>1. Handling /\ got \in Ids /\ L \in Nat
    BY <1>1, HeldFacts DEF Held
  <2>2. cur \in Conns /\ script \in Scripts /\ cur # 0
    BY <1>1, TypesFacts DEF Busy, Conns
  <2>3. request_len \in Nat /\ content_len \in Nat
    BY <1>1 DEF Types
  <2>4. m \in Nat
    OBVIOUS
  <2> QED BY <2>1, <2>2, <2>3, <2>4
<1>14. k + request_len + n + m <= L /\ n + m <= content_len
  OBVIOUS
<1>3. \A i \in 1 .. m : /\ units[i] = <<got[1], got[2], n + i>>
                       /\ content_len = Request(got).body
  <2> TAKE i \in 1 .. m
  <2>1. units[i] = Stream(cur)[k + request_len + n + i]
    OBVIOUS
  <2>2. /\ Stream(cur)[k + request_len + n + i] = <<got[1], got[2], n + i>>
        /\ content_len = Request(got).body
    <3>1. /\ Types /\ Handling /\ content_len >= 0 /\ pc # "idle" /\ k = Begin(cur, got[2]) /\ k \in Nat
          /\ n \in Nat /\ m \in Nat /\ n + m <= content_len /\ k + request_len + n + m <= Len(Stream(cur))
      BY <1>1, <1>2, <1>14
    <3> HIDE DEF m
    <3>2. i \in 1 .. m
      OBVIOUS
    <3> QED BY <3>1, <3>2, BodyPiece, Zenon
  <2> QED BY <2>1, <2>2
<1>4. n + m <= Request(got).body
  <2>1. CASE m = 0
    BY <2>1 DEF Given
  <2>2. CASE m # 0
    <3>1. 1 \in 1 .. m
      BY <1>2, <2>2
    <3> QED BY <1>3, <1>14, <3>1
  <2> QED BY <2>1, <2>2
<1>5. Given(n + m)' /\ Destined(n + m)' /\ Rooted' /\ input' \in Seq(Units)
  BY <1>1, <1>2, <1>3, <1>4, PushInv
<1>6. Conns' = Conns /\ Known' = Known
  BY SameScript
<1>7. replies' = replies /\ logged' = logged /\ parsed' = parsed /\ adrift' = adrift
  BY DEF historyVars
<1>8. consumed_content' \in 0 .. IF content_len < 0 THEN 0 ELSE content_len
  BY <1>2
<1>9. Types'
  <2> HIDE DEF m
  <2> QED BY <1>1, <1>2, <1>5, <1>6, <1>7, <1>8 DEF Types
<1>10. Busy'
  BY DEF Busy
<1>11. Streams' /\ Answers'
  BY <1>1, <1>7, <1>10, StreamsKept, AnswersKept
<1>12. PullOk'
  <2>1. Handling' /\ Begin(cur, got[2])' = k
    BY <1>2, HandlingSame
  <2>2. PullOk' <=>
          /\ Handling' /\ content_len' >= 0
          /\ \/ consumed_content' = content_len' /\ Lined(Begin(cur, got[2]), Begin(cur, got[2]) + Len(buf))'
             \/ Lined(Begin(cur, got[2]), Begin(cur, got[2]) + request_len + consumed_content)'
          /\ Given(consumed_content)' /\ Destined(consumed_content)'
    BY DEF PullOk
  <2>3. Given(consumed_content)' /\ Destined(consumed_content)'
    <3>1. PICK j : j = n + m
      OBVIOUS
    <3>2. Given(j)' /\ Destined(j)' /\ consumed_content' = j
      BY <1>5, <3>1
    <3> QED BY <3>2
  <2>4. CASE n + m = content_len /\ q = k + Len(buf)
    <3>1. Lined(Begin(cur, got[2]), Begin(cur, got[2]) + Len(buf))'
      BY <2>1, <2>4
    <3> QED BY <2>1, <2>2, <2>3, <2>4, <3>1
  <2>5. CASE q = k + request_len + n + m
    <3>1. k + request_len + n + m = k + request_len + (n + m)
      BY <1>2
    <3>2. (Begin(cur, got[2]) + request_len + consumed_content)' = q
      BY <2>1, <2>5, <3>1
    <3>3. Lined(Begin(cur, got[2]), Begin(cur, got[2]) + request_len + consumed_content)'
      BY <2>1, <3>2
    <3> QED BY <2>1, <2>2, <2>3, <3>3
  <2> QED BY <2>4, <2>5
<1>13. Flow'
  BY <1>12 DEF Flow
<1> QED BY <1>5, <1>9, <1>11, <1>13 DEF ConnInv

LEMMA ForwardStartInv ==
    ASSUME ConnInv, ForwardStart
    PROVE  ConnInv'
<1> DEFINE B == Buffered
<1>1. Types /\ Flow /\ pc = "body" /\ Busy /\ must_close \in BOOLEAN
  BY DEF ConnInv, ForwardStart, Busy, Types
<1>2. CASE send_http_error(411) \/ send_http_error(417)
  BY <1>1, <1>2, PlainInv DEF send_http_error
<1>3. CASE content_len >= 0 /\ push(B) /\ consumed_content' = Len(B) /\ pc' = "pull"
  <2>1. /\ HandleOk /\ Destined(0)
    BY <1>1 DEF Flow
  <2>2. /\ Handling /\ Given(0) /\ script \in Scripts /\ cur \in Conns
        /\ Begin(cur, got[2]) \in Nat /\ Len(Stream(cur)) \in Nat /\ Len(buf) \in Nat
        /\ request_len \in Nat /\ content_len \in Nat /\ request_len <= Len(buf)
    <3>1. /\ Begin(cur, got[2]) \in Nat /\ Len(Stream(cur)) \in Nat /\ Len(buf) \in Nat /\ request_len <= Len(buf)
      BY <1>1, HeldFacts DEF Places
    <3> QED BY <1>1, <1>3, <2>1, <3>1, TypesFacts DEF HandleOk, Types
  <2>3. /\ B \in Seq(Units) /\ Len(B) <= content_len /\ Len(B) <= Len(buf) - request_len
        /\ Len(B) < content_len => Len(B) = Len(buf) - request_len
        /\ \A i \in 1 .. Len(B) : B[i] = buf[request_len + i]
    BY <1>1, <2>2, BufferedFacts
  <2> HIDE DEF B
  <2>4. PICK k \in Nat : k = Begin(cur, got[2])
    BY <2>2
  <2>5. PICK q \in Nat : q = k + Len(buf)
    BY <2>2, <2>4
  <2>6. Lined(k, q)
    BY <2>1, <2>4, <2>5 DEF HandleOk
  <2>7. /\ script' = script /\ config' = config /\ wire' = wire /\ cur' = cur /\ buf' = buf
        /\ request_len' = request_len /\ content_len' = content_len /\ must_close' = must_close
        /\ status_code' = status_code /\ got' = got /\ dest' = dest /\ UNCHANGED historyVars /\ edit' = edit
    BY <1>1, <1>3 DEF ForwardStart, send_http_error, Answered, Answer
  <2>8. Lined(k, q)'
    BY <2>6, <2>7, LinedSame
  <2>9. /\ k + Len(buf) <= Len(Stream(cur)) /\ \A i \in 1 .. Len(buf) : buf[i] = Stream(cur)[k + i]
    BY <2>5, <2>6 DEF Lined
  <2>10. PICK m \in Nat : m = Len(B)
    BY <2>3
  <2>11. /\ k + request_len + 0 + m <= Len(Stream(cur)) /\ 0 + m <= content_len
         /\ (0 + m = content_len /\ q = k + Len(buf)) \/ q = k + request_len + 0 + m
    <3> DEFINE L == Len(Stream(cur))
               l == Len(buf)
    <3>1. /\ L \in Nat /\ l \in Nat /\ request_len \in Nat /\ content_len \in Nat /\ q = k + l /\ k + l <= L
          /\ m <= content_len /\ request_len + m <= l /\ (m < content_len => m = l - request_len)
      BY <2>2, <2>3, <2>5, <2>9, <2>10
    <3> HIDE DEF L, l
    <3>2. /\ k + request_len + 0 + m <= L /\ 0 + m <= content_len
          /\ 0 + m = content_len \/ q = k + request_len + 0 + m
      BY <3>1
    <3> QED BY <3>1, <3>2 DEF L, l
  <2>12. \A i \in 1 .. m : B[i] = Stream(cur)[k + request_len + 0 + i]
    <3> TAKE i \in 1 .. m
    <3>1. PICK j \in 1 .. Len(buf) : j = request_len + i
      BY <2>2, <2>3, <2>10
    <3>2. k + request_len + 0 + i = k + j
      BY <2>2, <3>1
    <3>3. B[i] = buf[j] /\ buf[j] = Stream(cur)[k + j]
      BY <2>3, <2>9, <2>10, <3>1
    <3> QED BY <3>2, <3>3
  <2>13. wire' \in [Conns -> Seq(Units)] /\ \A c \in Conns : c > cur => wire'[c] = wire[c]
    BY <1>1, <2>7 DEF Types
  <2>14. consumed_content' = 0 + m /\ push(B) /\ pc' = "pull" /\ content_len >= 0
    BY <1>3, <2>10
  <2>19. PICK n \in Nat : n = 0
    OBVIOUS
  <2>20. PICK u : u = B
    OBVIOUS
  <2>15. /\ k + request_len + n + Len(u) <= Len(Stream(cur)) /\ n + Len(u) <= content_len
         /\ (n + Len(u) = content_len /\ q = k + Len(buf)) \/ q = k + request_len + n + Len(u)
    BY <2>10, <2>11, <2>19, <2>20
  <2>16. u \in Seq(Units) /\ \A i \in 1 .. Len(u) : u[i] = Stream(cur)[k + request_len + n + i]
    BY <2>3, <2>10, <2>12, <2>19, <2>20
  <2>17. Given(n) /\ Destined(n)
    BY <2>1, <2>2, <2>19
  <2>18. consumed_content' = n + Len(u) /\ push(u) /\ pc' = "pull" /\ content_len >= 0
    BY <2>10, <2>14, <2>19, <2>20
  <2> QED BY <1>1, <2>2, <2>4, <2>5, <2>7, <2>8, <2>13, <2>15, <2>16, <2>17, <2>19,
             <2>18, PulledInv, ZenonT(60)
<1> QED BY <1>2, <1>3 DEF ForwardStart

\* The worker waits for the rest of a body.
LEMMA PullFacts ==
    ASSUME ConnInv, pc = "pull", consumed_content < content_len
    PROVE  /\ Types /\ Busy /\ Handling /\ Given(consumed_content) /\ Destined(consumed_content)
           /\ Lined(Begin(cur, got[2]), Begin(cur, got[2]) + request_len + consumed_content)
           /\ Begin(cur, got[2]) \in Nat /\ request_len \in Nat /\ consumed_content \in Nat /\ content_len \in Nat
           /\ cur \in Conns /\ Len(Stream(cur)) \in Nat /\ Len(wire[cur]) \in Nat /\ wire[cur] \in Seq(Units)
<1>1. Types /\ Flow /\ Busy /\ PullOk
  BY DEF ConnInv, Busy, Flow
<1>2. Handling /\ Given(consumed_content) /\ Destined(consumed_content) /\ content_len >= 0
  BY <1>1 DEF PullOk
<1>3. request_len \in Nat /\ content_len \in Nat /\ consumed_content \in Nat
  BY <1>1, <1>2 DEF Types
<1>4. Lined(Begin(cur, got[2]), Begin(cur, got[2]) + request_len + consumed_content)
  <2>1. consumed_content # content_len
    BY <1>3
  <2> QED BY <1>1, <2>1 DEF PullOk
<1>5. Begin(cur, got[2]) \in Nat /\ Len(Stream(cur)) \in Nat
  BY <1>1, HeldFacts DEF Places
<1>6. cur \in Conns /\ wire[cur] \in Seq(Units)
  BY <1>1, TypesFacts DEF Types
<1> QED BY <1>1, <1>2, <1>3, <1>4, <1>5, <1>6

LEMMA ForwardPullInv ==
    ASSUME ConnInv, ForwardPull
    PROVE  ConnInv'
<1> DEFINE L == Len(Stream(cur))
           w == wire[cur]
<1>1. pc = "pull" /\ consumed_content < content_len
  BY DEF ForwardPull
<1>2. /\ Types /\ Busy /\ Handling /\ Given(consumed_content) /\ Destined(consumed_content)
      /\ Lined(Begin(cur, got[2]), Begin(cur, got[2]) + request_len + consumed_content)
      /\ Begin(cur, got[2]) \in Nat /\ request_len \in Nat /\ consumed_content \in Nat /\ content_len \in Nat
      /\ cur \in Conns /\ L \in Nat /\ Len(w) \in Nat /\ w \in Seq(Units)
  BY <1>1, PullFacts
<1>3. PICK m \in Arriving(content_len - consumed_content) :
        /\ push(SubSeq(wire[cur], 1, m))
        /\ wire' = [wire EXCEPT ![cur] = Drop(@, m)]
        /\ consumed_content' = consumed_content + m
  BY DEF ForwardPull
<1>4. m \in Nat /\ m <= Len(w) /\ m <= content_len - consumed_content /\ m \in 0 .. Len(wire[cur])
  <2>1. m \in 1 .. IF Len(w) < content_len - consumed_content THEN Len(w) ELSE content_len - consumed_content
    BY <1>3 DEF Arriving
  <2> QED BY <1>2, <2>1
<1>5. /\ script' = script /\ config' = config /\ cur' = cur /\ pc' = pc /\ buf' = buf
      /\ request_len' = request_len /\ content_len' = content_len /\ must_close' = must_close
      /\ status_code' = status_code /\ got' = got /\ dest' = dest /\ UNCHANGED historyVars /\ edit' = edit
  BY DEF ForwardPull
<1>6. PICK k \in Nat, n \in Nat : k = Begin(cur, got[2]) /\ n = consumed_content
  BY <1>2
<1>7. PICK q \in Nat : q = k + request_len + n
  BY <1>2
<1>8. Lined(k, q)
  BY <1>2, <1>6, <1>7
<1>9. /\ q <= L /\ Len(w) = L - q /\ \A i \in 1 .. Len(w) : w[i] = Stream(cur)[q + i]
  BY <1>8 DEF Lined
<1>10. m > 0 => content_len >= 0 /\ q + m <= k + request_len + content_len
  BY <1>2, <1>4, <1>6, <1>7
<1>11. /\ wire' \in [Conns -> Seq(Units)] /\ \A c \in Conns : c > cur => wire'[c] = wire[c]
       /\ Lined(k, q + m)'
  BY <1>1, <1>2, <1>3, <1>4, <1>5, <1>8, <1>10, PullWire
<1>12. PICK u : u = SubSeq(wire[cur], 1, m)
  OBVIOUS
<1>13. u \in Seq(Units) /\ Len(u) = m /\ \A i \in 1 .. m : u[i] = w[i]
  BY <1>2, <1>4, <1>12
<1>14. PICK r \in Nat : r = q + m
  BY <1>4
<1> HIDE DEF w, L
<1>15. /\ n + Len(u) <= content_len /\ k + request_len + n + Len(u) <= L /\ r = k + request_len + n + Len(u)
  <2>1. PICK h \in Nat, b \in Nat, l \in Nat, x \in Nat : h = request_len /\ b = content_len /\ l = L /\ x = Len(w)
    BY <1>2 DEF w, L
  <2>2. /\ m \in Nat /\ m <= b - n /\ m <= x /\ q = k + h + n /\ q <= l /\ x = l - q /\ r = q + m /\ Len(u) = m
    BY <1>4, <1>6, <1>7, <1>9, <1>13, <1>14, <2>1
  <2>3. n + m <= b /\ q + m <= l
    BY <2>2
  <2>4. q + m = k + h + n + m
    BY <2>2
  <2> QED BY <2>1, <2>2, <2>3, <2>4
<1>16. \A i \in 1 .. Len(u) : u[i] = Stream(cur)[k + request_len + n + i]
  <2> TAKE i \in 1 .. Len(u)
  <2>1. i \in 1 .. m /\ i \in 1 .. Len(w)
    BY <1>2, <1>4, <1>13
  <2>2. q + i = k + request_len + n + i
    BY <1>7
  <2> QED BY <1>9, <1>13, <2>1, <2>2
<1>17. Lined(k, r)'
  BY <1>11, <1>14
<1>18. push(u) /\ consumed_content' = n + Len(u)
  BY <1>3, <1>6, <1>12, <1>13
<1>19. Given(n) /\ Destined(n) /\ content_len >= 0
  BY <1>2, <1>6
<1> QED BY <1>1, <1>5, <1>6, <1>11, <1>13, <1>15, <1>16, <1>17, <1>18, <1>19, PulledInv DEF L

\* What was read and lost belongs to the body as well.
LEMMA ForwardFailsInv ==
    ASSUME ConnInv, ForwardFails
    PROVE  ConnInv'
<1>1. pc = "pull" /\ consumed_content < content_len /\ Rooted /\ Types /\ must_close \in BOOLEAN
  BY DEF ForwardFails, ConnInv, Types
<1>2. /\ Busy /\ Handling /\ Given(consumed_content)
      /\ Lined(Begin(cur, got[2]), Begin(cur, got[2]) + request_len + consumed_content)
      /\ Begin(cur, got[2]) \in Nat /\ request_len \in Nat /\ consumed_content \in Nat /\ content_len \in Nat
      /\ cur \in Conns /\ Len(wire[cur]) \in Nat
  BY <1>1, PullFacts
<1>3. ASSUME Answer(577, must_close, {})
      PROVE  /\ script' = script /\ cur' = cur /\ buf' = buf /\ content_len' = content_len
             /\ request_len' = request_len /\ got' = got /\ Finished'
  <2>1. /\ script' = script /\ cur' = cur /\ buf' = buf /\ content_len' = content_len
        /\ request_len' = request_len /\ got' = got /\ status_code' = 577
    BY <1>3 DEF Answer, Reply, Noted
  <2> QED BY <2>1 DEF Finished
<1>4. CASE send_http_error(577)
  <2>1. /\ Answer(577, must_close, {}) /\ fs' = fs /\ wire' = wire
        /\ consumed_content' = consumed_content /\ input' = input
    BY <1>4 DEF send_http_error, Answered
  <2>2. Rooted'
    BY <1>1, <2>1 DEF Rooted
  <2> QED BY <1>1, <1>2, <1>3, <2>1, <2>2, AnswerAtOnce
<1>5. CASE /\ \E n \in Arriving(content_len - consumed_content) : wire' = [wire EXCEPT ![cur] = Drop(@, n)]
           /\ Answer(577, must_close, {}) /\ fs' = fs /\ consumed_content' = consumed_content /\ input' = input
  <2>1. PICK m \in Arriving(content_len - consumed_content) : wire' = [wire EXCEPT ![cur] = Drop(@, m)]
    BY <1>5
  <2>2. m \in Nat /\ m <= content_len - consumed_content /\ m \in 0 .. Len(wire[cur])
    <3> DEFINE l == Len(wire[cur])
    <3>1. m \in 1 .. IF l < content_len - consumed_content THEN l ELSE content_len - consumed_content
      BY <2>1 DEF Arriving
    <3>2. l \in Nat
      BY <1>2
    <3> HIDE DEF l
    <3>3. m \in Nat /\ m <= content_len - consumed_content /\ m \in 0 .. l
      BY <1>2, <3>1, <3>2
    <3> QED BY <3>3 DEF l
  <2>3. PICK k \in Nat, q \in Nat :
          k = Begin(cur, got[2]) /\ q = Begin(cur, got[2]) + request_len + consumed_content
    BY <1>2
  <2>4. Lined(k, q) /\ (m > 0 => content_len >= 0 /\ q + m <= k + request_len + content_len)
    BY <1>2, <2>2, <2>3
  <2>5. /\ wire' \in [Conns -> Seq(Units)] /\ \A c \in Conns : c > cur => wire'[c] = wire[c]
        /\ Lined(k, q + m)' /\ q + m \in Places
    BY <1>1, <1>3, <1>5, <2>1, <2>2, <2>4, PullWire
  <2>6. Begin(cur, got[2])' = k
    BY <1>3, <1>5, <2>3, HandlingSame
  <2>7. \E r \in Places : Lined(Begin(cur, got[2]), r)'
    BY <2>5, <2>6
  <2>8. Given(Len(input))'
    <3>1. Given(Len(input)) /\ Len(input) = consumed_content
      BY <1>2 DEF Given
    <3>2. Given(consumed_content)'
      <4>1. PICK n : n = consumed_content
        OBVIOUS
      <4>2. Given(n)' /\ consumed_content' = n
        BY <1>2, <1>3, <1>5, <4>1, GivenSame
      <4> QED BY <4>2
    <3>3. Len(input)' = consumed_content'
      BY <1>5, <3>1
    <3> QED BY <3>2, <3>3
  <2>9. /\ Rooted' /\ input' \in Seq(Units) /\ 577 \in Int
        /\ consumed_content' \in 0 .. IF content_len < 0 THEN 0 ELSE content_len
    BY <1>1, <1>5 DEF Rooted, Types
  <2>10. PICK status \in Int : status = 577
    OBVIOUS
  <2>11. PICK none : none = {}
    OBVIOUS
  <2>12. Answer(status, must_close, none)
    BY <1>5, <2>10, <2>11, Zenon
  <2>13. Finished'
    BY <1>3, <1>5
  <2> QED BY <1>1, <1>2, <2>5, <2>7, <2>8, <2>9, <2>10, <2>12, <2>13, AnswerInv
<1> QED BY <1>4, <1>5 DEF ForwardFails

LEMMA ForwardDoneInv ==
    ASSUME ConnInv, ForwardDone
    PROVE  ConnInv'
<1>1. /\ pc = "pull" /\ consumed_content = content_len /\ Rooted /\ Types /\ Flow /\ Busy
      /\ must_close \in BOOLEAN /\ status_code \in Int
  BY DEF ForwardDone, ConnInv, Types, Busy
<1>2. Handling /\ content_len >= 0 /\ Given(content_len) /\ Destined(content_len) /\ script \in Scripts
  BY <1>1, TypesFacts DEF Flow, PullOk
<1>3. Len(input) = content_len
  BY <1>2 DEF Given
<1>4. ASSUME NEW status \in Int, NEW close \in BOOLEAN, Answered(status, close, {}),
             Request(got).method = "PUT" /\ ~Request(got).slash => Stored(content_len)
      PROVE  ConnInv'
  <2>1. /\ Answer(status, close, {}) /\ fs' = fs /\ wire' = wire
        /\ consumed_content' = consumed_content /\ input' = input
    BY <1>4 DEF Answered
  <2>2. script' = script /\ got' = got /\ dest' = dest /\ edit' = edit
    BY <2>1 DEF Answer
  <2>3. Request(got)' = Request(got)
    BY <2>2 DEF Request
  <2>4. Request(got).method = "PUT" => content_len = Request(got).body
    <3>1. /\ Request(got).body \in Nat /\ content_len = Announced(got)
          /\ Request(got).body > 0 => Request(got).length \/ Request(got).method \in {"POST", "PUT"}
      BY <1>2, RequestFacts DEF Handling
    <3> QED BY <1>2, <3>1 DEF Announced
  <2>5. Finished'
    <3>1. Finished' <=>
            (status_code' \in {200, 201, 206} /\ Request(got)'.method = "PUT" /\ ~Request(got)'.slash
               => Stored(Len(input))' /\ Len(input') = Request(got)'.body)
      BY DEF Finished
    <3>2. PICK n : n = content_len
      OBVIOUS
    <3>3. Stored(n) => Stored(n)'
      BY <2>1, <2>2, <2>3 DEF Stored
    <3>4. Len(input') = n /\ (Stored(n)' => Stored(Len(input))')
      BY <1>3, <2>1, <3>2
    <3> QED BY <1>4, <2>3, <2>4, <3>1, <3>2, <3>3, <3>4
  <2>6. Rooted'
    BY <1>1, <2>1 DEF Rooted
  <2> QED BY <1>1, <1>4, <2>1, <2>5, <2>6, AnswerAtOnce
<1>5. CASE dest # <<>>
  <2>1. Stored(content_len)
    BY <1>2, <1>5 DEF Destined
  <2> QED BY <1>1, <1>4, <1>5, <2>1 DEF ForwardDone
<1>6. CASE dest = <<>>
  <2>1. Request(got).method = "POST"
    BY <1>2, <1>6 DEF Destined
  <2>2. Answered(500, must_close, {}) \/ \E code \in {200, 302}, close \in BOOLEAN : Answered(code, close, {})
    BY <1>6 DEF ForwardDone, CgiReply, send_http_error
  <2> QED BY <1>1, <1>4, <2>1, <2>2
<1> QED BY <1>5, <1>6

-----------------------------------------------------------------------------
(* From one request to the next. *)

\* No request is handled, before or after, and nothing is answered.
LEMMA AnswersIdle ==
    ASSUME Answers, ~Busy, ~Busy', script' = script, parsed' = parsed, replies' = replies, logged' = logged
    PROVE  Answers'
<1>1. Conns' = Conns
  BY SameScript
<1>2. \A c \in Conns : Replied(c)' = Replied(c)
  BY DEF Replied
<1>3. ASSUME NEW c \in Conns
      PROVE  parsed'[c] = Replied(c)' /\ logged'[c] = Without(Replied(c)', <<0, 0>>)
  BY <1>2 DEF Answers
<1> QED BY <1>1, <1>3 DEF Answers

\* What is read of a stream without loss.
LEMMA LinedAll ==
    ASSUME NEW k \in Nat, NEW q \in Nat, buf' \in Seq(Units), q = k + Len(buf'), q <= Len(Stream(cur)'),
           Len(wire'[cur']) = Len(Stream(cur)') - q,
           \A i \in 1 .. Len(buf') : buf'[i] = Stream(cur)'[k + i],
           \A i \in 1 .. Len(wire'[cur']) : wire'[cur'][i] = Stream(cur)'[q + i]
    PROVE  Lined(k, q)'
<1>1. Lined(k, q)' <=>
        /\ q <= Len(Stream(cur)') /\ k + Len(buf') <= q
        /\ \A i \in 1 .. Len(buf') : buf'[i] = Stream(cur)'[k + i]
        /\ Len(wire'[cur']) = Len(Stream(cur)') - q
        /\ \A i \in 1 .. Len(wire'[cur']) : wire'[cur'][i] = Stream(cur)'[q + i]
        /\ k + Len(buf') < q => content_len' >= 0 /\ q <= k + request_len' + content_len'
  BY DEF Lined
<1> QED BY <1>1

LEMMA NewConnectionInv ==
    ASSUME ConnInv, NewConnection
    PROVE  ConnInv'
<1>1. Types /\ Rooted /\ Streams /\ Answers
  BY DEF ConnInv
<1>2. /\ pc = "idle" /\ cur < Len(script) /\ cur' = cur + 1 /\ pc' = "read" /\ buf' = <<>>
      /\ must_close' = FALSE /\ request_len' = 0 /\ consumed_content' = 0 /\ status_code' = -1
      /\ script' = script /\ config' = config /\ fs' = fs /\ wire' = wire /\ content_len' = content_len
      /\ got' = got /\ dest' = dest /\ input' = input /\ edit' = edit
      /\ replies' = replies /\ logged' = logged /\ parsed' = parsed /\ adrift' = adrift
  BY DEF NewConnection, reset_per_request_attributes, historyVars
<1>3. script \in Scripts /\ cur \in Nat /\ Len(script) \in Nat
  BY <1>1, TypesFacts
<1>4. PICK c \in Conns : c = cur'
  BY <1>2, <1>3 DEF Conns
<1>5. c = cur + 1 /\ c > cur
  BY <1>2, <1>3, <1>4
<1>6. Conns' = Conns /\ Known' = Known
  BY <1>2, SameScript
<1>7. Types'
  <2>1. cur' \in 0 .. Len(script) /\ cur' # 0
    BY <1>2, <1>3
  <2>2. buf' \in Seq(Units) /\ Len(buf') <= BufSize /\ request_len' \in 0 .. BufSize
    BY <1>2, ConnAssumption
  <2>3. consumed_content' \in 0 .. IF content_len < 0 THEN 0 ELSE content_len
    BY <1>1, <1>2 DEF Types
  <2>4. adrift' \subseteq 1 .. cur'
    BY <1>1, <1>2, <1>3 DEF Types
  <2>5. must_close' \in BOOLEAN /\ status_code' \in Int
    <3>1. -1 \in Int
      OBVIOUS
    <3>2. FALSE \in BOOLEAN
      OBVIOUS
    <3> QED BY <1>2, <3>1, <3>2, Zenon
  <2>6. /\ script' \in Scripts /\ config' \in Configs /\ wire' \in [Conns -> Seq(Units)]
        /\ content_len' \in Nat \cup {-1} /\ edit' \in {"none", "copied", "removed", "done", "crashed"}
        /\ input' \in Seq(Units) /\ got' \in Known /\ replies' \in [Conns -> Seq(((Nat \X Nat) \X Int))]
        /\ parsed' \in [Conns -> Seq(Known)] /\ logged' \in [Conns -> Seq(Known)]
    BY <1>1, <1>2 DEF Types
  <2> QED BY <1>2, <1>6, <2>1, <2>2, <2>3, <2>4, <2>5, <2>6 DEF Types
<1>8. Rooted'
  BY <1>1, <1>2 DEF Rooted
<1>9. ~Busy /\ ~Busy' /\ pc' # "discard"
  BY <1>2 DEF Busy
<1>10. Answers'
  BY <1>1, <1>2, <1>9, AnswersIdle
<1>11. Streams'
  <2>1. \A x : Stream(x)' = Stream(x)
    BY <1>2, SameScript
  <2>2. ASSUME NEW x \in Conns
        PROVE  /\ x > cur' => wire'[x] = Stream(x)' /\ parsed'[x] = <<>>
               /\ \A i \in 1 .. Len(parsed'[x]) : /\ parsed'[x][i][1] \in {0, x}
                                                  /\ x \notin adrift' => parsed'[x][i] = <<x, i>>
    <3>1. x > cur' => x > cur
      BY <1>2, <1>3 DEF Conns
    <3> QED BY <1>1, <1>2, <2>1, <3>1 DEF Streams
  <2> QED BY <1>6, <1>9, <2>2 DEF Streams
<1>12. ReadOk'
  <2>1. wire[c] = Stream(c) /\ parsed[c] = <<>> /\ wire[c] \in Seq(Units)
    BY <1>1, <1>5 DEF Streams, Types
  <2>2. Stream(c) \in Seq(Units) /\ Begin(c, 1) = 0 /\ Len(script[c]) \in Nat
    BY <1>3, Layout
  <2>3. Stream(cur)' = Stream(c) /\ Begin(cur, 1)' = Begin(c, 1)
    <3>1. /\ \A x : Stream(x)' = Stream(x)
          /\ \A x, n : Begin(x, n)' = Begin(x, n)
      BY <1>2, SameScript
    <3>2. Stream(cur)' = Stream(c)' /\ Begin(cur, 1)' = Begin(c, 1)'
      BY <1>4
    <3> QED BY <3>1, <3>2
  <2>4. Lined(0, 0 + Len(<<>>))'
    <3> DEFINE b == <<>>
               S == Stream(c)
    <3>1. b \in Seq(Units) /\ Len(b) = 0 /\ S \in Seq(Units) /\ Len(S) \in Nat /\ buf' = b
          /\ wire'[cur'] = S /\ Stream(cur)' = S
      BY <1>2, <1>4, <2>1, <2>2, <2>3
    <3> HIDE DEF b, S
    <3>5. PICK L \in Nat, x \in Nat : L = Len(S) /\ x = 0
      BY <3>1
    <3>2. PICK k \in Nat, q \in Nat : k = 0 /\ q = k + Len(b) /\ L = Len(S)
      <4>1. x = 0 /\ x = x + Len(b)
        BY <3>1, <3>5
      <4> QED BY <3>5, <4>1
    <3>3. /\ q <= L /\ Len(S) = L - q
          /\ \A i \in 1 .. Len(b) : b[i] = S[k + i]
          /\ \A i \in 1 .. Len(S) : S[i] = S[q + i]
      BY <3>1, <3>2
    <3>4. Lined(k, q)'
      <4>1. /\ buf' \in Seq(Units) /\ q = k + Len(buf') /\ q <= Len(Stream(cur)')
            /\ Len(wire'[cur']) = Len(Stream(cur)') - q
            /\ \A i \in 1 .. Len(buf') : buf'[i] = Stream(cur)'[k + i]
            /\ \A i \in 1 .. Len(wire'[cur']) : wire'[cur'][i] = Stream(cur)'[q + i]
        <5>1. q = k + Len(b) /\ L = Len(S)
          BY <3>2
        <5> QED BY <3>1, <3>3, <5>1
      <4> QED BY <3>2, <4>1, LinedAll
    <3> QED BY <3>2, <3>4 DEF b
  <2>5. 0 \in Places' /\ Lined(0, 0 + Len(buf))'
    BY <1>2, <2>2, <2>3, <2>4 DEF Places
  <2>6. Len(parsed[cur])' = 0 /\ 0 <= Len(script[cur])' /\ 0 = Begin(cur, 1)'
    BY <1>2, <1>4, <2>1, <2>2, <2>3
  <2>7. Begin(cur, Len(parsed[cur]) + 1)' = Begin(cur, 1)'
    BY <2>6
  <2> QED BY <1>2, <2>5, <2>6, <2>7 DEF ReadOk
<1>13. Flow'
  BY <1>2, <1>12 DEF Flow
<1> QED BY <1>7, <1>8, <1>10, <1>11, <1>13 DEF ConnInv

\* Reading goes on where it was: k is where the buffer begins in the stream.
LEMMA ReadAt ==
    ASSUME Types, pc # "idle", ReadOk, NEW b \in Seq(Units), NEW w \in Seq(Units),
           \A k \in Nat : Lined(k, k + Len(buf)) =>
               /\ k + Len(b) <= Len(Stream(cur)) /\ Len(w) = Len(Stream(cur)) - (k + Len(b))
               /\ \A i \in 1 .. Len(b) : b[i] = Stream(cur)[k + i]
               /\ \A i \in 1 .. Len(w) : w[i] = Stream(cur)[k + Len(b) + i],
           script' = script, cur' = cur, parsed' = parsed, adrift' = adrift,
           consumed_content' = consumed_content, status_code' = status_code, buf' = b, wire'[cur] = w
    PROVE  ReadOk'
<1>1. PICK k \in Places : /\ Lined(k, k + Len(buf))
                          /\ cur \notin adrift => /\ Len(parsed[cur]) <= Len(script[cur])
                                                  /\ k = Begin(cur, Len(parsed[cur]) + 1)
  BY DEF ReadOk
<1>2. PICK S : S = Stream(cur)
  OBVIOUS
<1>3. S \in Seq(Units)
  BY <1>2, TypesFacts, Layout
<1>4. PICK L \in Nat : L = Len(S)
  BY <1>3
<1>5. k \in Nat /\ k \in 0 .. L
  BY <1>1, <1>2, <1>4 DEF Places
<1>6. /\ k + Len(b) <= L /\ Len(w) = L - (k + Len(b))
      /\ \A i \in 1 .. Len(b) : b[i] = S[k + i]
      /\ \A i \in 1 .. Len(w) : w[i] = S[k + Len(b) + i]
  BY <1>1, <1>2, <1>4, <1>5
<1>7. Stream(cur)' = S /\ \A n : Begin(cur, n)' = Begin(cur, n)
  <2>1. (\A x : Stream(x)' = Stream(x)) /\ (\A x, n : Begin(x, n)' = Begin(x, n))
    BY SameScript
  <2> QED BY <1>2, <2>1
<1>15. PICK q \in Nat : q = k + Len(b)
  BY <1>5
<1>8. Lined(k, q)'
  <2>1. buf' = b /\ wire'[cur'] = w /\ Stream(cur)' = S /\ Len(S) = L
    BY <1>4, <1>7
  <2>2. /\ q <= L /\ Len(w) = L - q
        /\ \A i \in 1 .. Len(b) : b[i] = S[k + i]
        /\ \A i \in 1 .. Len(w) : w[i] = S[q + i]
    BY <1>6, <1>15
  <2>3. /\ buf' \in Seq(Units) /\ q = k + Len(buf') /\ q <= Len(Stream(cur)')
        /\ Len(wire'[cur']) = Len(Stream(cur)') - q
        /\ \A i \in 1 .. Len(buf') : buf'[i] = Stream(cur)'[k + i]
        /\ \A i \in 1 .. Len(wire'[cur']) : wire'[cur'][i] = Stream(cur)'[q + i]
    BY <1>4, <1>15, <2>1, <2>2
  <2> QED BY <1>5, <1>15, <2>3, LinedAll
<1>9. k \in Places'
  BY <1>4, <1>5, <1>7 DEF Places
<1>10. PICK n : n = Len(parsed[cur]) + 1
  OBVIOUS
<1>11. cur' \notin adrift' => Len(parsed[cur])' <= Len(script[cur])' /\ k = Begin(cur, Len(parsed[cur]) + 1)'
  <2>1. (Len(parsed[cur]) + 1)' = n /\ Len(parsed[cur])' = Len(parsed[cur]) /\ Len(script[cur])' = Len(script[cur])
    BY <1>10
  <2>2. Begin(cur, Len(parsed[cur]) + 1)' = Begin(cur, n)'
    BY <2>1
  <2> QED BY <1>1, <1>7, <1>10, <2>1, <2>2
<1>12. Lined(k, k + Len(buf))'
  <2>1. (k + Len(buf))' = q
    BY <1>15
  <2> QED BY <1>8, <2>1
<1>13. ReadOk' <=> /\ consumed_content' = 0 /\ status_code' = -1
                   /\ \E x \in Places' :
                        /\ Lined(x, x + Len(buf))'
                        /\ cur' \notin adrift' => /\ Len(parsed[cur])' <= Len(script[cur])'
                                                  /\ x = Begin(cur, Len(parsed[cur]) + 1)'
  BY DEF ReadOk
<1>14. consumed_content' = 0 /\ status_code' = -1
  BY DEF ReadOk
<1> QED BY <1>9, <1>11, <1>12, <1>13, <1>14

LEMMA ReadKept ==
    ASSUME Types, pc # "idle", ReadOk, script' = script, cur' = cur, parsed' = parsed, adrift' = adrift,
           consumed_content' = consumed_content, status_code' = status_code, buf' = buf, wire' = wire
    PROVE  ReadOk'
<1>1. buf \in Seq(Units) /\ wire[cur] \in Seq(Units) /\ Len(buf) \in Nat
  BY TypesFacts DEF Types
<1>2. PICK b, w : b = buf /\ w = wire[cur]
  OBVIOUS
<1>3. \A k \in Nat : Lined(k, k + Len(buf)) =>
               /\ k + Len(b) <= Len(Stream(cur)) /\ Len(w) = Len(Stream(cur)) - (k + Len(b))
               /\ \A i \in 1 .. Len(b) : b[i] = Stream(cur)[k + i]
               /\ \A i \in 1 .. Len(w) : w[i] = Stream(cur)[k + Len(b) + i]
  BY <1>2 DEF Lined
<1> QED BY <1>1, <1>2, <1>3, ReadAt

LEMMA ReadMore ==
    ASSUME Types, pc # "idle", ReadOk, NEW n \in 0 .. Len(wire[cur]), buf' = buf \o SubSeq(wire[cur], 1, n),
           wire' = [wire EXCEPT ![cur] = Drop(@, n)],
           script' = script, cur' = cur, parsed' = parsed, adrift' = adrift,
           consumed_content' = consumed_content, status_code' = status_code
    PROVE  /\ ReadOk' /\ buf' \in Seq(Units) /\ Len(buf') = Len(buf) + n
           /\ wire' \in [Conns -> Seq(Units)] /\ \A c \in Conns : c > cur => wire'[c] = wire[c]
<1>1. /\ cur \in Conns /\ cur \in Nat /\ script \in Scripts /\ buf \in Seq(Units)
      /\ wire \in [Conns -> Seq(Units)] /\ wire[cur] \in Seq(Units)
  BY TypesFacts DEF Types
<1>2. PICK x, v, b, w : x = wire[cur] /\ v = SubSeq(x, 1, n) /\ b = buf \o v /\ w = Drop(x, n)
  OBVIOUS
<1>3. x \in Seq(Units) /\ Len(x) \in Nat /\ n \in Nat /\ n <= Len(x)
  BY <1>1, <1>2
<1>4. v \in Seq(Units) /\ Len(v) = n /\ \A i \in 1 .. n : v[i] = x[i]
  BY <1>2, <1>3
<1>5. w \in Seq(Units) /\ Len(w) = Len(x) - n /\ \A i \in 1 .. Len(w) : w[i] = x[n + i]
  <2>1. x \in Seq(Units) /\ n \in Nat /\ ~(Len(x) < n) /\ w = Drop(x, n)
    BY <1>2, <1>3
  <2> QED BY <2>1, TakeDrop
<1>6. /\ b \in Seq(Units) /\ Len(b) = Len(buf) + n /\ Len(buf) \in Nat
      /\ \A i \in 1 .. Len(buf) : b[i] = buf[i]
      /\ \A i \in 1 .. n : b[Len(buf) + i] = x[i]
  <2> DEFINE U == Units
  <2>1. buf \in Seq(U) /\ v \in Seq(U)
    BY <1>1, <1>4
  <2> HIDE DEF U
  <2>2. /\ buf \o v \in Seq(U) /\ Len(buf \o v) = Len(buf) + Len(v) /\ Len(buf) \in Nat
        /\ \A i \in 1 .. Len(buf) : (buf \o v)[i] = buf[i]
        /\ \A i \in 1 .. Len(v) : (buf \o v)[Len(buf) + i] = v[i]
    BY <2>1, Joined
  <2> QED BY <1>2, <1>4, <2>2 DEF U
<1>7. buf' = b /\ wire' = [wire EXCEPT ![cur] = w]
  BY <1>2
<1>8. wire'[cur] = w /\ wire' \in [Conns -> Seq(Units)] /\ \A c \in Conns : c > cur => wire'[c] = wire[c]
  BY <1>1, <1>5, <1>7 DEF Conns
<1>9. ASSUME NEW k \in Nat, Lined(k, k + Len(buf))
      PROVE  /\ k + Len(b) <= Len(Stream(cur)) /\ Len(w) = Len(Stream(cur)) - (k + Len(b))
             /\ \A i \in 1 .. Len(b) : b[i] = Stream(cur)[k + i]
             /\ \A i \in 1 .. Len(w) : w[i] = Stream(cur)[k + Len(b) + i]
  <2>1. PICK S, l : S = Stream(cur) /\ l = Len(buf)
    OBVIOUS
  <2>2. S \in Seq(Units) /\ Len(S) \in Nat /\ l \in Nat
    BY <1>1, <1>6, <2>1, Layout
  <2>3. /\ k + l <= Len(S) /\ Len(x) = Len(S) - (k + l)
        /\ \A i \in 1 .. l : buf[i] = S[k + i]
        /\ \A i \in 1 .. Len(x) : x[i] = S[k + l + i]
    BY <1>2, <1>9, <2>1 DEF Lined
  <2>4. k + Len(b) <= Len(S) /\ Len(w) = Len(S) - (k + Len(b))
    BY <1>3, <1>5, <1>6, <2>1, <2>2, <2>3
  <2>5. ASSUME NEW i \in 1 .. Len(b)
        PROVE  b[i] = S[k + i]
    <3>1. CASE i <= l
      <4>1. i \in 1 .. l
        BY <2>2, <3>1
      <4> QED BY <1>6, <2>1, <2>3, <4>1
    <3>2. CASE i > l
      <4>3. i \in 1 .. l + n /\ n \in Nat
        BY <1>3, <1>6, <2>1
      <4>4. i - l \in 1 .. n
        BY <2>2, <3>2, <4>3
      <4>1. PICK j \in 1 .. n : j = i - l
        BY <4>4
      <4>2. i = l + j /\ k + i = k + l + j /\ j \in 1 .. Len(x)
        BY <1>3, <1>6, <2>1, <2>2, <4>1
      <4>5. b[i] = x[j] /\ x[j] = S[k + l + j]
        BY <1>6, <2>1, <2>3, <4>1, <4>2
      <4> QED BY <4>2, <4>5
    <3>3. i <= l \/ i > l
      BY <2>2
    <3> QED BY <3>1, <3>2, <3>3
  <2>6. ASSUME NEW i \in 1 .. Len(w)
        PROVE  w[i] = S[k + Len(b) + i]
    <3>1. PICK j \in 1 .. Len(x) : j = n + i
      BY <1>3, <1>5
    <3>2. k + Len(b) + i = k + l + j
      BY <1>3, <1>6, <2>1, <2>2, <3>1
    <3>3. w[i] = x[j] /\ x[j] = S[k + l + j]
      BY <1>5, <2>3, <3>1
    <3> QED BY <3>2, <3>3
  <2> QED BY <2>1, <2>4, <2>5, <2>6
<1>10. ReadOk'
  <2>1. \A k \in Nat : Lined(k, k + Len(buf)) =>
          /\ k + Len(b) <= Len(Stream(cur)) /\ Len(w) = Len(Stream(cur)) - (k + Len(b))
          /\ \A i \in 1 .. Len(b) : b[i] = Stream(cur)[k + i]
          /\ \A i \in 1 .. Len(w) : w[i] = Stream(cur)[k + Len(b) + i]
    BY <1>9
  <2> QED BY <1>5, <1>6, <1>7, <1>8, <2>1, ReadAt
<1> QED BY <1>6, <1>7, <1>8, <1>10

LEMMA ReadRequestInv ==
    ASSUME ConnInv, read_request
    PROVE  ConnInv'
<1>1. /\ Types /\ Rooted /\ Flow /\ Streams /\ Answers /\ pc = "read" /\ ReadOk /\ ~Busy
  BY DEF ConnInv, read_request, Flow, Busy
<1>2. /\ script' = script /\ config' = config /\ fs' = fs /\ cur' = cur /\ content_len' = content_len
      /\ consumed_content' = consumed_content /\ must_close' = must_close /\ got' = got /\ dest' = dest
      /\ input' = input /\ logged' = logged /\ parsed' = parsed /\ adrift' = adrift /\ edit' = edit
  BY DEF read_request
<1>3. cur \in Conns /\ cur \in Nat /\ cur # 0 /\ script \in Scripts
  BY <1>1, TypesFacts DEF Conns
<1>4. Conns' = Conns /\ Known' = Known
  BY <1>2, SameScript
<1>5. Rooted'
  BY <1>1, <1>2 DEF Rooted
<1>6. ASSUME buf' \in Seq(Units), Len(buf') <= BufSize, request_len' \in 0 .. BufSize, status_code' \in Int,
             wire' \in [Conns -> Seq(Units)], \A c \in Conns : c > cur => wire'[c] = wire[c],
             replies' \in [Conns -> Seq((Nat \X Nat) \X Int)], Answers',
             pc' = "close" \/ (pc' = "read" /\ ReadOk') \/ (pc' = "parse" /\ ParseOk')
      PROVE  ConnInv'
  <2>1. Types'
    BY <1>1, <1>2, <1>3, <1>4, <1>6 DEF Types
  <2>2. ~Busy' /\ pc' # "discard"
    BY <1>6 DEF Busy
  <2>3. Streams'
    BY <1>1, <1>2, <1>6, <2>2, StreamsKept
  <2>4. Flow'
    BY <1>6, <2>2 DEF Flow, Busy
  <2> QED BY <1>5, <1>6, <2>1, <2>3, <2>4 DEF ConnInv
<1>7. /\ buf \in Seq(Units) /\ Len(buf) <= BufSize /\ Len(buf) \in Nat /\ BufSize \in Nat
      /\ request_len \in 0 .. BufSize /\ status_code \in Int /\ wire \in [Conns -> Seq(Units)]
      /\ wire[cur] \in Seq(Units) /\ Len(wire[cur]) \in Nat
      /\ replies \in [Conns -> Seq((Nat \X Nat) \X Int)]
  BY <1>1, <1>3, ConnAssumption DEF Types
<1>8. ASSUME replies' = replies, pc' \in {"read", "parse", "close"}
      PROVE  Answers'
  <2>1. ~Busy'
    BY <1>8 DEF Busy
  <2> QED BY <1>1, <1>2, <1>8, <2>1, AnswersIdle
<1>9. CASE /\ get_request_len(buf) > 0 /\ request_len' = get_request_len(buf) /\ pc' = "parse"
           /\ buf' = buf /\ wire' = wire /\ status_code' = status_code /\ replies' = replies
  <2>1. get_request_len(buf) \in 0 .. BufSize
    BY <1>7, HeadEnd
  <2>2. ReadOk'
    BY <1>1, <1>2, <1>9, ReadKept
  <2>3. ParseOk'
    <3>1. get_request_len(buf)' = get_request_len(buf)
      BY <1>9
    <3> QED BY <1>9, <2>2, <3>1 DEF ParseOk
  <2> QED BY <1>6, <1>7, <1>8, <1>9, <2>1, <2>3
<1>10. CASE /\ Len(buf) < BufSize
            /\ \E n \in Arriving(BufSize - Len(buf)) :
                   /\ buf' = buf \o SubSeq(wire[cur], 1, n)
                   /\ wire' = [wire EXCEPT ![cur] = Drop(@, n)]
            /\ pc' = pc /\ request_len' = request_len /\ status_code' = status_code /\ replies' = replies
  <2>1. PICK n \in Arriving(BufSize - Len(buf)) :
          buf' = buf \o SubSeq(wire[cur], 1, n) /\ wire' = [wire EXCEPT ![cur] = Drop(@, n)]
    BY <1>10
  <2>2. n \in 0 .. Len(wire[cur]) /\ n <= BufSize - Len(buf) /\ n \in Nat
    <3> DEFINE l == Len(wire[cur])
               r == BufSize - Len(buf)
    <3>1. n \in 1 .. IF l < r THEN l ELSE r
      BY <2>1 DEF Arriving
    <3>2. l \in Nat /\ r \in Int
      BY <1>7
    <3> HIDE DEF l, r
    <3>3. n \in 0 .. l /\ n <= r /\ n \in Nat
      BY <3>1, <3>2
    <3> QED BY <3>3 DEF l, r
  <2>3. /\ ReadOk' /\ buf' \in Seq(Units) /\ Len(buf') = Len(buf) + n
        /\ wire' \in [Conns -> Seq(Units)] /\ \A c \in Conns : c > cur => wire'[c] = wire[c]
    BY <1>1, <1>2, <1>10, <2>1, <2>2, ReadMore
  <2>4. Len(buf') <= BufSize
    BY <1>7, <2>2, <2>3
  <2> QED BY <1>1, <1>6, <1>7, <1>8, <1>10, <2>3, <2>4
<1>11. CASE /\ pc' = "close" /\ buf' = buf /\ wire' = wire /\ request_len' = request_len
            /\ status_code' = status_code /\ replies' = replies
  BY <1>6, <1>7, <1>8, <1>11
<1>12. CASE /\ status_code' = 413
            /\ replies' = [replies EXCEPT ![cur] = Append(@, <<<<cur, 0>>, 413>>)]
            /\ pc' = "close" /\ buf' = buf /\ wire' = wire /\ request_len' = request_len
  <2>1. PICK id \in Nat \X Nat : id = <<cur, 0>>
    BY <1>3
  <2>2. /\ replies' \in [Conns' -> Seq((Nat \X Nat) \X Int)]
        /\ \A c \in Conns : c # cur => replies'[c] = replies[c]
        /\ Replied(cur)' = Replied(cur)
    <3>4. PICK status \in Int : status = 413
      OBVIOUS
    <3>1. status \in Int /\ replies' = [replies EXCEPT ![cur] = Append(@, <<id, status>>)]
      BY <1>12, <2>1, <3>4
    <3>3. Types /\ cur \in Conns /\ script' = script /\ cur' = cur /\ id \in Nat \X Nat
      BY <1>1, <1>2, <1>3, <2>1
    <3>2. /\ replies' \in [Conns' -> Seq((Nat \X Nat) \X Int)]
          /\ \A c \in Conns : c # cur => replies'[c] = replies[c]
          /\ Replied(cur)' = IF id = <<cur, 0>> THEN Replied(cur) ELSE Append(Replied(cur), id)
      BY <3>1, <3>3, ReplyFacts
    <3> QED BY <2>1, <3>2
  <2>3. ~Busy'
    BY <1>12 DEF Busy
  <2>4. Answers'
    <3>1. parsed[cur] = Replied(cur) /\ logged[cur] = Without(Replied(cur), <<0, 0>>)
      BY <1>1, <1>3 DEF Answers
    <3>2. parsed'[cur] = Replied(cur)' /\ logged'[cur] = Without(Replied(cur)', <<0, 0>>)
      BY <1>2, <2>2, <3>1
    <3> QED BY <1>1, <1>2, <2>2, <2>3, <3>2, AnswersAt
  <2> QED BY <1>4, <1>6, <1>7, <1>12, <2>2, <2>4
<1> QED BY <1>9, <1>10, <1>11, <1>12 DEF read_request

LEMMA LinedKept ==
    ASSUME Types, NEW k \in Nat, NEW q \in Nat, q = k + Len(buf), Lined(k, q),
           script' = script, cur' = cur, buf' = buf, wire' = wire
    PROVE  Lined(k, q)'
<1>1. Stream(cur)' = Stream(cur)
  <2>1. \A c : Stream(c)' = Stream(c)
    BY SameScript
  <2> QED BY <2>1
<1>2. buf \in Seq(Units)
  BY DEF Types
<1>3. /\ q <= Len(Stream(cur)) /\ \A i \in 1 .. Len(buf) : buf[i] = Stream(cur)[k + i]
      /\ Len(wire[cur]) = Len(Stream(cur)) - q
      /\ \A i \in 1 .. Len(wire[cur]) : wire[cur][i] = Stream(cur)[q + i]
  BY DEF Lined
<1>4. wire'[cur'] = wire[cur]
  OBVIOUS
<1>5. /\ buf' \in Seq(Units) /\ q = k + Len(buf') /\ q <= Len(Stream(cur)')
      /\ Len(wire'[cur']) = Len(Stream(cur)') - q
      /\ \A i \in 1 .. Len(buf') : buf'[i] = Stream(cur)'[k + i]
      /\ \A i \in 1 .. Len(wire'[cur']) : wire'[cur'][i] = Stream(cur)'[q + i]
  BY <1>1, <1>2, <1>3, <1>4
<1> QED BY <1>5, LinedAll

\* The head in the buffer is the next one, unless reading is adrift.
LEMMA ParsedNext ==
    ASSUME Types, pc # "idle", ParseOk, NEW id, id = Parsed(SubSeq(buf, 1, request_len))
    PROVE  /\ id \in Known /\ request_len \in 1 .. Len(buf)
           /\ id # <<0, 0>> => /\ id \in Ids /\ id[1] = cur /\ request_len = Request(id).head
                               /\ Lined(Begin(cur, id[2]), Begin(cur, id[2]) + Len(buf))
           /\ cur \notin adrift => id = <<cur, Len(parsed[cur]) + 1>> /\ id \in Ids
<1> DEFINE r == request_len
           b == SubSeq(buf, 1, r)
           L == Len(Stream(cur))
           n == Len(parsed[cur]) + 1
<1>1. /\ script \in Scripts /\ cur \in Conns /\ buf \in Seq(Units) /\ Len(buf) \in Nat
      /\ parsed[cur] \in Seq(Known) /\ n \in Nat /\ n >= 1
  <2>1. script \in Scripts /\ cur \in Conns
    BY TypesFacts
  <2>2. buf \in Seq(Units) /\ parsed \in [Conns -> Seq(Known)]
    BY DEF Types
  <2> QED BY <2>1, <2>2
<1>2. r = get_request_len(buf) /\ r \in 1 .. Len(buf) /\ buf[r][3] = -1
  <2>1. r = get_request_len(buf) /\ r > 0
    BY DEF ParseOk
  <2>2. get_request_len(buf) \in 0 .. Len(buf)
    BY <1>1, HeadEnd
  <2>3. buf[r][3] = -1
    BY <1>1, <2>1, HeadEnd
  <2> QED BY <1>1, <2>1, <2>2, <2>3
<1>3. PICK k \in Places : /\ Lined(k, k + Len(buf))
                          /\ cur \notin adrift => Len(parsed[cur]) <= Len(script[cur]) /\ k = Begin(cur, n)
  BY DEF ParseOk, ReadOk
<1>4. /\ L \in Nat /\ k \in Nat /\ k + Len(buf) <= L
      /\ \A i \in 1 .. Len(buf) : buf[i] = Stream(cur)[k + i]
  <2>1. L \in Nat
    BY <1>1, Layout
  <2> QED BY <1>3, <2>1 DEF Lined, Places
<1>5. id = Parsed(b) /\ id \in Known
  BY <1>1, ParsedFacts
<1>6. b \in Seq(Units) /\ Len(b) = r /\ \A i \in 1 .. r : b[i] = buf[i]
  BY <1>1, <1>2
<1> HIDE DEF b, L
<1>7. ASSUME id # <<0, 0>>
      PROVE  /\ id \in Ids /\ id[1] = cur /\ r = Request(id).head
             /\ Lined(Begin(cur, id[2]), Begin(cur, id[2]) + Len(buf))
  <2>1. id \in Ids /\ ReqHead(id) = b
    BY <1>1, <1>5, <1>7, ParsedFacts
  <2>2. /\ Len(ReqHead(id)) = Request(id).head
        /\ \A i \in 1 .. Request(id).head : ReqHead(id)[i] = Unit(id, i)
    BY <1>1, <2>1, HeadFacts
  <2>3. r = Request(id).head
    BY <1>6, <2>1, <2>2
  <2>4. Stream(cur)[k + r] = Unit(id, r)
    <3>1. r \in 1 .. r /\ r \in 1 .. Len(buf)
      BY <1>2
    <3> QED BY <1>4, <1>6, <2>1, <2>2, <2>3, <3>1
  <2>5. k + r <= L
    BY <1>1, <1>2, <1>4
  <2>6. id[1] = cur /\ k = Begin(cur, id[2])
    BY <1>1, <1>4, <2>1, <2>3, <2>4, <2>5, Aligned DEF L
  <2> QED BY <1>3, <2>1, <2>3, <2>6
<1>8. ASSUME cur \notin adrift
      PROVE  id = <<cur, n>> /\ id \in Ids
  <2>1. k = Begin(cur, n) /\ Len(script[cur]) \in Nat /\ n \in 1 .. Len(script[cur]) + 1
    <3>1. Len(script[cur]) \in Nat
      BY <1>1, Layout
    <3> QED BY <1>1, <1>3, <1>8, <3>1
  <2>2. n <= Len(script[cur]) /\ b = ReqHead(<<cur, n>>)
    <3>1. PICK m \in 1 .. Len(script[cur]) + 1 : m = n
      BY <2>1
    <3>2. /\ Begin(cur, m) + Len(buf) <= Len(Stream(cur)) /\ get_request_len(buf) > 0
          /\ \A i \in 1 .. Len(buf) : buf[i] = Stream(cur)[Begin(cur, m) + i]
      BY <1>2, <1>4, <2>1, <3>1 DEF L
    <3>3. m <= Len(script[cur]) /\ SubSeq(buf, 1, get_request_len(buf)) = ReqHead(<<cur, m>>)
      BY <1>1, <3>1, <3>2, NextHead
    <3> QED BY <1>2, <3>1, <3>3 DEF b
  <2>3. <<cur, n>> \in Ids
    <3>1. n \in 1 .. Len(script[cur])
      BY <2>1, <2>2
    <3> QED BY <1>1, <3>1, Layout
  <2> QED BY <1>1, <1>5, <2>2, <2>3, ParsedFacts
<1> QED BY <1>2, <1>5, <1>7, <1>8

\* A request is parsed.
LEMMA StreamsParsed ==
    ASSUME Types, Streams, cur \in Conns, script' = script, cur' = cur, wire' = wire, adrift' = adrift,
           NEW id \in Known, id[1] \in {0, cur}, cur \notin adrift => id = <<cur, Len(parsed[cur]) + 1>> /\ id \in Ids,
           parsed' = [parsed EXCEPT ![cur] = Append(@, id)], got' = id
    PROVE  /\ Streams' /\ parsed' \in [Conns -> Seq(Known)]
           /\ parsed'[cur] = Append(parsed[cur], id) /\ \A c \in Conns : c # cur => parsed'[c] = parsed[c]
<1>1. parsed \in [Conns -> Seq(Known)] /\ parsed[cur] \in Seq(Known) /\ Append(parsed[cur], id) \in Seq(Known)
  BY DEF Types
<1>2. /\ parsed' \in [Conns -> Seq(Known)] /\ parsed'[cur] = Append(parsed[cur], id)
      /\ \A c \in Conns : c # cur => parsed'[c] = parsed[c]
  BY <1>1
<1>3. /\ Conns' = Conns /\ Ids' = Ids /\ \A c : Stream(c)' = Stream(c)
  BY SameScript
<1>4. PICK s, n : s = parsed[cur] /\ n = Len(s)
  OBVIOUS
<1>5. /\ n \in Nat /\ Len(parsed'[cur]) = n + 1 /\ parsed'[cur][n + 1] = id
      /\ \A i \in 1 .. n : parsed'[cur][i] = s[i]
  BY <1>1, <1>2, <1>4
<1>6. ASSUME NEW c \in Conns
      PROVE  /\ c > cur' => wire'[c] = Stream(c)' /\ parsed'[c] = <<>>
             /\ \A i \in 1 .. Len(parsed'[c]) : /\ parsed'[c][i][1] \in {0, c}
                                                /\ c \notin adrift' => parsed'[c][i] = <<c, i>>
             /\ c = cur' /\ c \notin adrift' /\ (Busy' \/ pc' = "discard") =>
                  got' = <<c, Len(parsed'[c])>> /\ got' \in Ids'
  <2>1. CASE c # cur
    BY <1>2, <1>3, <2>1 DEF Streams
  <2>2. CASE c = cur
    <3>1. ~(c > cur')
      BY <2>2, TypesFacts
    <3>2. ASSUME NEW i \in 1 .. n + 1
          PROVE  parsed'[cur][i][1] \in {0, cur} /\ (cur \notin adrift => parsed'[cur][i] = <<cur, i>>)
      <4>1. CASE i \in 1 .. n
        <5>1. s[i][1] \in {0, cur} /\ (cur \notin adrift => s[i] = <<cur, i>>)
          BY <1>4, <4>1 DEF Streams
        <5> QED BY <1>5, <4>1, <5>1
      <4>2. CASE i = n + 1
        BY <1>4, <1>5, <4>2
      <4>3. i \in 1 .. n \/ i = n + 1
        BY <1>5
      <4> QED BY <4>1, <4>2, <4>3
    <3>3. cur \notin adrift => got' = <<cur, n + 1>> /\ got' \in Ids
      BY <1>4
    <3> QED BY <1>3, <1>5, <2>2, <3>1, <3>2, <3>3
  <2> QED BY <2>1, <2>2
<1>7. Streams'
  BY <1>3, <1>6 DEF Streams
<1> QED BY <1>2, <1>7

LEMMA ParseRequestInv ==
    ASSUME ConnInv, ParseRequest
    PROVE  ConnInv'
<1> DEFINE zero == <<0, 0>>
<1>1. /\ Types /\ Rooted /\ Flow /\ Streams /\ Answers /\ pc = "parse" /\ ParseOk /\ ~Busy
  BY DEF ConnInv, ParseRequest, Flow, Busy
<1>2. PICK id : id = Parsed(SubSeq(buf, 1, request_len))
  OBVIOUS
<1>3. /\ got' = id /\ input' = <<>> /\ parsed' = [parsed EXCEPT ![cur] = Append(@, id)]
      /\ script' = script /\ config' = config /\ fs' = fs /\ wire' = wire /\ cur' = cur /\ buf' = buf
      /\ request_len' = request_len /\ consumed_content' = consumed_content /\ dest' = dest
      /\ adrift' = adrift /\ edit' = edit
  BY <1>2 DEF ParseRequest
<1>4. /\ id \in Known /\ request_len \in 1 .. Len(buf)
      /\ id # zero => /\ id \in Ids /\ id[1] = cur /\ request_len = Request(id).head
                      /\ Lined(Begin(cur, id[2]), Begin(cur, id[2]) + Len(buf))
      /\ cur \notin adrift => id = <<cur, Len(parsed[cur]) + 1>> /\ id \in Ids
  BY <1>1, <1>2, ParsedNext
<1>5. /\ cur \in Conns /\ cur \in Nat /\ cur # 0 /\ script \in Scripts /\ id \in Nat \X Nat /\ Len(buf) \in Nat
      /\ zero \in Known /\ zero \in Nat \X Nat
  BY <1>1, <1>4, TypesFacts DEF Conns, Known, Types
<1>6. /\ Streams' /\ parsed' \in [Conns -> Seq(Known)] /\ parsed'[cur] = Append(parsed[cur], id)
      /\ \A c \in Conns : c # cur => parsed'[c] = parsed[c]
  <2>1. id[1] \in {0, cur}
    BY <1>4
  <2>2. cur \notin adrift => id = <<cur, Len(parsed[cur]) + 1>> /\ id \in Ids
    BY <1>4
  <2> QED BY <1>1, <1>3, <1>4, <1>5, <2>1, <2>2, StreamsParsed
<1>7. Conns' = Conns /\ Known' = Known /\ Ids' = Ids /\ (\A x : Request(x)' = Request(x) /\ Announced(x)' = Announced(x))
      /\ (\A c, n : Begin(c, n)' = Begin(c, n)) /\ Places' = Places
  <2>1. \A x : Stream(x)' = Stream(x)
    BY <1>3, SameScript
  <2>2. Stream(cur)' = Stream(cur)
    BY <1>3, <2>1
  <2> QED BY <1>3, <2>2, SameScript DEF Places
<1>8. Rooted'
  BY <1>1, <1>3 DEF Rooted
<1>9. /\ consumed_content = 0 /\ status_code = -1
      /\ \E k \in Places : Lined(k, k + Len(buf))
  BY <1>1 DEF ParseOk, ReadOk
<1>10. ASSUME NEW k \in Nat, Lined(k, k + Len(buf))
       PROVE  \E q \in Places' : Lined(k, q)' /\ q = k + Len(buf)
  <2>1. PICK q \in Nat : q = k + Len(buf)
    BY <1>5
  <2>2. Lined(k, q)'
    BY <1>1, <1>3, <1>10, <2>1, LinedKept
  <2>3. q \in Places
    BY <1>10, <2>1 DEF Lined, Places
  <2> QED BY <1>7, <2>1, <2>2, <2>3
<1>11. parsed[cur] = Replied(cur) /\ logged[cur] = Without(Replied(cur), zero)
  BY <1>1, <1>5 DEF Answers
<1>12. ASSUME content_len' \in Nat \cup {-1}, must_close' \in BOOLEAN, status_code' \in Int,
              pc' \in {"handle", "discard"}, replies' \in [Conns -> Seq((Nat \X Nat) \X Int)],
              logged' \in [Conns -> Seq(Known)], Answers', Flow'
       PROVE  ConnInv'
  <2>1. input' \in Seq(Units) /\ consumed_content' \in 0 .. IF content_len' < 0 THEN 0 ELSE content_len'
    <3>1. consumed_content' = 0 /\ input' = <<>>
      BY <1>3, <1>9
    <3> QED BY <1>12, <3>1
  <2>2. Types'
    BY <1>1, <1>3, <1>4, <1>5, <1>6, <1>7, <1>12, <2>1 DEF Types
  <2> QED BY <1>6, <1>8, <1>12, <2>2 DEF ConnInv
<1> HIDE DEF zero
<1>13. ASSUME NEW status \in {400, 505}, Reply(id, status), pc' = "discard"
       PROVE  /\ status_code' = status /\ replies' \in [Conns -> Seq((Nat \X Nat) \X Int)]
              /\ \A c \in Conns : c # cur => replies'[c] = replies[c]
              /\ Replied(cur) \in Seq(Nat \X Nat) /\ Replied(cur)' = Append(Replied(cur), id) /\ ~Busy'
  <2>1. status_code' = status /\ status \in Int
    BY <1>13 DEF Reply, Noted
  <2>2. replies' = [replies EXCEPT ![cur] = Append(@, <<id, status>>)]
    BY <1>13 DEF Reply
  <2>3. id # <<cur, 0>>
    <3>1. id # zero => id[2] # 0
      BY <1>4, <1>5, RequestFacts
    <3> QED BY <1>5, <3>1 DEF zero
  <2>4. /\ replies' \in [Conns' -> Seq((Nat \X Nat) \X Int)]
        /\ \A c \in Conns : c # cur => replies'[c] = replies[c]
        /\ Replied(cur) \in Seq(Nat \X Nat)
        /\ Replied(cur)' = IF id = <<cur, 0>> THEN Replied(cur) ELSE Append(Replied(cur), id)
    BY <1>1, <1>3, <1>5, <2>1, <2>2, ReplyFacts
  <2> QED BY <1>7, <1>13, <2>1, <2>3, <2>4 DEF Busy
<1>14. ASSUME Replied(cur) \in Seq(Nat \X Nat)
       PROVE  Without(Append(Replied(cur), id), zero)
                = IF id = zero THEN Without(Replied(cur), zero) ELSE Append(Without(Replied(cur), zero), id)
  <2> DEFINE A == Nat \X Nat
             R == Replied(cur)
  <2>1. R \in Seq(A) /\ id \in A
    BY <1>5, <1>14
  <2> HIDE DEF A, R
  <2>2. Without(Append(R, id), zero) = IF id = zero THEN Without(R, zero) ELSE Append(Without(R, zero), id)
    BY <2>1, WithoutAppend
  <2> QED BY <2>2 DEF R
<1>15. CASE /\ id = zero /\ Reply(id, 400) /\ must_close' = TRUE /\ pc' = "discard"
            /\ content_len' = content_len /\ logged' = logged
  <2>1. /\ status_code' = 400 /\ replies' \in [Conns -> Seq((Nat \X Nat) \X Int)]
        /\ \A c \in Conns : c # cur => replies'[c] = replies[c]
        /\ Replied(cur) \in Seq(Nat \X Nat) /\ Replied(cur)' = Append(Replied(cur), id) /\ ~Busy'
    BY <1>13, <1>15
  <2>2. Answers'
    <3>1. parsed'[cur] = Replied(cur)'
      BY <1>6, <1>11, <2>1
    <3>2. logged'[cur] = Without(Replied(cur)', zero)
      BY <1>11, <1>14, <1>15, <2>1
    <3> QED BY <1>1, <1>3, <1>6, <1>15, <2>1, <3>1, <3>2, AnswersAt DEF zero
  <2>3. \E k, q \in Places' : Lined(k, q)'
    <3>1. PICK k \in Places : Lined(k, k + Len(buf))
      BY <1>9
    <3>2. k \in Nat
      BY <3>1 DEF Places
    <3> QED BY <1>7, <1>10, <3>1, <3>2
  <2>4. DiscardOk'
    <3>1. request_len' <= Len(buf') /\ must_close' /\ got' = zero
      BY <1>3, <1>4, <1>5, <1>15
    <3> QED BY <2>3, <3>1 DEF DiscardOk, zero
  <2>5. Flow'
    BY <1>15, <2>4 DEF Flow
  <2>6. /\ content_len' \in Nat \cup {-1} /\ logged' \in [Conns -> Seq(Known)] /\ must_close' \in BOOLEAN
        /\ status_code' \in Int
    BY <1>1, <1>15, <2>1 DEF Types
  <2> QED BY <1>12, <1>15, <2>1, <2>2, <2>5, <2>6
<1>16. CASE /\ id # zero /\ Reply(id, 505) /\ log_access(id) /\ pc' = "discard"
            /\ content_len' = content_len /\ must_close' = must_close
  <2>1. /\ status_code' = 505 /\ replies' \in [Conns -> Seq((Nat \X Nat) \X Int)]
        /\ \A c \in Conns : c # cur => replies'[c] = replies[c]
        /\ Replied(cur) \in Seq(Nat \X Nat) /\ Replied(cur)' = Append(Replied(cur), id) /\ ~Busy'
    BY <1>13, <1>16
  <2>2. /\ logged' \in [Conns -> Seq(Known)] /\ logged'[cur] = Append(logged[cur], id)
        /\ \A c \in Conns : c # cur => logged'[c] = logged[c]
    BY <1>1, <1>3, <1>4, <1>5, <1>7, <1>16, LogFacts
  <2>3. Answers'
    <3>1. parsed'[cur] = Replied(cur)'
      BY <1>6, <1>11, <2>1
    <3>2. logged'[cur] = Without(Replied(cur)', zero)
      BY <1>11, <1>14, <1>16, <2>1, <2>2
    <3> QED BY <1>1, <1>3, <1>6, <2>1, <2>2, <3>1, <3>2, AnswersAt DEF zero
  <2>4. \E k, q \in Places' : Lined(k, q)'
    <3>1. PICK k \in Places : Lined(k, k + Len(buf))
      BY <1>9
    <3>2. k \in Nat
      BY <3>1 DEF Places
    <3> QED BY <1>7, <1>10, <3>1, <3>2
  <2>5. DiscardOk'
    <3>1. request_len' <= Len(buf') /\ got' # zero
      BY <1>3, <1>4, <1>5, <1>16
    <3>2. Given(Len(input))'
      <4>1. input' = <<>> /\ Len(input') = 0 /\ Request(got)' = Request(id)
        BY <1>3, <1>7
      <4>2. Request(id).body \in Nat
        BY <1>4, <1>5, <1>16, RequestFacts
      <4> QED BY <4>1, <4>2 DEF Given
    <3> QED BY <2>1, <2>4, <3>1, <3>2 DEF DiscardOk, zero
  <2>6. Flow'
    BY <1>16, <2>5 DEF Flow
  <2>7. content_len' \in Nat \cup {-1} /\ must_close' \in BOOLEAN /\ status_code' \in Int
    BY <1>1, <1>16, <2>1 DEF Types
  <2> QED BY <1>12, <1>16, <2>1, <2>2, <2>3, <2>6, <2>7
<1>17. CASE /\ id # zero /\ content_len' = Announced(id) /\ pc' = "handle" /\ status_code' = status_code
            /\ replies' = replies /\ must_close' = must_close /\ logged' = logged
  <2>1. /\ id \in Ids /\ id[1] = cur /\ request_len = Request(id).head /\ request_len <= Len(buf)
        /\ Lined(Begin(cur, id[2]), Begin(cur, id[2]) + Len(buf)) /\ Request(id).body \in Nat
    BY <1>4, <1>5, <1>17, RequestFacts
  <2>2. PICK k \in Nat : k = Begin(cur, id[2])
    <3>1. id[2] \in 1 .. Len(script[cur]) + 1
      BY <1>5, <2>1, RequestFacts
    <3> QED BY <1>5, <3>1, Layout
  <2>3. PICK q \in Places' : Lined(k, q)' /\ q = k + Len(buf)
    BY <1>10, <2>1, <2>2
  <2>4. Begin(cur, got[2])' = k /\ (Begin(cur, got[2]) + Len(buf))' = q /\ Request(got)' = Request(id)
        /\ Announced(got)' = Announced(id)
    <3>1. Begin(cur, got[2])' = Begin(cur, id[2])' /\ Request(got)' = Request(id)' /\ Announced(got)' = Announced(id)'
      BY <1>3
    <3> QED BY <1>3, <1>7, <2>2, <2>3, <3>1
  <2>5. Handling'
    BY <1>3, <1>7, <1>17, <2>1, <2>4 DEF Handling
  <2>6. Given(0)'
    BY <1>3, <2>1, <2>4 DEF Given
  <2>7. Lined(Begin(cur, got[2]), Begin(cur, got[2]) + Len(buf))'
    BY <2>3, <2>4
  <2>8. HandleOk'
    BY <1>3, <1>9, <2>5, <2>6, <2>7 DEF HandleOk
  <2>9. Flow'
    BY <1>9, <1>17, <2>8 DEF Flow
  <2>10. Answers'
    <3>1. Busy'
      BY <1>17 DEF Busy
    <3>2. Replied(cur)' = Replied(cur)
      BY <1>3, <1>17 DEF Replied
    <3>3. parsed'[cur] = Append(Replied(cur)', got') /\ logged'[cur] = Without(Replied(cur)', zero)
      BY <1>3, <1>6, <1>11, <1>17, <3>2
    <3> QED BY <1>1, <1>3, <1>6, <1>17, <3>1, <3>3, AnswersAt DEF zero
  <2>11. content_len' \in Nat \cup {-1}
    <3>1. Announced(id) \in Nat \cup {-1}
      BY <2>1 DEF Announced
    <3> QED BY <1>17, <3>1
  <2>12. /\ must_close' \in BOOLEAN /\ status_code' \in Int /\ replies' \in [Conns -> Seq((Nat \X Nat) \X Int)]
         /\ logged' \in [Conns -> Seq(Known)]
    BY <1>1, <1>17 DEF Types
  <2> QED BY <1>12, <1>17, <2>9, <2>10, <2>11, <2>12
<1> QED BY <1>2, <1>15, <1>16, <1>17 DEF ParseRequest, Announced, zero

\* Where the buffer begins once a request has been discarded; k is where the
\* request began and q how much of the stream has been read.
After(k, q) ==
    IF content_len >= 0 /\ request_len + content_len < Len(buf) THEN k + request_len + content_len ELSE q

LEMMA Discarded ==
    ASSUME Types, pc # "idle", request_len <= Len(buf), NEW k \in Nat, NEW q \in Nat, Lined(k, q),
           script' = script, cur' = cur, wire' = wire, buf' = Drop(buf, discard_len)
    PROVE  /\ buf' \in Seq(Units) /\ Len(buf') <= Len(buf) /\ After(k, q) \in Places
           /\ \E j \in Nat, p \in Nat : j = After(k, q) /\ p = j + Len(buf') /\ Lined(j, p)'
<1>1. /\ script \in Scripts /\ cur \in Conns /\ buf \in Seq(Units) /\ Len(buf) \in Nat
      /\ request_len \in Nat /\ content_len \in Int /\ wire[cur] \in Seq(Units) /\ Stream(cur) \in Seq(Units)
  <2>1. script \in Scripts /\ cur \in Conns
    BY TypesFacts
  <2>2. buf \in Seq(Units) /\ request_len \in Nat /\ content_len \in Int /\ wire \in [Conns -> Seq(Units)]
    BY DEF Types
  <2> QED BY <2>1, <2>2, Layout
<1>2. PICK l, L, S : l = Len(buf) /\ S = Stream(cur) /\ L = Len(S)
  OBVIOUS
<1>3. l \in Nat /\ L \in Nat /\ S \in Seq(Units)
  BY <1>1, <1>2
<1>4. /\ q <= L /\ k + l <= q /\ \A i \in 1 .. l : buf[i] = S[k + i]
      /\ Len(wire[cur]) = L - q /\ \A i \in 1 .. Len(wire[cur]) : wire[cur][i] = S[q + i]
      /\ k + l < q => content_len >= 0 /\ q <= k + request_len + content_len
  BY <1>2 DEF Lined
<1>5. PICK d : d = discard_len
  OBVIOUS
<1>6. d = IF content_len >= 0 /\ request_len + content_len < l THEN request_len + content_len ELSE l
  BY <1>2, <1>5 DEF discard_len
<1>7. d \in Nat /\ d <= l
  BY <1>1, <1>3, <1>6
<1>8. /\ buf' \in Seq(Units) /\ Len(buf') = l - d /\ \A i \in 1 .. Len(buf') : buf'[i] = buf[d + i]
  <2>1. buf \in Seq(Units) /\ d \in Nat /\ ~(Len(buf) < d) /\ buf' = Drop(buf, d)
    BY <1>1, <1>2, <1>3, <1>5, <1>7
  <2>2. /\ Drop(buf, d) \in Seq(Units) /\ Len(Drop(buf, d)) = Len(buf) - d
        /\ \A i \in 1 .. Len(Drop(buf, d)) : Drop(buf, d)[i] = buf[d + i]
    BY <2>1, TakeDrop
  <2> QED BY <1>2, <2>1, <2>2
<1>9. PICK j : j = After(k, q)
  OBVIOUS
<1>10. j = IF content_len >= 0 /\ request_len + content_len < l THEN k + request_len + content_len ELSE q
  BY <1>2, <1>9 DEF After
<1>12. j \in Nat /\ j <= L /\ j + Len(buf') = q
  <2>1. CASE content_len >= 0 /\ request_len + content_len < l
    <3>1. ~(k + l < q)
      BY <1>1, <1>3, <1>4, <2>1
    <3>2. d = request_len + content_len /\ j = k + d
      BY <1>1, <1>6, <1>10, <2>1
    <3>3. k + l = q /\ q <= L
      <4>1. q <= L /\ k + l <= q /\ k \in Nat /\ q \in Nat /\ l \in Nat
        BY <1>3, <1>4
      <4> QED BY <3>1, <4>1
    <3>4. d \in Nat /\ d <= l /\ l \in Nat /\ L \in Nat
      BY <1>3, <1>7
    <3>5. k + d \in Nat /\ k + d <= L /\ k + d + (l - d) = q
      BY <3>3, <3>4
    <3> QED BY <1>8, <3>2, <3>5
  <2>2. CASE ~(content_len >= 0 /\ request_len + content_len < l)
    BY <1>3, <1>4, <1>6, <1>8, <1>10, <2>2
  <2> QED BY <2>1, <2>2
<1>13. \A i \in 1 .. Len(buf') : buf'[i] = S[j + i]
  <2>1. CASE content_len >= 0 /\ request_len + content_len < l
    <3>1. d = request_len + content_len /\ j = k + d
      BY <1>1, <1>6, <1>10, <2>1
    <3> TAKE i \in 1 .. Len(buf')
    <3>2. d + i \in 1 .. l /\ k + (d + i) = j + i
      BY <1>3, <1>7, <1>8, <3>1
    <3> QED BY <1>4, <1>8, <3>2
  <2>2. CASE ~(content_len >= 0 /\ request_len + content_len < l)
    <3>1. Len(buf') = 0
      BY <1>3, <1>6, <1>8, <2>2
    <3> QED BY <3>1
  <2> QED BY <2>1, <2>2
<1>14. Stream(cur)' = S
  <2>1. \A c : Stream(c)' = Stream(c)
    BY SameScript
  <2> QED BY <1>2, <2>1
<1>15. /\ buf' \in Seq(Units) /\ q = j + Len(buf') /\ q <= Len(Stream(cur)')
       /\ Len(wire'[cur']) = Len(Stream(cur)') - q
       /\ \A i \in 1 .. Len(buf') : buf'[i] = Stream(cur)'[j + i]
       /\ \A i \in 1 .. Len(wire'[cur']) : wire'[cur'][i] = Stream(cur)'[q + i]
  BY <1>2, <1>4, <1>8, <1>12, <1>13, <1>14
<1>16. Lined(j, q)'
  BY <1>12, <1>15, LinedAll
<1>17. Len(buf') <= Len(buf) /\ After(k, q) \in Places
  BY <1>2, <1>3, <1>7, <1>8, <1>9, <1>12 DEF Places
<1> QED BY <1>9, <1>12, <1>15, <1>16, <1>17

\* Reading goes on with the next request, unless part of the body is left.
LEMMA NextBegins ==
    ASSUME Types, pc # "idle", Handling, content_len >= 0,
           NEW k \in Nat, NEW q \in Nat, k = Begin(cur, got[2]), Lined(k, q),
           \A i \in 1 .. Len(wire[cur]) : ~(wire[cur][i][3] > 0 /\ <<cur, wire[cur][i][2]>> = got)
    PROVE  got[2] \in 1 .. Len(script[cur]) /\ After(k, q) = Begin(cur, got[2] + 1)
<1> DEFINE h == request_len
           n == got[2]
           z == Size(got)
           L == Len(Stream(cur))
           b == Request(got).body
           lost == Request(got).lost
           l == Len(buf)
<1>1. /\ script \in Scripts /\ cur \in Conns /\ got \in Ids /\ got[1] = cur /\ h = Request(got).head /\ h <= l
      /\ content_len = Announced(got) /\ content_len \in Nat /\ buf \in Seq(Units) /\ l \in Nat
  <2>1. script \in Scripts /\ cur \in Conns
    BY TypesFacts
  <2>2. content_len \in Nat /\ buf \in Seq(Units)
    BY DEF Types
  <2> QED BY <2>1, <2>2 DEF Handling
<1>2. /\ got = <<cur, n>> /\ n \in 1 .. Len(script[cur]) /\ Len(script[cur]) \in Nat
      /\ h \in Nat \ {0} /\ b \in Nat /\ lost \in Nat /\ z \in Nat /\ z = h + b - lost
      /\ lost > 0 => n = Len(script[cur])
      /\ b > 0 => Request(got).length \/ Request(got).method \in {"POST", "PUT"}
  BY <1>1, RequestFacts DEF Size
<1>3. content_len = b
  BY <1>1, <1>2 DEF Announced
<1>4. /\ L \in Nat /\ Begin(cur, n + 1) = k + z /\ k + z <= L /\ (n = Len(script[cur]) => k + z = L)
      /\ \A j \in 1 .. z : Stream(cur)[k + j] = Unit(got, j)
  <2>1. n + 1 \in 1 .. Len(script[cur]) + 1
    <3>1. PICK s : s = Len(script[cur])
      OBVIOUS
    <3>2. PICK j : j = n
      OBVIOUS
    <3>3. s \in Nat /\ j \in 1 .. s
      BY <1>2, <3>1, <3>2
    <3>4. j + 1 \in 1 .. s + 1
      BY <3>3
    <3> QED BY <3>1, <3>2, <3>4
  <2>2. /\ Begin(cur, n + 1) = k + Size(<<cur, n>>)
        /\ \A j \in 1 .. Size(<<cur, n>>) : Stream(cur)[k + j] = Unit(<<cur, n>>, j)
    BY <1>1, <1>2, Layout
  <2>3. (n = Len(script[cur]) => Begin(cur, n + 1) = L) /\ L \in Nat /\ Begin(cur, n + 1) \in 0 .. L
    BY <1>1, <2>1, Layout
  <2>4. Size(<<cur, n>>) = z /\ \A j : Unit(<<cur, n>>, j) = Unit(got, j)
    <3>1. PICK id : id = <<cur, n>>
      OBVIOUS
    <3>2. id = got
      BY <1>2, <3>1
    <3> QED BY <3>1, <3>2
  <2>5. Begin(cur, n + 1) = k + z
    BY <2>2, <2>4
  <2>6. \A j \in 1 .. z : Stream(cur)[k + j] = Unit(got, j)
    BY <2>2, <2>4
  <2>7. L \in Nat /\ k + z <= L /\ (n = Len(script[cur]) => k + z = L)
    BY <2>3, <2>5
  <2> QED BY <2>5, <2>6, <2>7
<1>5. /\ q <= L /\ k + l <= q
      /\ Len(wire[cur]) = L - q /\ \A i \in 1 .. Len(wire[cur]) : wire[cur][i] = Stream(cur)[q + i]
      /\ k + l < q => q <= k + h + content_len
  BY DEF Lined
<1>6. After(k, q) = IF h + b < l THEN k + h + b ELSE q
  BY <1>3, <1>1 DEF After
<1> HIDE DEF h, z, L, b, lost, l, n
<1>9. /\ h \in Nat /\ h > 0 /\ b \in Nat /\ lost \in Nat /\ z \in Nat /\ l \in Nat /\ L \in Nat
      /\ h <= l /\ z = h + b - lost /\ q <= L /\ k + l <= q /\ k + z <= L
  <2>1. h \in Nat /\ h > 0 /\ b \in Nat /\ lost \in Nat /\ z \in Nat /\ z = h + b - lost
    BY <1>2
  <2>2. l \in Nat /\ h <= l
    BY <1>1
  <2>3. L \in Nat /\ k + z <= L
    BY <1>4
  <2>4. q <= L /\ k + l <= q
    BY <1>5
  <2> QED BY <2>1, <2>2, <2>3, <2>4
<1>10. (k + l < q => q <= k + h + b) /\ (lost > 0 => k + z = L)
  BY <1>2, <1>3, <1>4, <1>5
<1>7. CASE h + b < l
  <2>1. lost = 0
    BY <1>7, <1>9, <1>10
  <2>2. After(k, q) = k + h + b
    BY <1>6, <1>7
  <2>3. k + z = k + h + b
    BY <1>9, <2>1
  <2>4. Begin(cur, n + 1) = After(k, q) /\ n \in 1 .. Len(script[cur])
    BY <1>2, <1>4, <2>2, <2>3
  <2> QED BY <2>4 DEF n
<1>8. CASE ~(h + b < l)
  <2>1. q >= k + z
    <3> SUFFICES ASSUME q < k + z  PROVE FALSE
      BY <1>2
    <3>1. PICK i \in 1 .. z : i = q + 1 - k
      <4>1. q + 1 - k \in 1 .. z
        <5>1. k <= q
          BY <1>9
        <5>2. q + 1 <= k + z
          BY <1>9
        <5> QED BY <1>9, <5>1, <5>2
      <4> QED BY <4>1
    <3>2. i \in Nat /\ i > h /\ q + 1 = k + i
      <4>1. i \in Nat /\ q + 1 = k + i
        BY <1>9, <3>1
      <4>2. k + h <= q
        BY <1>9
      <4> QED BY <1>9, <4>1, <4>2
    <3>3. 1 \in 1 .. Len(wire[cur])
      BY <1>2, <1>4, <1>5
    <3>4. wire[cur][1] = Unit(got, i)
      BY <1>4, <1>5, <3>1, <3>2, <3>3
    <3>5. Unit(got, i) = <<got[1], got[2], i - h>>
      <4>1. ~(i < h) /\ i # h
        BY <1>2, <3>2
      <4>2. Unit(got, i) = <<got[1], got[2], IF i < h THEN 0 ELSE IF i = h THEN -1 ELSE i - h>>
        BY <1>1, Zenon DEF Unit
      <4> QED BY <4>1, <4>2
    <3>6. wire[cur][1][3] > 0 /\ <<cur, wire[cur][1][2]>> = got
      <4>1. wire[cur][1][3] = i - h /\ wire[cur][1][2] = n
        BY <3>4, <3>5 DEF n
      <4> QED BY <1>2, <3>2, <4>1
    <3> QED BY <3>3, <3>6
  <2>2. q <= k + h + b
    BY <1>8, <1>9, <1>10
  <2>3. q <= k + z
    <3>1. CASE lost = 0
      BY <1>2, <2>2, <3>1
    <3>2. CASE lost # 0
      BY <1>2, <1>4, <1>5, <3>2
    <3> QED BY <3>1, <3>2
  <2>4. q = k + z
    BY <1>9, <2>1, <2>3
  <2> QED BY <1>2, <1>4, <1>6, <1>8, <2>4 DEF n
<1> QED BY <1>7, <1>8

LEMMA EndRequestInv ==
    ASSUME ConnInv, EndRequest
    PROVE  ConnInv'
<1>1. /\ Types /\ Rooted /\ Flow /\ Streams /\ Answers /\ pc = "discard" /\ DiscardOk /\ ~Busy
  BY DEF ConnInv, EndRequest, Flow, Busy
<1>2. /\ script' = script /\ config' = config /\ fs' = fs /\ wire' = wire /\ cur' = cur
      /\ content_len' = content_len /\ got' = got /\ dest' = dest /\ input' = input /\ replies' = replies
      /\ logged' = logged /\ parsed' = parsed /\ edit' = edit /\ buf' = Drop(buf, discard_len)
      /\ adrift' = IF \/ \E i \in 1 .. Len(wire[cur]) : wire[cur][i][3] > 0 /\ <<cur, wire[cur][i][2]>> = got
                      \/ status_code = 505
                   THEN adrift \cup {cur} ELSE adrift
  BY DEF EndRequest
<1>3. /\ cur \in Conns /\ cur \in Nat /\ cur # 0 /\ script \in Scripts /\ Len(buf) \in Nat /\ request_len <= Len(buf)
      /\ parsed[cur] \in Seq(Known)
  <2>1. cur \in Conns /\ cur \in Nat /\ cur # 0 /\ script \in Scripts
    BY <1>1, TypesFacts DEF Conns
  <2>2. Len(buf) \in Nat /\ request_len <= Len(buf) /\ parsed \in [Conns -> Seq(Known)]
    BY <1>1 DEF Types, DiscardOk
  <2> QED BY <2>1, <2>2
<1>4. PICK k \in Places, q \in Places :
        /\ Lined(k, q)
        /\ got # <<0, 0>> /\ status_code # 505 => Handling /\ k = Begin(cur, got[2])
  BY <1>1 DEF DiscardOk
<1>5. k \in Nat /\ q \in Nat
  BY <1>4 DEF Places
<1>6. /\ buf' \in Seq(Units) /\ Len(buf') <= Len(buf) /\ After(k, q) \in Places
      /\ \E j \in Nat, p \in Nat : j = After(k, q) /\ p = j + Len(buf') /\ Lined(j, p)'
  <2>1. pc # "idle"
    BY <1>1
  <2> QED BY <1>1, <1>2, <1>3, <1>4, <1>5, <2>1, Discarded
<1>7. /\ adrift \subseteq adrift' /\ adrift' \subseteq 1 .. cur
      /\ cur \notin adrift' =>
           /\ cur \notin adrift /\ status_code # 505
           /\ \A i \in 1 .. Len(wire[cur]) : ~(wire[cur][i][3] > 0 /\ <<cur, wire[cur][i][2]>> = got)
  <2>1. adrift \subseteq 1 .. cur /\ cur \in 1 .. cur
    BY <1>1, <1>3 DEF Types
  <2> QED BY <1>2, <2>1
<1>8. Conns' = Conns /\ Known' = Known /\ Places' = Places
      /\ (\A c : Stream(c)' = Stream(c)) /\ (\A c, n : Begin(c, n)' = Begin(c, n))
  <2>1. \A c : Stream(c)' = Stream(c)
    BY <1>2, SameScript
  <2>2. Stream(cur)' = Stream(cur)
    BY <1>2, <2>1
  <2> QED BY <1>2, <2>2, SameScript DEF Places
<1>9. Rooted'
  BY <1>1, <1>2 DEF Rooted
<1>10. pc' \in {"read", "close"} /\ ~Busy' /\ pc' # "discard"
  BY DEF EndRequest, Busy
<1>11. Answers'
  BY <1>1, <1>2, <1>10, AnswersIdle
<1>12. Streams'
  <2>1. ASSUME NEW c \in Conns
        PROVE  /\ c > cur' => wire'[c] = Stream(c)' /\ parsed'[c] = <<>>
               /\ \A i \in 1 .. Len(parsed'[c]) : /\ parsed'[c][i][1] \in {0, c}
                                                  /\ c \notin adrift' => parsed'[c][i] = <<c, i>>
    BY <1>1, <1>2, <1>7, <1>8 DEF Streams
  <2> QED BY <1>8, <1>10, <2>1 DEF Streams
<1>13. ASSUME must_close' \in BOOLEAN, request_len' \in 0 .. BufSize, status_code' \in Int,
              consumed_content' \in 0 .. IF content_len < 0 THEN 0 ELSE content_len
       PROVE  Types'
  <2>1. Len(buf') <= BufSize
    <3>1. Len(buf) <= BufSize /\ BufSize \in Nat /\ Len(buf') \in Nat
      BY <1>1, <1>6, ConnAssumption DEF Types
    <3> QED BY <1>3, <1>6, <3>1
  <2> QED BY <1>1, <1>2, <1>3, <1>6, <1>7, <1>8, <1>10, <1>13, <2>1 DEF Types
<1>14. CASE pc' = "close" /\ UNCHANGED <<must_close, request_len, consumed_content, status_code>>
  <2>1. Types'
    BY <1>1, <1>13, <1>14 DEF Types
  <2>2. Flow'
    BY <1>14 DEF Flow
  <2> QED BY <1>9, <1>11, <1>12, <2>1, <2>2 DEF ConnInv
<1>15. CASE /\ content_len >= 0 /\ should_keep_alive /\ pc' = "read" /\ reset_per_request_attributes
  <2>1. /\ must_close' = FALSE /\ request_len' = 0 /\ consumed_content' = 0 /\ status_code' = -1
    BY <1>15 DEF reset_per_request_attributes
  <2>2. Types'
    <3>1. /\ 0 \in 0 .. BufSize /\ -1 \in Int
          /\ 0 \in 0 .. IF content_len < 0 THEN 0 ELSE content_len
      BY <1>1, ConnAssumption DEF Types
    <3>2. must_close' \in BOOLEAN
      BY <2>1, Zenon
    <3> QED BY <1>13, <2>1, <3>1, <3>2
  <2>3. got # <<0, 0>>
    BY <1>1, <1>15 DEF DiscardOk, should_keep_alive
  <2>4. PICK j \in Nat, p \in Nat : j = After(k, q) /\ p = j + Len(buf') /\ Lined(j, p)'
    BY <1>6
  <2>5. ASSUME cur \notin adrift'
        PROVE  Len(parsed[cur]) <= Len(script[cur]) /\ j = Begin(cur, Len(parsed[cur]) + 1)
    <3>1. got = <<cur, Len(parsed[cur])>> /\ got \in Ids
      BY <1>1, <1>3, <1>7, <2>5 DEF Streams
    <3>2. Handling /\ k = Begin(cur, got[2])
      BY <1>4, <1>7, <2>3, <2>5
    <3>3. got[2] \in 1 .. Len(script[cur]) /\ After(k, q) = Begin(cur, got[2] + 1)
      <4>1. pc # "idle" /\ content_len >= 0
        BY <1>1, <1>15
      <4>2. \A i \in 1 .. Len(wire[cur]) : ~(wire[cur][i][3] > 0 /\ <<cur, wire[cur][i][2]>> = got)
        BY <1>7, <2>5
      <4> QED BY <1>1, <1>4, <1>5, <3>2, <4>1, <4>2, NextBegins
    <3>4. got[2] = Len(parsed[cur])
      BY <3>1
    <3>5. Len(parsed[cur]) \in 1 .. Len(script[cur]) /\ Len(script[cur]) \in Nat
      BY <1>3, <3>1, <3>3, <3>4, RequestFacts
    <3> QED BY <2>4, <3>3, <3>4, <3>5
  <2>6. ReadOk'
    <3>1. PICK n : n = Len(parsed[cur]) + 1
      OBVIOUS
    <3>2. Begin(cur, Len(parsed[cur]) + 1)' = Begin(cur, n)
      <4>1. (Len(parsed[cur]) + 1)' = n
        BY <1>2, <3>1
      <4>2. Begin(cur, Len(parsed[cur]) + 1)' = Begin(cur, n)'
        BY <4>1
      <4>3. Begin(cur, n)' = Begin(cur, n)
        BY <1>2, <1>8
      <4> QED BY <4>2, <4>3
    <3>3. cur' \notin adrift' => /\ Len(parsed[cur])' <= Len(script[cur])'
                                 /\ j = Begin(cur, Len(parsed[cur]) + 1)'
      BY <1>2, <2>5, <3>1, <3>2
    <3>4. Lined(j, j + Len(buf))'
      <4>1. (j + Len(buf))' = p
        BY <2>4
      <4> QED BY <2>4, <4>1
    <3>5. j \in Places'
      BY <1>6, <1>8, <2>4
    <3>6. ReadOk' <=> /\ consumed_content' = 0 /\ status_code' = -1
                      /\ \E x \in Places' :
                           /\ Lined(x, x + Len(buf))'
                           /\ cur' \notin adrift' => /\ Len(parsed[cur])' <= Len(script[cur])'
                                                     /\ x = Begin(cur, Len(parsed[cur]) + 1)'
      BY DEF ReadOk
    <3> QED BY <2>1, <3>3, <3>4, <3>5, <3>6
  <2>7. Flow'
    BY <1>15, <2>6 DEF Flow
  <2> QED BY <1>9, <1>11, <1>12, <2>2, <2>7 DEF ConnInv
<1> QED BY <1>14, <1>15 DEF EndRequest

LEMMA CloseConnectionInv ==
    ASSUME ConnInv, close_connection
    PROVE  ConnInv'
<1>1. /\ Types /\ Rooted /\ Streams /\ Answers /\ pc = "close" /\ ~Busy
  BY DEF ConnInv, close_connection, Busy
<1>2. /\ script' = script /\ config' = config /\ fs' = fs /\ wire' = [wire EXCEPT ![cur] = <<>>] /\ cur' = cur
      /\ buf' = buf /\ request_len' = request_len /\ content_len' = content_len
      /\ consumed_content' = consumed_content /\ status_code' = status_code /\ must_close' = TRUE
      /\ got' = got /\ dest' = dest /\ input' = input /\ edit' = edit /\ pc' = "idle"
      /\ replies' = replies /\ logged' = logged /\ parsed' = parsed /\ adrift' = adrift
  BY DEF close_connection, historyVars
<1>3. cur \in Conns /\ cur \in Nat
  BY <1>1, TypesFacts
<1>4. wire' \in [Conns -> Seq(Units)] /\ \A c \in Conns : c > cur => wire'[c] = wire[c]
  <2>1. wire \in [Conns -> Seq(Units)] /\ <<>> \in Seq(Units)
    BY <1>1 DEF Types
  <2> QED BY <1>2, <1>3, <2>1 DEF Conns
<1>5. Conns' = Conns /\ Known' = Known
  BY <1>2, SameScript
<1>6. must_close' \in BOOLEAN
  BY <1>2, Zenon
<1>7. Types'
  BY <1>1, <1>2, <1>4, <1>5, <1>6 DEF Types
<1>8. ~Busy' /\ pc' # "discard"
  BY <1>2 DEF Busy
<1>9. Rooted' /\ Streams' /\ Answers'
  BY <1>1, <1>2, <1>4, <1>8, StreamsKept, AnswersIdle DEF Rooted
<1>10. Flow'
  BY <1>2 DEF Flow
<1> QED BY <1>7, <1>9, <1>10 DEF ConnInv

-----------------------------------------------------------------------------
(* An edit of the passwords file beside the worker.                        *)

\* Files that nobody edits are as they were.
Untouched ==
    \A p : edit' = "none" \/ p \notin {PwFile, TmpFile} =>
               /\ edit = "none" \/ p \notin {PwFile, TmpFile}
               /\ p \in DOMAIN fs => p \in DOMAIN fs' /\ fs'[p] = fs[p]

LEMMA StoredSame ==
    ASSUME script' = script, got' = got, dest' = dest, Untouched
    PROVE  \A n : (Stored(n) => Stored(n)') /\ (Destined(n) => Destined(n)')
<1>1. Request(got)' = Request(got)
  BY DEF Request
<1>2. PICK r : r = Request(got)
  OBVIOUS
<1>3. ASSUME NEW n
      PROVE  Stored(n) => Stored(n)'
  <2>1. Stored(n)' <=> (edit' = "none" \/ dest' \notin {PwFile, TmpFile} =>
                           /\ dest' \in DOMAIN fs'
                           /\ fs'[dest'] = File(Filled(IF n = 0 THEN 0 ELSE Request(got)'.from, n)))
    BY DEF Stored
  <2>2. Stored(n) <=> (edit = "none" \/ dest \notin {PwFile, TmpFile} =>
                           /\ dest \in DOMAIN fs
                           /\ fs[dest] = File(Filled(IF n = 0 THEN 0 ELSE r.from, n)))
    BY <1>2 DEF Stored
  <2>3. Request(got)' = r
    BY <1>1, <1>2
  <2> QED BY <2>1, <2>2, <2>3 DEF Untouched
<1>4. ASSUME NEW n
      PROVE  Destined(n) => Destined(n)'
  <2>1. Destined(n)' <=> \/ dest' = <<>> /\ Request(got)'.method = "POST"
                         \/ dest' # <<>> /\ Request(got)'.method = "PUT" /\ ~Request(got)'.slash /\ Stored(n)'
    BY DEF Destined
  <2> QED BY <1>1, <1>3, <2>1 DEF Destined
<1> QED BY <1>3, <1>4

LEMMA EditInv ==
    ASSUME ConnInv, Rooted', Untouched, edit' \in {"none", "copied", "removed", "done", "crashed"},
           script' = script, config' = config, wire' = wire, cur' = cur, pc' = pc, buf' = buf,
           request_len' = request_len, content_len' = content_len, consumed_content' = consumed_content,
           must_close' = must_close, status_code' = status_code, got' = got, dest' = dest, input' = input,
           replies' = replies, logged' = logged, parsed' = parsed, adrift' = adrift
    PROVE  ConnInv'
<1>1. Types /\ Flow /\ Streams /\ Answers
  BY DEF ConnInv
<1>2. Conns' = Conns /\ Known' = Known
  BY SameScript
<1>3. Types'
  BY <1>1, <1>2 DEF Types
<1>4. Busy' = Busy
  BY DEF Busy
<1>5. Streams' /\ Answers'
  BY <1>1, <1>4, StreamsKept, AnswersKept
<1>6. ReadOk /\ pc # "idle" => ReadOk'
  BY <1>1, ReadKept
<1>7. ParseOk /\ pc # "idle" => ParseOk'
  <2>1. get_request_len(buf)' = get_request_len(buf)
    BY DEF get_request_len
  <2> QED BY <1>6, <2>1 DEF ParseOk
<1>8. /\ Places' = Places /\ (\A k, q : Lined(k, q)' <=> Lined(k, q))
      /\ (Handling' <=> Handling) /\ Begin(cur, got[2])' = Begin(cur, got[2]) /\ Request(got)' = Request(got)
      /\ \A n : Given(n)' <=> Given(n)
  BY LinedSame, HandlingSame, GivenSame
<1>9. \A n : (Stored(n) => Stored(n)') /\ (Destined(n) => Destined(n)')
  BY StoredSame
<1>10. HandleOk => HandleOk'
  <2>1. PICK k, q : k = Begin(cur, got[2]) /\ q = k + Len(buf)
    OBVIOUS
  <2>2. Begin(cur, got[2])' = k /\ (Begin(cur, got[2]) + Len(buf))' = q
    BY <1>8, <2>1
  <2>3. HandleOk' <=> /\ Handling' /\ Lined(Begin(cur, got[2]), Begin(cur, got[2]) + Len(buf))'
                      /\ consumed_content' = 0 /\ Given(0)'
    BY DEF HandleOk
  <2>4. Lined(Begin(cur, got[2]), Begin(cur, got[2]) + Len(buf))' <=> Lined(k, q)'
    BY <2>2
  <2> QED BY <1>8, <2>1, <2>3, <2>4 DEF HandleOk
<1>11. PullOk => PullOk'
  <2>1. PICK k, q, r, n : /\ k = Begin(cur, got[2]) /\ q = k + Len(buf)
                          /\ n = consumed_content /\ r = k + request_len + consumed_content
    OBVIOUS
  <2>2. /\ Begin(cur, got[2])' = k /\ (Begin(cur, got[2]) + Len(buf))' = q
        /\ (Begin(cur, got[2]) + request_len + consumed_content)' = r /\ consumed_content' = n
    BY <1>8, <2>1
  <2>3. /\ Lined(Begin(cur, got[2]), Begin(cur, got[2]) + Len(buf))' <=> Lined(k, q)'
        /\ Lined(Begin(cur, got[2]), Begin(cur, got[2]) + request_len + consumed_content)' <=> Lined(k, r)'
        /\ Given(consumed_content)' <=> Given(n)'
        /\ Destined(consumed_content)' <=> Destined(n)'
    BY <2>2
  <2>4. PullOk' <=>
           /\ Handling' /\ content_len' >= 0
           /\ \/ /\ consumed_content' = content_len'
                 /\ Lined(Begin(cur, got[2]), Begin(cur, got[2]) + Len(buf))'
              \/ Lined(Begin(cur, got[2]), Begin(cur, got[2]) + request_len + consumed_content)'
           /\ Given(consumed_content)' /\ Destined(consumed_content)'
    BY DEF PullOk
  <2>5. PullOk <=>
           /\ Handling /\ content_len >= 0
           /\ (consumed_content = content_len /\ Lined(k, q)) \/ Lined(k, r)
           /\ Given(n) /\ Destined(n)
    BY <2>1 DEF PullOk
  <2> QED BY <1>8, <1>9, <2>3, <2>4, <2>5
<1>12. DiscardOk => DiscardOk'
  <2>1. PICK n : n = Len(input)
    OBVIOUS
  <2>2. /\ Len(input)' = n /\ (Given(Len(input))' <=> Given(n)') /\ (Stored(Len(input))' <=> Stored(n)')
        /\ (Given(Len(input)) <=> Given(n)) /\ (Stored(Len(input)) <=> Stored(n))
    BY <2>1
  <2>3. (\E k, q \in Places : /\ Lined(k, q)
                              /\ got # <<0, 0>> /\ status_code # 505 => Handling /\ k = Begin(cur, got[2]))
        => (\E k, q \in Places' : /\ Lined(k, q)'
                                  /\ got' # <<0, 0>> /\ status_code' # 505 => Handling' /\ k = Begin(cur, got[2])')
    BY <1>8
  <2>4. DiscardOk' <=>
            /\ request_len' <= Len(buf)'
            /\ got' = <<0, 0>> => must_close'
            /\ got' # <<0, 0>> => Given(Len(input))'
            /\ \E k, q \in Places' :
                 /\ Lined(k, q)'
                 /\ got' # <<0, 0>> /\ status_code' # 505 => Handling' /\ k = Begin(cur, got[2])'
            /\ got' # <<0, 0>> /\ status_code' \in {200, 201, 206} /\ Request(got)'.method = "PUT"
                  /\ ~Request(got)'.slash => Stored(Len(input))' /\ Len(input)' = Request(got)'.body
    BY DEF DiscardOk
  <2>5. DiscardOk <=>
            /\ request_len <= Len(buf)
            /\ got = <<0, 0>> => must_close
            /\ got # <<0, 0>> => Given(n)
            /\ \E k, q \in Places :
                 /\ Lined(k, q)
                 /\ got # <<0, 0>> /\ status_code # 505 => Handling /\ k = Begin(cur, got[2])
            /\ got # <<0, 0>> /\ status_code \in {200, 201, 206} /\ Request(got).method = "PUT"
                  /\ ~Request(got).slash => Stored(n) /\ n = Request(got).body
    BY <2>1 DEF DiscardOk
  <2> QED BY <1>8, <1>9, <2>2, <2>3, <2>4, <2>5
<1>13. Flow'
  <2>1. Destined(0) => Destined(0)'
    <3>1. PICK n : n = 0
      OBVIOUS
    <3>2. (Destined(0) <=> Destined(n)) /\ (Destined(0)' <=> Destined(n)')
      BY <3>1
    <3> QED BY <1>9, <3>2
  <2> QED BY <1>1, <1>6, <1>7, <1>10, <1>11, <1>12, <2>1 DEF Flow
<1> QED BY <1>3, <1>5, <1>13 DEF ConnInv

\* The two files are not the document root.
LEMMA EditsInv ==
    ASSUME ConnInv, Edit
    PROVE  ConnInv'
<1>1. /\ script' = script /\ config' = config /\ wire' = wire /\ cur' = cur /\ pc' = pc /\ buf' = buf
      /\ request_len' = request_len /\ content_len' = content_len /\ consumed_content' = consumed_content
      /\ must_close' = must_close /\ status_code' = status_code /\ got' = got /\ dest' = dest /\ input' = input
      /\ replies' = replies /\ logged' = logged /\ parsed' = parsed /\ adrift' = adrift
  BY DEF Edit, EditCopy, EditRemove, EditRename, EditCrash, connVars, historyVars
<1>2. PwFile # <<>> /\ TmpFile # <<>> /\ Rooted
  BY FilesAssumption DEF ConnInv
<1>3. edit' \in {"copied", "removed", "done", "crashed"}
  BY DEF Edit, EditCopy, EditRemove, EditRename, EditCrash
<1> DEFINE Only(f) == /\ <<>> \in DOMAIN f /\ f[<<>>].dir /\ f = [p \in DOMAIN f |-> f[p]]
                      /\ \A p : p \notin {PwFile, TmpFile} /\ p \in DOMAIN fs => p \in DOMAIN f /\ f[p] = fs[p]
<1>4. Only(fs)
  BY <1>2 DEF Rooted
<1>5. ASSUME NEW f, Only(f), NEW p \in {PwFile, TmpFile}, NEW node
      PROVE  Only(Write(f, p, node)) /\ Only(mg_remove(f, p))
  <2>1. p # <<>>
    BY <1>2
  <2>2. Only(Write(f, p, node))
    BY <1>5, <2>1 DEF Write
  <2>3. Only(mg_remove(f, p))
    BY <1>5, <2>1 DEF mg_remove
  <2> QED BY <2>2, <2>3
<1> HIDE DEF Only
<1>6. Only(fs')
  <2>1. CASE EditCopy
    <3>1. PICK n : fs' = Write(IF Exists(fs, PwFile) THEN fs ELSE Write(fs, PwFile, File(<<>>)),
                               TmpFile, File(SubSeq(EditedLines, 1, n)))
      BY <2>1 DEF EditCopy
    <3>2. PICK f, node : /\ f = IF Exists(fs, PwFile) THEN fs ELSE Write(fs, PwFile, File(<<>>))
                         /\ node = File(SubSeq(EditedLines, 1, n))
      OBVIOUS
    <3>3. PICK none : none = File(<<>>)
      OBVIOUS
    <3>4. Only(f)
      BY <1>4, <1>5, <3>2, <3>3
    <3>5. fs' = Write(f, TmpFile, node)
      BY <3>1, <3>2
    <3> QED BY <1>5, <3>4, <3>5
  <2>2. CASE EditRemove
    BY <1>4, <1>5, <2>2 DEF EditRemove
  <2>3. CASE EditRename
    <3>1. PICK node : node = fs[TmpFile]
      OBVIOUS
    <3>2. PICK f : f = Write(fs, PwFile, node)
      OBVIOUS
    <3>3. Only(f)
      BY <1>4, <1>5, <3>2
    <3>4. Only(mg_remove(f, TmpFile))
      BY <1>5, <3>3
    <3> QED BY <1>4, <2>3, <3>1, <3>2, <3>4 DEF EditRename
  <2>4. CASE EditCrash
    BY <1>4, <2>4 DEF EditCrash
  <2> QED BY <2>1, <2>2, <2>3, <2>4 DEF Edit
<1>7. Rooted' /\ Untouched
  BY <1>3, <1>6 DEF Only, Rooted, Untouched
<1> QED BY <1>1, <1>3, <1>7, EditInv

-----------------------------------------------------------------------------
(* The invariant of the worker. *)

LEMMA InitInv ==
    ASSUME Init
    PROVE  ConnInv
<1>1. /\ script \in Scripts /\ config \in Configs /\ fs = Files0 /\ wire = [c \in Conns |-> Stream(c)]
      /\ cur = 0 /\ pc = "idle" /\ buf = <<>> /\ request_len = 0 /\ content_len = 0 /\ consumed_content = 0
      /\ must_close = FALSE /\ status_code = -1 /\ got = <<0, 0>> /\ input = <<>>
      /\ replies = [c \in Conns |-> <<>>] /\ logged = [c \in Conns |-> <<>>] /\ parsed = [c \in Conns |-> <<>>]
      /\ adrift = {} /\ edit = "none"
  BY DEF Init
<1>2. BufSize \in Nat /\ Len(script) \in Nat
  BY <1>1, ConnAssumption
<1>3. \A c \in Conns : c > cur /\ c # cur
  BY <1>1, <1>2 DEF Conns
<1>4. ~Busy /\ pc # "discard"
  BY <1>1 DEF Busy
<1>5. Types
  <2>1. wire \in [Conns -> Seq(Units)]
    BY <1>1, Layout
  <2>2. /\ replies \in [Conns -> Seq((Nat \X Nat) \X Int)]
        /\ parsed \in [Conns -> Seq(Known)] /\ logged \in [Conns -> Seq(Known)]
    BY <1>1
  <2>3. got \in Known /\ input \in Seq(Units) /\ buf \in Seq(Units) /\ Len(buf) <= BufSize
    BY <1>1, <1>2 DEF Known
  <2>4. must_close \in BOOLEAN
    BY <1>1, Zenon
  <2>5. adrift \subseteq 1 .. cur
    BY <1>1
  <2>6. content_len \in Nat \cup {-1} /\ consumed_content \in 0 .. IF content_len < 0 THEN 0 ELSE content_len
    BY <1>1
  <2>7. cur \in 0 .. Len(script) /\ request_len \in 0 .. BufSize /\ status_code \in Int
    BY <1>1, <1>2
  <2> QED BY <1>1, <2>1, <2>2, <2>3, <2>4, <2>5, <2>6, <2>7 DEF Types
<1>6. Rooted
  BY <1>1, FilesAssumption DEF Rooted
<1>7. Flow
  BY <1>1 DEF Flow
<1>8. Streams
  BY <1>1, <1>3, <1>4 DEF Streams
<1>9. Answers
  <2>1. ASSUME NEW c \in Conns
        PROVE  parsed[c] = Replied(c) /\ logged[c] = Without(Replied(c), <<0, 0>>)
    <3>1. Firsts(replies[c]) = <<>>
      BY <1>1, <2>1 DEF Firsts
    <3>2. Replied(c) = <<>>
      BY <3>1, WithoutEmpty DEF Replied
    <3>3. Without(Replied(c), <<0, 0>>) = <<>>
      BY <3>2, WithoutEmpty
    <3> QED BY <1>1, <2>1, <3>2, <3>3
  <2> QED BY <1>4, <2>1 DEF Answers
<1> QED BY <1>5, <1>6, <1>7, <1>8, <1>9 DEF ConnInv

LEMMA StepInv ==
    ASSUME ConnInv, [Next]_vars
    PROVE  ConnInv'
<1>1. CASE Step
  <2>1. CASE NewConnection
    BY <2>1, NewConnectionInv
  <2>2. CASE read_request
    BY <2>2, ReadRequestInv
  <2>3. CASE ParseRequest
    BY <2>3, ParseRequestInv
  <2>4. CASE HandlePlain
    BY <2>4, HandlePlainInv
  <2>5. CASE mg_read
    BY <2>5, MgReadInv
  <2>6. CASE HandleCgi
    BY <2>6, HandleCgiInv
  <2>7. CASE HandleDelete
    BY <2>7, HandleDeleteInv
  <2>8. CASE put_file
    BY <2>8, PutFileInv
  <2>9. CASE HandlePost
    BY <2>9, HandlePostInv
  <2>10. CASE ForwardStart
    BY <2>10, ForwardStartInv
  <2>11. CASE ForwardPull
    BY <2>11, ForwardPullInv
  <2>12. CASE ForwardFails
    BY <2>12, ForwardFailsInv
  <2>13. CASE ForwardDone
    BY <2>13, ForwardDoneInv
  <2>14. CASE EndRequest
    BY <2>14, EndRequestInv
  <2>15. CASE close_connection
    BY <2>15, CloseConnectionInv
  <2> QED BY <1>1, <2>1, <2>2, <2>3, <2>4, <2>5, <2>6, <2>7, <2>8, <2>9, <2>10, <2>11, <2>12, <2>13,
             <2>14, <2>15 DEF Step
<1>2. CASE Edit
  BY <1>2, EditsInv
<1>3. CASE UNCHANGED vars
  <2>1. /\ script' = script /\ config' = config /\ wire' = wire /\ cur' = cur /\ pc' = pc /\ buf' = buf
        /\ request_len' = request_len /\ content_len' = content_len /\ consumed_content' = consumed_content
        /\ must_close' = must_close /\ status_code' = status_code /\ got' = got /\ dest' = dest
        /\ input' = input /\ replies' = replies /\ logged' = logged /\ parsed' = parsed
        /\ adrift' = adrift /\ fs' = fs /\ edit' = edit
    BY <1>3 DEF vars, connVars, historyVars
  <2>2. Rooted' /\ edit' \in {"none", "copied", "removed", "done", "crashed"}
    BY <2>1 DEF ConnInv, Types, Rooted
  <2>3. Untouched
    BY <2>1 DEF Untouched
  <2> QED BY <2>1, <2>2, <2>3, EditInv
<1> QED BY <1>1, <1>2, <1>3 DEF Next

\* The state of a worker that has a connection is always one that the code
\* intends: the buffer continues the stream where reading stopped, and the
\* request that is handled is the one the buffer begins with
\* (process_new_connection, read_request, forward_body_data).
THEOREM ConnInvariant == Spec => []ConnInv
<1>1. Init => ConnInv
  BY InitInv
<1>2. ConnInv /\ [Next]_vars => ConnInv'
  BY StepInv
<1> QED BY <1>1, <1>2, PTL DEF Spec

-----------------------------------------------------------------------------
(* What the invariant says of requests, bodies and answers. *)

LEMMA OwnBytesHold ==
    ASSUME ConnInv
    PROVE  OwnBytes
<1>1. Types /\ Flow /\ Streams
  BY DEF ConnInv
<1>2. ASSUME NEW i \in 1 .. Len(buf), pc \notin {"idle", "close"}
      PROVE  buf[i][1] = cur
  <2>1. cur \in Conns /\ script \in Scripts /\ Len(buf) \in Nat
    BY <1>1, <1>2, TypesFacts DEF Types
  <2>2. \E k, q \in Nat : Lined(k, q)
    <3>1. CASE pc \in {"read", "parse"}
      <4>1. ReadOk
        BY <1>1, <3>1 DEF Flow, ParseOk
      <4>2. PICK k \in Places : Lined(k, k + Len(buf))
        BY <4>1 DEF ReadOk
      <4>3. k \in Nat
        BY <4>2 DEF Places
      <4> QED BY <2>1, <4>2, <4>3
    <3>2. CASE Busy
      <4>1. Begin(cur, got[2]) \in Places /\ \E q \in Places : Lined(Begin(cur, got[2]), q)
        BY <1>1, <3>2, HeldFacts DEF Held
      <4>2. \A p \in Places : p \in Nat
        BY DEF Places
      <4> QED BY <4>1, <4>2
    <3>3. CASE pc = "discard"
      <4>1. \E k, q \in Places : Lined(k, q)
        BY <1>1, <3>3 DEF Flow, DiscardOk
      <4>2. \A p \in Places : p \in Nat
        BY DEF Places
      <4> QED BY <4>1, <4>2
    <3> QED BY <1>1, <1>2, <3>1, <3>2, <3>3 DEF Types, Busy
  <2>3. PICK k \in Nat, q \in Nat : Lined(k, q)
    BY <2>2
  <2>4. PICK L \in Nat : L = Len(Stream(cur))
    BY <2>1, Layout
  <2>5. buf[i] = Stream(cur)[k + i] /\ k + i \in 1 .. L
    BY <1>2, <2>1, <2>3, <2>4 DEF Lined
  <2>6. PICK p \in 1 .. L : p = k + i
    BY <2>5
  <2>7. Stream(cur)[p][1] = cur
    BY <2>1, <2>4, <2>6, OwnUnits
  <2> QED BY <2>5, <2>6, <2>7
<1>3. \A c \in Conns : \A i \in 1 .. Len(parsed[c]) : parsed[c][i][1] \in {0, c}
  BY <1>1 DEF Streams
<1> QED BY <1>2, <1>3 DEF OwnBytes

LEMMA StoredHold ==
    ASSUME ConnInv
    PROVE  StoredExactly
<1>1. Types /\ Flow /\ script \in Scripts
  BY DEF ConnInv, Types
<1>2. PICK n \in Nat : n = Len(input)
  BY <1>1 DEF Types
<1>3. ASSUME pc \in {"handle", "body", "pull", "discard"}, got # <<0, 0>>
      PROVE  input = Take(Body(got), Len(input)) /\ got \in Ids /\ Request(got).body \in Nat
  <2>1. Given(n) /\ got \in Ids
    <3>1. CASE Busy
      BY <1>1, <1>2, <3>1, HeldFacts DEF Held
    <3>2. CASE pc = "discard"
      BY <1>1, <1>2, <1>3, <3>2 DEF Flow, DiscardOk, Types, Known
    <3> QED BY <1>3, <3>1, <3>2 DEF Busy
  <2>2. PICK b \in Nat : b = Request(got).body
    BY <1>1, <2>1, RequestFacts
  <2>3. n <= b /\ Len(input) = n /\ \A i \in 1 .. n : input[i] = <<got[1], got[2], i>>
    BY <2>1, <2>2 DEF Given
  <2>4. input = [i \in 1 .. n |-> <<got[1], got[2], i>>]
    <3>1. input \in [1 .. n -> Units]
      BY <1>1, <2>3, SeqDef DEF Types
    <3> QED BY <2>3, <3>1
  <2>5. PICK B : B = Body(got)
    OBVIOUS
  <2>6. B = [i \in 1 .. b |-> <<got[1], got[2], i>>]
    BY <2>2, <2>5 DEF Body
  <2>7. Len(B) = b
    BY <2>6
  <2>8. Take(B, n) = [i \in 1 .. n |-> <<got[1], got[2], i>>]
    <3>1. (IF Len(B) < n THEN Len(B) ELSE n) = n
      BY <2>3, <2>7
    <3>2. SubSeq(B, 1, n) = [i \in 1 .. n |-> B[i]]
      BY <2>3, <2>7
    <3>3. \A i \in 1 .. n : B[i] = <<got[1], got[2], i>>
      BY <2>3, <2>6
    <3> QED BY <3>1, <3>2, <3>3 DEF Take
  <2> QED BY <1>2, <2>1, <2>2, <2>4, <2>5, <2>8
<1>4. ASSUME pc = "discard", got # <<0, 0>>, status_code \in {200, 201, 206}, Request(got).method = "PUT",
             ~Request(got).slash, edit = "none" \/ dest \notin {PwFile, TmpFile}
      PROVE  /\ Exists(fs, dest)
             /\ fs[dest].data = [i \in 1 .. IF input = <<>> THEN 0 ELSE Request(got).from |-> 0]
                                    \o [i \in 1 .. Request(got).body |-> i]
  <2>1. Stored(n) /\ n = Request(got).body
    BY <1>1, <1>2, <1>4 DEF Flow, DiscardOk
  <2>2. PICK gap \in Nat : gap = IF n = 0 THEN 0 ELSE Request(got).from
    BY <1>1, <1>3, <1>4, RequestFacts
  <2>3. dest \in DOMAIN fs /\ fs[dest] = File(Filled(gap, n))
    BY <1>4, <2>1, <2>2 DEF Stored
  <2>4. fs[dest].data = Filled(gap, n)
    BY <2>3 DEF File
  <2>5. (input = <<>>) <=> (n = 0)
    BY <1>1, <1>2 DEF Types
  <2>6. (IF input = <<>> THEN 0 ELSE Request(got).from) = gap
    BY <2>2, <2>5
  <2>7. Filled(gap, n) = [i \in 1 .. gap |-> 0] \o [i \in 1 .. n |-> i]
    <3>1. PICK z, o : z = [i \in 1 .. gap |-> 0] /\ o = [i \in 1 .. n |-> i]
      OBVIOUS
    <3>2. /\ z \in Seq(Nat) /\ Len(z) = gap /\ o \in Seq(Nat) /\ Len(o) = n
          /\ (\A i \in 1 .. gap : z[i] = 0) /\ (\A i \in 1 .. n : o[i] = i)
      BY <3>1
    <3>3. z \o o \in Seq(Nat) /\ Len(z \o o) = gap + n
      BY <3>2
    <3>4. \A i \in 1 .. gap + n : (z \o o)[i] = IF i <= gap THEN 0 ELSE i - gap
      BY <3>2
    <3>5. z \o o = [i \in 1 .. gap + n |-> IF i <= gap THEN 0 ELSE i - gap]
      <4>1. PICK x, m : x = z \o o /\ m = gap + n
        OBVIOUS
      <4>2. m \in Nat /\ x \in Seq(Nat) /\ Len(x) = m /\ \A i \in 1 .. m : x[i] = IF i <= gap THEN 0 ELSE i - gap
        BY <3>3, <3>4, <4>1
      <4>3. x \in [1 .. m -> Nat]
        BY <4>2, SeqDef
      <4>4. x = [i \in 1 .. m |-> IF i <= gap THEN 0 ELSE i - gap]
        BY <4>2, <4>3
      <4> QED BY <4>1, <4>4
    <3> QED BY <3>1, <3>5 DEF Filled
  <2> QED BY <2>1, <2>3, <2>4, <2>6, <2>7 DEF Exists
<1> QED BY <1>3, <1>4 DEF StoredExactly

\* A worker that serves one connection after another out of one buffer keeps
\* their requests, bodies and answers apart, for any clients, options, files
\* and size of the buffer (process_new_connection, discard_len).
THEOREM Apart == Spec => []RequestsApart
<1>1. ConnInv => TypeOK
  <2>1. ASSUME ConnInv
        PROVE  TypeOK
    <3>1. Types /\ cur \in Nat
      BY <2>1, TypesFacts DEF ConnInv
    <3>2. adrift \subseteq Conns
      BY <3>1, TypesFacts DEF Types, Conns
    <3> QED BY <3>1, <3>2 DEF TypeOK, Types
  <2> QED BY <2>1
<1>2. ConnInv => InStep
  BY DEF ConnInv, Streams, InStep
<1>3. ConnInv => OneAnswerEach
  BY DEF ConnInv, Answers, Replied, Firsts, Busy, OneAnswerEach
<1>4. ConnInv => RequestsApart
  BY <1>1, <1>2, <1>3, OwnBytesHold, StoredHold DEF RequestsApart
<1> QED BY <1>4, ConnInvariant, PTL
=============================================================================
