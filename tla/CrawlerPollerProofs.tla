------------------------- MODULE CrawlerPollerProofs -------------------------
(***************************************************************************)
(* Proofs about a crawler poller process, for any home agents, any number  *)
(* of threads, restarts, polls and sessions: home agents on their way from *)
(* the duplicate filter to the manager or to a poller (CrawlerPoller), the *)
(* records of the instrumentation service (PollerStatus), and the polling  *)
(* cycle of one home agent (PollCycle), for any devices and clock.         *)
(***************************************************************************)
EXTENDS CrawlerPoller, PollCycle, PollerStatus, SequenceTheorems,
        FiniteSetTheorems, WellFoundedInduction, TLAPS

Distinct(s) == \A i, j \in DOMAIN s : s[i] = s[j] => i = j

-----------------------------------------------------------------------------
(* Announcing home agents.                                                 *)

\* The process ends, and async_write fails, only while restarts are left.
FailuresCounted ==
    ~up \/ (\E i \in DOMAIN strand : strand[i][1] = "failed") => restarts < MaxRestarts

\* A writer holds an item from the moment it takes it to the moment it starts
\* the write or queues it; connected() has not run before the connection is there.
WriterItems ==
    /\ \A w \in Writer : writer[w].at \in {"idle", "next"} <=> writer[w].item = NoAgent
    /\ conn # "connected" => writer["connect"] = Idle

\* With one thread, send_in_progress_ covers a write from the moment it is
\* started to the moment its handler runs, and nobody else is in bufwrite
\* between looking at the flag and setting it.
OneThread ==
    threads = 1 =>
        /\ writer["strand"] = Idle \/ writer["connect"] = Idle
        /\ \A w \in Writer : writer[w].at = "send" => ~send_in_progress
        /\ Len(writes) <= 1
        /\ writes # << >> => send_in_progress
        /\ \A i \in DOMAIN strand : strand[i][1] # "send" =>
              /\ send_in_progress /\ writes = << >>
              /\ \A j \in DOMAIN strand : strand[j][1] # "send" => i = j

\* A home agent is in one place between its assignment and its poller, and is
\* known to whoever sees to it that it gets one only: the manager or the filter.
Once ==
    /\ Distinct(inbox) /\ Distinct(creating)
    /\ Elems(inbox) \cap Elems(creating) = {}
    /\ \A h \in HomeAgent : pollers[h] > 0 => pollers[h] = 1 /\ h \notin Elems(inbox) \cup Elems(creating)
    /\ managed => \A h \in HomeAgent :
          h \in Elems(inbox) \cup Elems(creating) \/ pollers[h] > 0 => h \in assigned
    /\ ~managed => /\ conn = "resolving" /\ inbox = << >>
                   /\ \A h \in HomeAgent :
                        h \in Elems(creating) \/ pollers[h] > 0 => h \in filter \ passing

AgentsInv ==
    /\ TypeOK /\ IsFiniteSet(passing)
    /\ FailuresCounted /\ WriterItems /\ OneThread /\ NoneForgotten /\ Once

\* What is in a sequence, and in it only once.
LEMMA InEmpty == Elems(<< >>) = {} /\ Distinct(<< >>)
  BY EmptySeq DEF Elems, Distinct

LEMMA InAppend ==
    ASSUME NEW S, NEW s \in Seq(S), NEW x \in S
    PROVE  /\ Append(s, x) \in Seq(S) /\ Append(s, x) # << >> /\ Elems(Append(s, x)) = Elems(s) \cup {x}
           /\ Distinct(s) /\ x \notin Elems(s) => Distinct(Append(s, x))
  <1> DEFINE t == Append(s, x)
  <1>1. /\ t \in Seq(S) /\ t # << >> /\ Len(s) \in Nat /\ DOMAIN s = 1 .. Len(s) /\ DOMAIN t = 1 .. (Len(s) + 1)
        /\ \A i \in 1 .. Len(s) : t[i] = s[i]
        /\ t[Len(s) + 1] = x
    OBVIOUS
  <1>2. \A i \in DOMAIN t : i \in DOMAIN s \/ i = Len(s) + 1
    BY <1>1
  <1>3. Len(s) + 1 \in DOMAIN t /\ Len(s) + 1 \notin DOMAIN s /\ DOMAIN s \subseteq DOMAIN t
    BY <1>1
  <1> HIDE DEF t
  <1>4. Elems(t) = Elems(s) \cup {x}
    BY <1>1, <1>2, <1>3 DEF Elems
  <1>5. ASSUME Distinct(s), x \notin Elems(s) PROVE Distinct(t)
    BY <1>1, <1>2, <1>3, <1>5 DEF Distinct, Elems
  <1> QED BY <1>1, <1>4, <1>5 DEF t

LEMMA InTail ==
    ASSUME NEW S, NEW s \in Seq(S), s # << >>
    PROVE  /\ Head(s) \in S /\ Tail(s) \in Seq(S) /\ Elems(s) = Elems(Tail(s)) \cup {Head(s)}
           /\ Head(s) = s[1] /\ 1 \in DOMAIN s
           /\ \A i \in DOMAIN Tail(s) : i + 1 \in DOMAIN s /\ i + 1 # 1 /\ Tail(s)[i] = s[i + 1] /\ i \in Nat
           /\ Distinct(s) => Distinct(Tail(s)) /\ Head(s) \notin Elems(Tail(s))
  <1> DEFINE t == Tail(s)
  <1>1. /\ Head(s) \in S /\ t \in Seq(S) /\ Head(s) = s[1] /\ Len(s) \in Nat \ {0}
        /\ DOMAIN s = 1 .. Len(s) /\ DOMAIN t = 1 .. (Len(s) - 1)
        /\ \A i \in 1 .. (Len(s) - 1) : t[i] = s[i + 1]
    OBVIOUS
  <1>2. 1 \in DOMAIN s /\ \A i \in DOMAIN t : i + 1 \in DOMAIN s /\ i + 1 # 1 /\ t[i] = s[i + 1] /\ i \in Nat
    BY <1>1
  <1>3. \A k \in DOMAIN s : k = 1 \/ \E i \in DOMAIN t : k = i + 1
    <2> TAKE k \in DOMAIN s
    <2>1. k = 1 \/ (k - 1 \in DOMAIN t /\ k = (k - 1) + 1)
      BY <1>1
    <2> QED BY <2>1
  <1> HIDE DEF t
  <1>4. Elems(s) = Elems(t) \cup {Head(s)}
    <2>1. ASSUME NEW x \in Elems(s) PROVE x \in Elems(t) \cup {Head(s)}
      <3>1. PICK k \in DOMAIN s : x = s[k]
        BY DEF Elems
      <3>2. CASE k = 1
        BY <3>1, <3>2, <1>1
      <3>3. CASE k # 1
        <4>1. PICK i \in DOMAIN t : k = i + 1
          BY <3>3, <1>3
        <4> QED BY <3>1, <4>1, <1>2 DEF Elems
      <3> QED BY <3>2, <3>3
    <2>2. ASSUME NEW x \in Elems(t) PROVE x \in Elems(s)
      BY <1>2 DEF Elems
    <2>3. Head(s) \in Elems(s)
      BY <1>1, <1>2 DEF Elems
    <2> QED BY <2>1, <2>2, <2>3
  <1>5. ASSUME Distinct(s) PROVE Distinct(t) /\ Head(s) \notin Elems(t)
    <2>1. \A i, j \in DOMAIN t : i + 1 = j + 1 => i = j
      BY <1>2
    <2>2. Distinct(t)
      BY <1>2, <1>5, <2>1 DEF Distinct
    <2>3. Head(s) \notin Elems(t)
      BY <1>1, <1>2, <1>5 DEF Distinct, Elems
    <2> QED BY <2>2, <2>3
  <1> QED BY <1>1, <1>2, <1>4, <1>5 DEF t

LEMMA InRemoved ==
    ASSUME NEW S, NEW s \in Seq(S), NEW i \in DOMAIN s
    PROVE  LET t == SubSeq(s, 1, i - 1) \o SubSeq(s, i + 1, Len(s)) IN
           /\ t \in Seq(S) /\ Len(t) = Len(s) - 1 /\ s[i] \in S
           /\ Elems(s) \subseteq Elems(t) \cup {s[i]}
  <1> DEFINE a == SubSeq(s, 1, i - 1)
             b == SubSeq(s, i + 1, Len(s))
             t == a \o b
  <1>1. Len(s) \in Nat /\ DOMAIN s = 1 .. Len(s) /\ i \in 1 .. Len(s) /\ s[i] \in S
    OBVIOUS
  <1>2. a \in Seq(S) /\ Len(a) = i - 1 /\ \A k \in 1 .. (i - 1) : a[k] = s[k]
    BY <1>1
  <1>3. b \in Seq(S) /\ Len(b) = Len(s) - i /\ \A k \in 1 .. (Len(s) - i) : b[k] = s[i + k]
    BY <1>1
  <1> HIDE DEF a, b
  <1>4. /\ t \in Seq(S) /\ Len(t) = Len(a) + Len(b) /\ DOMAIN t = 1 .. (Len(a) + Len(b))
        /\ \A k \in 1 .. Len(a) : t[k] = a[k]
        /\ \A k \in 1 .. Len(b) : t[Len(a) + k] = b[k]
    <2>1. /\ t \in Seq(S) /\ Len(t) = Len(a) + Len(b) /\ Len(a) \in Nat /\ Len(b) \in Nat
          /\ \A k \in 1 .. Len(a) + Len(b) : t[k] = IF k <= Len(a) THEN a[k] ELSE b[k - Len(a)]
      BY <1>2, <1>3, ConcatProperties, LenProperties
    <2>2. DOMAIN t = 1 .. Len(t)
      <3> HIDE DEF t
      <3> QED BY <2>1
    <2> HIDE DEF t
    <2>3. \A k \in 1 .. Len(a) : t[k] = a[k]
      BY <2>1
    <2>4. ASSUME NEW k \in 1 .. Len(b) PROVE t[Len(a) + k] = b[k]
      <3>1. Len(a) + k \in 1 .. Len(a) + Len(b) /\ ~(Len(a) + k <= Len(a)) /\ (Len(a) + k) - Len(a) = k
        BY <2>1
      <3> QED BY <2>1, <3>1
    <2> QED BY <2>1, <2>2, <2>3, <2>4
  <1> HIDE DEF t
  <1>5. Len(t) = Len(s) - 1
    BY <1>1, <1>2, <1>3, <1>4
  <1>6. ASSUME NEW k \in DOMAIN s, k # i PROVE s[k] \in Elems(t)
    <2>1. CASE k < i
      <3>1. k \in DOMAIN t /\ t[k] = s[k]
        BY <2>1, <1>1, <1>2, <1>3, <1>4
      <3> QED BY <3>1 DEF Elems
    <2>2. CASE k > i
      <3> DEFINE m == k - i
      <3>1. m \in 1 .. (Len(s) - i) /\ i + m = k /\ Len(a) + m = k - 1
        BY <2>2, <1>1, <1>2
      <3>2. k - 1 \in DOMAIN t
        <4>1. k - 1 \in 1 .. (Len(s) - 1)
          BY <2>2, <1>1
        <4>2. DOMAIN t = 1 .. Len(t)
          BY <1>4
        <4> QED BY <4>1, <4>2, <1>5
      <3> HIDE DEF m
      <3>3. t[k - 1] = s[k]
        BY <3>1, <1>3, <1>4
      <3> QED BY <3>2, <3>3 DEF Elems
    <2> QED BY <2>1, <2>2, <1>1, <1>6
  <1>7. Elems(s) \subseteq Elems(t) \cup {s[i]}
    BY <1>6 DEF Elems
  <1> QED BY <1>1, <1>4, <1>5, <1>7 DEF a, b, t

\* A free thread: with one thread, nobody else is in a handler.
LEMMA FreeThread ==
    ASSUME AgentsInv, Free
    PROVE  /\ up /\ seeding = << >>
           /\ threads = 1 => passing = {} /\ \A w \in Writer : writer[w] = Idle
  <1> DEFINE B == {w \in Writer : writer[w] # Idle}
  <1>1. IsFiniteSet(B) /\ IsFiniteSet(passing)
    <2>1. IsFiniteSet({"strand"}) /\ IsFiniteSet({"strand"} \cup {"connect"})
      BY FS_Singleton, FS_AddElement
    <2>2. Writer = {"strand"} \cup {"connect"}
      BY DEF Writer
    <2> QED BY <2>1, <2>2, FS_Subset DEF AgentsInv
  <1> HIDE DEF B
  <1>2. Cardinality(B) \in Nat /\ Cardinality(passing) \in Nat
    BY <1>1, FS_CardinalityType
  <1>3. up /\ seeding = << >> /\ Cardinality(B) + Cardinality(passing) < threads
    BY DEF Free, Busy, B
  <1>4. ASSUME threads = 1 PROVE B = {} /\ passing = {}
    <2>1. Cardinality(B) = 0 /\ Cardinality(passing) = 0
      BY <1>2, <1>3, <1>4
    <2> QED BY <2>1, <1>1, FS_EmptySet
  <1> QED BY <1>3, <1>4 DEF B

\* Parts of the invariant that a step leaves alone.
LEMMA OnceKept ==
    ASSUME Once, UNCHANGED <<managed, inbox, creating, pollers, assigned, filter, passing>>,
           conn' = conn \/ managed
    PROVE  Once'
  BY DEF Once, Distinct, Elems

LEMMA ForgottenKept ==
    ASSUME NoneForgotten, UNCHANGED <<managed, up, filter, passing, strand, send_queue, writes, wire, creating, pollers>>,
           \A w \in Writer : writer[w].item # NoAgent => writer'[w].item = writer[w].item,
           NoAgent \notin HomeAgent
    PROVE  NoneForgotten'
  <1>1. Announced \subseteq Announced'
    BY DEF Announced, InBufwrite, Elems
  <1> QED BY <1>1 DEF NoneForgotten, Elems

LEMMA DownForgotten == ASSUME up' = FALSE PROVE NoneForgotten'
  BY DEF NoneForgotten

LEMMA AgentsInitial == Init => AgentsInv
  <1> SUFFICES ASSUME Init PROVE AgentsInv
    OBVIOUS
  <1>1. << >> \in Seq(HomeAgent) /\ << >> \in Seq(Handler) /\ DOMAIN << >> = {} /\ Len(<< >>) = 0
    BY EmptySeq
  <1>2. TypeOK
    <2>1. managed \in BOOLEAN /\ up \in BOOLEAN /\ connected \in BOOLEAN /\ send_in_progress \in BOOLEAN
      BY DEF Init
    <2>2. writer \in [Writer -> WriterState] /\ pollers \in [HomeAgent -> Nat]
      BY DEF Init, Idle, WriterState
    <2>3. restarts \in 0 .. MaxRestarts /\ seeding \in Seq(HomeAgent)
      BY CrawlerPollerAssumption DEF Init
    <2> QED BY <1>1, <2>1, <2>2, <2>3 DEF Init, TypeOK
  <1>3. IsFiniteSet(passing)
    BY FS_EmptySet DEF Init
  <1>4. FailuresCounted /\ WriterItems
    BY <1>1 DEF Init, FailuresCounted, WriterItems, Idle, Writer
  <1>5. OneThread
    BY <1>1 DEF Init, OneThread, Idle, Writer
  <1>6. NoneForgotten /\ Once
    BY InEmpty DEF Init, NoneForgotten, Once
  <1> QED BY <1>2, <1>3, <1>4, <1>5, <1>6 DEF AgentsInv

LEMMA RestartKeeps ==
    ASSUME AgentsInv, Restart
    PROVE  AgentsInv'
  <1>1. << >> \in Seq(HomeAgent) /\ << >> \in Seq(Handler) /\ DOMAIN << >> = {} /\ Len(<< >>) = 0
    BY EmptySeq
  <1>2. TypeOK'
    <2>1. managed' \in BOOLEAN /\ up' \in BOOLEAN /\ connected' \in BOOLEAN /\ send_in_progress' \in BOOLEAN
      BY DEF Restart, options, AgentsInv, TypeOK
    <2>2. writer' \in [Writer -> WriterState] /\ pollers' \in [HomeAgent -> Nat]
      BY DEF Restart, Idle, WriterState
    <2>3. restarts' \in 0 .. MaxRestarts /\ seeding' \in Seq(HomeAgent)
      BY CrawlerPollerAssumption DEF Restart, AgentsInv, TypeOK, FailuresCounted
    <2>4. threads' \in Threads
      BY DEF Restart, options, AgentsInv, TypeOK
    <2> QED BY <1>1, <2>1, <2>2, <2>3, <2>4 DEF Restart, TypeOK
  <1>3. IsFiniteSet(passing')
    BY FS_EmptySet DEF Restart
  <1>4. FailuresCounted' /\ WriterItems'
    BY <1>1 DEF Restart, FailuresCounted, WriterItems, Idle, Writer
  <1>5. OneThread'
    BY <1>1 DEF Restart, OneThread, Idle, Writer
  <1>6. NoneForgotten' /\ Once'
    BY InEmpty DEF Restart, NoneForgotten, Once
  <1> QED BY <1>2, <1>3, <1>4, <1>5, <1>6 DEF AgentsInv

\* What goes from the filter to a strand.
LEMMA PassOnKeeps ==
    ASSUME AgentsInv, NEW h \in HomeAgent, PassOn(h), up, up' = up,
           filter' = filter \cup {h}, passing' = passing \ {h}, h \in passing \/ h \notin filter,
           seeding' \in Seq(HomeAgent),
           UNCHANGED <<options, restarts, manVars, pollers, writer, connected, send_queue, send_in_progress,
                       writes, wire>>
    PROVE  AgentsInv'
  <1> USE DEF options, manVars
  <1>1. TypeOK /\ FailuresCounted /\ WriterItems /\ OneThread /\ NoneForgotten /\ Once /\ passing \subseteq filter
    BY DEF AgentsInv, TypeOK
  <1>2. <<"send", h>> \in Handler /\ <<"send", h>>[1] = "send" /\ <<"send", h>>[2] = h
    BY DEF Handler
  <1>3. /\ Append(strand, <<"send", h>>) \in Seq(Handler)
        /\ Elems(Append(strand, <<"send", h>>)) = Elems(strand) \cup {<<"send", h>>}
    BY <1>1, <1>2, InAppend DEF TypeOK
  <1>4. /\ Append(creating, h) \in Seq(HomeAgent)
        /\ Elems(Append(creating, h)) = Elems(creating) \cup {h}
        /\ Distinct(creating) /\ h \notin Elems(creating) => Distinct(Append(creating, h))
    BY <1>1, InAppend DEF TypeOK
  <1>5. strand' \in Seq(Handler) /\ creating' \in Seq(HomeAgent)
    BY <1>1, <1>3, <1>4 DEF PassOn, TypeOK
  <1>6. TypeOK' /\ IsFiniteSet(passing')
    <2>1. IsFiniteSet(passing')
      BY FS_RemoveElement DEF AgentsInv
    <2>2. TypeOK'
      BY <1>1, <1>5 DEF TypeOK
    <2> QED BY <2>1, <2>2
  <1>7. \A i \in DOMAIN strand' : strand'[i][1] # "send" => i \in DOMAIN strand /\ strand'[i] = strand[i]
    <2>1. Len(strand) \in Nat /\ DOMAIN strand = 1 .. Len(strand)
      BY <1>1 DEF TypeOK
    <2>2. CASE managed
      <3>1. /\ DOMAIN strand' = 1 .. (Len(strand) + 1) /\ strand'[Len(strand) + 1] = <<"send", h>>
            /\ \A i \in 1 .. Len(strand) : strand'[i] = strand[i]
        BY <1>1, <1>2, <2>1, <2>2 DEF PassOn, TypeOK
      <3> QED BY <1>2, <2>1, <3>1
    <2>3. CASE ~managed
      BY <2>3 DEF PassOn
    <2> QED BY <2>2, <2>3
  <1>8. FailuresCounted' /\ WriterItems'
    BY <1>1, <1>7 DEF FailuresCounted, WriterItems
  <1>9. OneThread'
    BY <1>1, <1>7 DEF OneThread
  <1>10. NoneForgotten'
    <2>1. CASE managed
      <3>1. strand' = Append(strand, <<"send", h>>)
        BY <2>1 DEF PassOn
      <3>2. Announced \cup {h} \subseteq Announced'
        BY <1>3, <3>1 DEF Announced, InBufwrite
      <3> QED BY <1>1, <2>1, <3>2 DEF NoneForgotten
    <2>2. CASE ~managed
      BY <1>1, <1>4, <2>2 DEF NoneForgotten, PassOn
    <2> QED BY <2>1, <2>2
  <1>11. Once'
    <2>1. CASE managed
      BY <1>1, <2>1, OnceKept DEF PassOn, Once
    <2>2. CASE ~managed
      <3>1. creating' = Append(creating, h) /\ inbox = << >> /\ Elems(inbox) = {}
        BY <1>1, <2>2, InEmpty DEF PassOn, Once
      <3>2. h \notin Elems(creating) /\ ~(pollers[h] > 0)
        BY <1>1, <2>2 DEF Once
      <3> QED BY <1>1, <1>4, <2>2, <3>1, <3>2 DEF Once
    <2> QED BY <2>1, <2>2
  <1> QED BY <1>6, <1>8, <1>9, <1>10, <1>11 DEF AgentsInv

\* Only what main has still to announce changes, or nothing.
LEMMA OnlySeeding ==
    ASSUME AgentsInv, seeding' \in Seq(HomeAgent), UNCHANGED <<options, up, restarts, manVars, pollVars, bufVars>>
    PROVE  AgentsInv'
  <1> USE DEF options, manVars, pollVars, bufVars
  <1>1. TypeOK' /\ IsFiniteSet(passing')
    BY DEF AgentsInv, TypeOK
  <1>2. FailuresCounted' /\ WriterItems' /\ OneThread'
    BY DEF AgentsInv, FailuresCounted, WriterItems, OneThread
  <1>3. NoneForgotten'
    BY CrawlerPollerAssumption, ForgottenKept DEF AgentsInv
  <1>4. Once'
    BY OnceKept DEF AgentsInv
  <1> QED BY <1>1, <1>2, <1>3, <1>4 DEF AgentsInv

LEMMA SeedKeeps ==
    ASSUME AgentsInv, AnnounceSeed
    PROVE  AgentsInv'
  <1> DEFINE h == Head(seeding)
  <1>1. h \in HomeAgent /\ seeding' \in Seq(HomeAgent) /\ passing \subseteq filter
    BY InTail DEF AgentsInv, TypeOK, AnnounceSeed
  <1>2. CASE h \notin filter
    <2>1. passing' = passing \ {h} /\ filter' = filter \cup {h} /\ PassOn(h) /\ up /\ up' = up
      BY <1>1, <1>2 DEF AnnounceSeed
    <2>2. UNCHANGED <<options, restarts, manVars, pollers, writer, connected, send_queue, send_in_progress,
                       writes, wire>>
      BY DEF AnnounceSeed
    <2> HIDE DEF h
    <2> QED BY <1>1, <1>2, <2>1, <2>2, PassOnKeeps
  <1>3. CASE h \in filter
    <2>1. UNCHANGED <<options, up, restarts, manVars, pollVars, bufVars>>
      BY <1>3 DEF AnnounceSeed, pollVars, bufVars
    <2> QED BY <1>1, <2>1, OnlySeeding
  <1> QED BY <1>2, <1>3

LEMMA PassKeeps ==
    ASSUME AgentsInv, NEW h \in HomeAgent, pass_on(h)
    PROVE  AgentsInv'
  <1>1. /\ PassOn(h) /\ up /\ up' = up /\ passing' = passing \ {h} /\ h \in passing
        /\ UNCHANGED <<options, restarts, manVars, pollers, writer, connected, send_queue, send_in_progress,
                       writes, wire>>
    BY DEF pass_on
  <1>2. filter' = filter \cup {h} /\ seeding' \in Seq(HomeAgent)
    BY <1>1 DEF pass_on, AgentsInv, TypeOK
  <1> QED BY <1>1, <1>2, PassOnKeeps

LEMMA StopKeeps ==
    ASSUME AgentsInv, Stop
    PROVE  AgentsInv'
  <1> USE DEF options, manVars, pollVars, bufVars
  <1>1. TypeOK' /\ IsFiniteSet(passing')
    BY DEF AgentsInv, TypeOK, Stop
  <1>2. FailuresCounted' /\ WriterItems' /\ OneThread'
    BY DEF AgentsInv, FailuresCounted, WriterItems, OneThread, Stop
  <1>3. NoneForgotten'
    BY DownForgotten DEF Stop
  <1>4. Once'
    BY OnceKept DEF AgentsInv, Stop
  <1> QED BY <1>1, <1>2, <1>3, <1>4 DEF AgentsInv

LEMMA ResolveKeeps ==
    ASSUME AgentsInv, handle_resolve
    PROVE  AgentsInv'
  <1> USE DEF options, pollVars, bufVars
  <1>1. TypeOK' /\ IsFiniteSet(passing')
    BY DEF AgentsInv, TypeOK, handle_resolve
  <1>2. FailuresCounted' /\ WriterItems' /\ OneThread'
    BY DEF AgentsInv, FailuresCounted, WriterItems, OneThread, handle_resolve
  <1>3. NoneForgotten'
    BY CrawlerPollerAssumption, ForgottenKept DEF AgentsInv, handle_resolve
  <1>4. Once'
    BY OnceKept DEF AgentsInv, handle_resolve
  <1> QED BY <1>1, <1>2, <1>3, <1>4 DEF AgentsInv

LEMMA ConnectKeeps ==
    ASSUME AgentsInv, handle_connect
    PROVE  AgentsInv'
  <1> USE DEF options, pollVars, bufVars
  <1> DEFINE go == [at |-> "next", item |-> NoAgent]
  <1>1. /\ threads = 1 => \A w \in Writer : writer[w] = Idle
        /\ writer["connect"] = Idle
        /\ writer \in [Writer -> WriterState] /\ "connect" \in Writer /\ "strand" \in Writer
    BY FreeThread DEF AgentsInv, TypeOK, WriterItems, handle_connect, Writer
  <1>2. go \in WriterState /\ go.at = "next" /\ go.item = NoAgent /\ Idle.at = "idle" /\ Idle.item = NoAgent
    BY DEF WriterState, Idle
  <1>3. writer' \in [Writer -> WriterState] /\ writer'["connect"] = go /\ writer'["strand"] = writer["strand"]
    BY <1>1, <1>2 DEF handle_connect, Writer
  <1> HIDE DEF go
  <1>4. TypeOK' /\ IsFiniteSet(passing')
    BY <1>3 DEF AgentsInv, TypeOK, handle_connect
  <1>5. FailuresCounted' /\ WriterItems'
    BY <1>1, <1>2, <1>3 DEF AgentsInv, FailuresCounted, WriterItems, handle_connect, Writer
  <1>6. OneThread'
    BY <1>1, <1>2, <1>3 DEF AgentsInv, OneThread, handle_connect, Writer
  <1>7. NoneForgotten'
    <2>1. \A w \in Writer : writer[w].item # NoAgent => writer'[w].item = writer[w].item
      BY <1>1, <1>2, <1>3 DEF Writer
    <2> QED BY <2>1, CrawlerPollerAssumption, ForgottenKept DEF AgentsInv, handle_connect
  <1>8. Once'
    BY OnceKept DEF AgentsInv, handle_connect
  <1> QED BY <1>4, <1>5, <1>6, <1>7, <1>8 DEF AgentsInv

\* The strand runs the next handler.
LEMMA StrandKeeps ==
    ASSUME AgentsInv, RunStrand
    PROVE  AgentsInv'
  <1> USE DEF options, manVars, pollVars
  <1> DEFINE first == Head(strand)
  <1>1. TypeOK /\ FailuresCounted /\ WriterItems /\ OneThread /\ NoneForgotten /\ Once /\ IsFiniteSet(passing)
    BY DEF AgentsInv
  <1>2. /\ up
        /\ threads = 1 => \A w \in Writer : writer[w] = Idle
        /\ writer["strand"] = Idle
        /\ writer \in [Writer -> WriterState] /\ "connect" \in Writer /\ "strand" \in Writer
    BY FreeThread DEF AgentsInv, TypeOK, RunStrand, Writer
  <1>3. /\ first \in Handler /\ strand' \in Seq(Handler) /\ Elems(strand) = Elems(strand') \cup {first}
        /\ 1 \in DOMAIN strand /\ strand[1] = first
        /\ \A i \in DOMAIN strand' : i + 1 \in DOMAIN strand /\ i + 1 # 1 /\ strand'[i] = strand[i + 1] /\ i \in Nat
    BY <1>1, InTail DEF TypeOK, RunStrand
  <1>4. first[2] \in HomeAgent /\ first = <<first[1], first[2]>> /\ first[2] # NoAgent
    BY <1>3, CrawlerPollerAssumption DEF Handler
  <1>5. Idle.at = "idle" /\ Idle.item = NoAgent
    BY DEF Idle
  <1>6. Once'
    BY <1>1, OnceKept DEF RunStrand
  <1>7. ASSUME threads = 1, first[1] # "send"
        PROVE  writes = << >> /\ \A i \in DOMAIN strand' : strand'[i][1] = "send"
    BY <1>1, <1>3, <1>7 DEF OneThread
  <1>8. ASSUME threads = 1 PROVE \A i, j \in DOMAIN strand' : i + 1 = j + 1 => i = j
    BY <1>3
  <1>a. CASE first[1] = "send"
    <2> DEFINE s == [at |-> "check", item |-> first[2]]
    <2>1. s \in WriterState /\ s.at = "check" /\ s.item = first[2]
      BY <1>4 DEF WriterState
    <2>2. writer' = [writer EXCEPT !["strand"] = s] /\ UNCHANGED <<up, send_queue, send_in_progress>>
      BY <1>a DEF RunStrand
    <2> HIDE DEF s, first
    <2>3. writer' \in [Writer -> WriterState] /\ writer'["strand"] = s /\ writer'["connect"] = writer["connect"]
      BY <1>2, <2>1, <2>2 DEF Writer
    <2>4. TypeOK' /\ IsFiniteSet(passing')
      BY <1>1, <1>3, <2>2, <2>3 DEF TypeOK, RunStrand
    <2>5. FailuresCounted'
      BY <1>1, <1>3, <2>2 DEF FailuresCounted, RunStrand
    <2>6. WriterItems'
      BY <1>1, <1>4, <2>1, <2>3 DEF WriterItems, RunStrand, Writer
    <2>7. OneThread'
      <3> SUFFICES ASSUME threads = 1 PROVE OneThread'
        BY DEF OneThread, RunStrand
      <3>1. writer'["connect"] = Idle /\ \A w \in Writer : writer'[w].at # "send"
        BY <1>2, <1>5, <2>1, <2>3 DEF Writer
      <3>2. ASSUME NEW i \in DOMAIN strand', strand'[i][1] # "send"
            PROVE  /\ send_in_progress /\ writes = << >>
                   /\ \A j \in DOMAIN strand' : strand'[j][1] # "send" => i = j
        BY <1>1, <1>3, <1>8, <3>2 DEF OneThread
      <3> QED BY <1>1, <2>2, <3>1, <3>2 DEF OneThread, RunStrand
    <2>8. NoneForgotten'
      <3>1. \A h : <<"send", h>> = first => h = first[2]
        BY <1>4
      <3>2. first # <<"failed", first[2]>> /\ \A h : first # <<"failed", h>>
        BY <1>a
      <3>3. \A w \in Writer : writer[w].item # NoAgent => writer'[w].item = writer[w].item
        BY <1>2, <1>5, <2>3 DEF Writer
      <3>4. Announced \subseteq Announced'
        <4>1. UNCHANGED <<send_queue, writes, wire>>
          BY <2>2 DEF RunStrand
        <4>2. ASSUME NEW h \in InBufwrite PROVE h \in InBufwrite'
          <5>1. CASE <<"send", h>> \in Elems(strand')
            BY <5>1 DEF InBufwrite
          <5>2. CASE <<"send", h>> = first
            <6>1. writer'["strand"].item = h
              BY <3>1, <5>2, <2>1, <2>3
            <6> QED BY <6>1, <1>2 DEF InBufwrite
          <5>3. CASE \E w \in Writer : writer[w].item = h
            BY <3>3, <5>3, CrawlerPollerAssumption DEF InBufwrite
          <5>4. CASE h \in Elems(send_queue)
            BY <4>1, <5>4 DEF InBufwrite
          <5> QED BY <1>3, <5>1, <5>2, <5>3, <5>4 DEF InBufwrite
        <4>3. \A h : <<"failed", h>> \in Elems(strand) => <<"failed", h>> \in Elems(strand')
          BY <1>3, <3>2
        <4> QED BY <4>1, <4>2, <4>3 DEF Announced
      <3> QED BY <1>1, <2>2, <3>4 DEF NoneForgotten, RunStrand
    <2> QED BY <1>6, <2>4, <2>5, <2>6, <2>7, <2>8 DEF AgentsInv
  <1>b. CASE first[1] = "sent"
    <2> DEFINE s == [at |-> "next", item |-> NoAgent]
    <2>1. s \in WriterState /\ s.at = "next" /\ s.item = NoAgent
      BY DEF WriterState
    <2>2. writer' = [writer EXCEPT !["strand"] = s] /\ send_in_progress' = FALSE /\ UNCHANGED <<up, send_queue>>
      BY <1>b DEF RunStrand
    <2> HIDE DEF s, first
    <2>3. writer' \in [Writer -> WriterState] /\ writer'["strand"] = s /\ writer'["connect"] = writer["connect"]
      BY <1>2, <2>1, <2>2 DEF Writer
    <2>4. TypeOK' /\ IsFiniteSet(passing')
      <3>1. send_in_progress' \in BOOLEAN
        BY <2>2
      <3> QED BY <1>1, <1>3, <2>2, <2>3, <3>1 DEF TypeOK, RunStrand
    <2>5. FailuresCounted'
      BY <1>1, <1>3, <2>2 DEF FailuresCounted, RunStrand
    <2>6. WriterItems'
      BY <1>1, <2>1, <2>3 DEF WriterItems, RunStrand, Writer
    <2>7. OneThread'
      <3> SUFFICES ASSUME threads = 1 PROVE OneThread'
        BY DEF OneThread, RunStrand
      <3>1. writer'["connect"] = Idle
        BY <1>2, <2>3
      <3>2. writes' = << >> /\ \A i \in DOMAIN strand' : strand'[i][1] = "send"
        BY <1>7, <1>b DEF RunStrand
      <3>3. Len(writes') <= 1
        BY <3>2, EmptySeq
      <3> QED BY <2>2, <3>1, <3>2, <3>3 DEF OneThread
    <2>8. NoneForgotten'
      <3>1. \A h : first # <<"failed", h>> /\ first # <<"send", h>>
        BY <1>b
      <3>2. \A w \in Writer : writer[w].item # NoAgent => writer'[w].item = writer[w].item
        BY <1>2, <1>5, <2>3 DEF Writer
      <3>3. Announced \subseteq Announced'
        <4>1. UNCHANGED <<send_queue, writes, wire>>
          BY <2>2 DEF RunStrand
        <4>2. /\ \A h : <<"failed", h>> \in Elems(strand) => <<"failed", h>> \in Elems(strand')
              /\ \A h : <<"send", h>> \in Elems(strand) => <<"send", h>> \in Elems(strand')
          BY <1>3, <3>1
        <4>3. \A h \in HomeAgent : (\E w \in Writer : writer[w].item = h) => \E w \in Writer : writer'[w].item = h
          BY <3>2, CrawlerPollerAssumption
        <4> QED BY <4>1, <4>2, <4>3 DEF Announced, InBufwrite
      <3> QED BY <1>1, <2>2, <3>3 DEF NoneForgotten, RunStrand
    <2> QED BY <1>6, <2>4, <2>5, <2>6, <2>7, <2>8 DEF AgentsInv
  <1>c. CASE first[1] = "failed"
    <2>1. writer' = writer /\ send_in_progress' = FALSE /\ send_queue' = << >> /\ up' = FALSE
      BY <1>c DEF RunStrand
    <2>2. restarts < MaxRestarts
      BY <1>1, <1>3, <1>c DEF FailuresCounted
    <2> HIDE DEF first
    <2>3. TypeOK' /\ IsFiniteSet(passing')
      <3>1. send_in_progress' \in BOOLEAN /\ up' \in BOOLEAN /\ send_queue' \in Seq(HomeAgent)
        BY <2>1, EmptySeq
      <3> QED BY <1>1, <1>3, <2>1, <3>1 DEF TypeOK, RunStrand
    <2>4. FailuresCounted' /\ WriterItems'
      BY <1>1, <2>1, <2>2 DEF FailuresCounted, WriterItems, RunStrand
    <2>5. OneThread'
      <3> SUFFICES ASSUME threads = 1 PROVE OneThread'
        BY DEF OneThread, RunStrand
      <3>2. writes' = << >> /\ \A i \in DOMAIN strand' : strand'[i][1] = "send"
        BY <1>7, <1>c DEF RunStrand
      <3>3. Len(writes') <= 1
        BY <3>2, EmptySeq
      <3> QED BY <1>1, <2>1, <3>2, <3>3 DEF OneThread
    <2> QED BY <1>6, <2>1, <2>3, <2>4, <2>5, DownForgotten DEF AgentsInv
  <1> QED BY <1>3, <1>a, <1>b, <1>c DEF Handler

\* A writer takes the first item of the queue.
LEMMA NextItemKeeps ==
    ASSUME AgentsInv, NEW w \in Writer, send_next_bufitem(w)
    PROVE  AgentsInv'
  <1> USE DEF options, manVars, pollVars
  <1>1. TypeOK /\ FailuresCounted /\ WriterItems /\ OneThread /\ NoneForgotten /\ Once /\ IsFiniteSet(passing)
    BY DEF AgentsInv
  <1>2. /\ writer \in [Writer -> WriterState] /\ writer[w].at = "next" /\ writer[w].item = NoAgent
        /\ writer[w] # Idle /\ (conn = "connected" \/ w = "strand")
    BY <1>1 DEF TypeOK, WriterItems, send_next_bufitem, Writer, Idle
  <1>3. PICK s \in WriterState :
            /\ writer' = [writer EXCEPT ![w] = s] /\ s.at # "send" /\ (s.at \in {"idle", "next"} <=> s.item = NoAgent)
            /\ \/ s = Idle /\ UNCHANGED send_queue
               \/ send_queue # << >> /\ s.item = Head(send_queue) /\ send_queue' = Tail(send_queue)
    <2>1. CASE send_queue = << >>
      <3>1. writer' = [writer EXCEPT ![w] = Idle] /\ UNCHANGED send_queue
        BY <2>1 DEF send_next_bufitem
      <3>2. Idle \in WriterState /\ Idle.at = "idle" /\ Idle.item = NoAgent
        BY DEF Idle, WriterState
      <3> QED BY <3>1, <3>2
    <2>2. CASE send_queue # << >>
      <3> DEFINE s == [at |-> "check", item |-> Head(send_queue)]
      <3>1. writer' = [writer EXCEPT ![w] = s] /\ send_queue' = Tail(send_queue)
        BY <2>2 DEF send_next_bufitem
      <3>2. Head(send_queue) \in HomeAgent /\ Head(send_queue) # NoAgent
        BY <1>1, <2>2, InTail, CrawlerPollerAssumption DEF TypeOK
      <3>3. s \in WriterState /\ s.at = "check" /\ s.item = Head(send_queue)
        BY <3>2 DEF WriterState
      <3> HIDE DEF s
      <3> QED BY <2>2, <3>1, <3>2, <3>3
    <2> QED BY <2>1, <2>2
  <1>4. /\ writer' \in [Writer -> WriterState] /\ writer'[w] = s
        /\ \A v \in Writer : v # w => writer'[v] = writer[v]
    BY <1>2, <1>3
  <1>5. send_queue' \in Seq(HomeAgent) /\ Elems(send_queue) \subseteq Elems(send_queue') \cup {s.item}
    <2>1. send_queue \in Seq(HomeAgent)
      BY <1>1 DEF TypeOK
    <2>2. CASE send_queue # << >> /\ s.item = Head(send_queue) /\ send_queue' = Tail(send_queue)
      <3>1. Tail(send_queue) \in Seq(HomeAgent) /\ Elems(send_queue) = Elems(Tail(send_queue)) \cup {Head(send_queue)}
        BY <2>1, <2>2, InTail
      <3> QED BY <2>2, <3>1
    <2> QED BY <1>3, <2>1, <2>2
  <1>6. TypeOK' /\ IsFiniteSet(passing')
    BY <1>1, <1>4, <1>5 DEF TypeOK, send_next_bufitem
  <1>7. FailuresCounted'
    BY <1>1 DEF FailuresCounted, send_next_bufitem
  <1>8. WriterItems'
    BY <1>1, <1>2, <1>3, <1>4 DEF WriterItems, send_next_bufitem, Writer
  <1>9. OneThread'
    <2>1. \A v \in Writer : writer'[v].at = "send" => writer[v].at = "send"
      BY <1>3, <1>4
    <2>2. threads = 1 => \A v \in Writer : v # w => writer'[v] = Idle
      BY <1>1, <1>2, <1>4 DEF OneThread, Writer
    <2>3. threads = 1 => writer'["strand"] = Idle \/ writer'["connect"] = Idle
      BY <2>2 DEF Writer
    <2> QED BY <1>1, <2>1, <2>3 DEF OneThread, send_next_bufitem
  <1>10. NoneForgotten'
    <2>1. \A h \in HomeAgent : (\E v \in Writer : writer[v].item = h) => \E v \in Writer : writer'[v].item = h
      BY <1>2, <1>4, CrawlerPollerAssumption
    <2>2. \A h \in HomeAgent : h \in Elems(send_queue) =>
             h \in Elems(send_queue') \/ \E v \in Writer : writer'[v].item = h
      BY <1>4, <1>5
    <2>3. Announced \subseteq Announced'
      BY <2>1, <2>2 DEF Announced, InBufwrite, send_next_bufitem
    <2> QED BY <1>1, <2>3 DEF NoneForgotten, send_next_bufitem
  <1>11. Once'
    BY <1>1, OnceKept DEF send_next_bufitem
  <1> QED BY <1>6, <1>7, <1>8, <1>9, <1>10, <1>11 DEF AgentsInv

\* A writer looks at connected_ and send_in_progress_.
LEMMA CheckKeeps ==
    ASSUME AgentsInv, NEW w \in Writer, send_bufitem_check(w)
    PROVE  AgentsInv'
  <1> USE DEF options, manVars, pollVars
  <1>1. TypeOK /\ FailuresCounted /\ WriterItems /\ OneThread /\ NoneForgotten /\ Once /\ IsFiniteSet(passing)
    BY DEF AgentsInv
  <1>2. /\ writer \in [Writer -> WriterState] /\ writer[w] \in WriterState /\ writer[w].at = "check"
        /\ writer[w].item # NoAgent /\ writer[w] # Idle /\ (conn = "connected" \/ w = "strand")
    BY <1>1 DEF TypeOK, WriterItems, send_bufitem_check, Writer, Idle
  <1>3. PICK s \in WriterState :
            /\ writer' = [writer EXCEPT ![w] = s] /\ s.at \in {"send", "queue"} /\ s.item = writer[w].item
            /\ s.at = "send" => ~send_in_progress
    <2>1. ASSUME NEW a \in {"send", "queue"}, writer' = [writer EXCEPT ![w].at = a]
          PROVE  \E t \in WriterState : writer' = [writer EXCEPT ![w] = t] /\ t.at = a /\ t.item = writer[w].item
      <3> DEFINE t == [writer[w] EXCEPT !.at = a]
      <3>1. t \in WriterState /\ t.at = a /\ t.item = writer[w].item
        BY <1>2 DEF WriterState
      <3>2. writer' = [writer EXCEPT ![w] = t]
        BY <2>1
      <3> HIDE DEF t
      <3> QED BY <3>1, <3>2
    <2>2. CASE connected /\ ~send_in_progress
      <3>1. writer' = [writer EXCEPT ![w].at = "send"]
        BY <2>2 DEF send_bufitem_check
      <3> QED BY <2>1, <2>2, <3>1
    <2>3. CASE ~(connected /\ ~send_in_progress)
      <3>1. writer' = [writer EXCEPT ![w].at = "queue"]
        BY <2>3 DEF send_bufitem_check
      <3> QED BY <2>1, <3>1
    <2> QED BY <2>2, <2>3
  <1>4. /\ writer' \in [Writer -> WriterState] /\ writer'[w] = s
        /\ \A v \in Writer : v # w => writer'[v] = writer[v]
    BY <1>2, <1>3
  <1>5. TypeOK' /\ IsFiniteSet(passing')
    BY <1>1, <1>4 DEF TypeOK, send_bufitem_check
  <1>6. FailuresCounted'
    BY <1>1 DEF FailuresCounted, send_bufitem_check
  <1>7. WriterItems'
    BY <1>1, <1>2, <1>3, <1>4 DEF WriterItems, send_bufitem_check, Writer
  <1>8. OneThread'
    <2>1. threads = 1 => \A v \in Writer : writer'[v].at = "send" => ~send_in_progress
      BY <1>1, <1>3, <1>4 DEF OneThread
    <2>2. threads = 1 => \A v \in Writer : v # w => writer'[v] = Idle
      BY <1>1, <1>2, <1>4 DEF OneThread, Writer
    <2>3. threads = 1 => writer'["strand"] = Idle \/ writer'["connect"] = Idle
      BY <2>2 DEF Writer
    <2> QED BY <1>1, <2>1, <2>3 DEF OneThread, send_bufitem_check
  <1>9. NoneForgotten'
    <2>1. \A v \in Writer : writer[v].item # NoAgent => writer'[v].item = writer[v].item
      BY <1>3, <1>4
    <2> QED BY <1>1, <2>1, ForgottenKept, CrawlerPollerAssumption DEF send_bufitem_check, bufVars
  <1>10. Once'
    BY <1>1, OnceKept DEF send_bufitem_check
  <1> QED BY <1>5, <1>6, <1>7, <1>8, <1>9, <1>10 DEF AgentsInv

\* A writer starts the write, or queues the item.
LEMMA SendKeeps ==
    ASSUME AgentsInv, NEW w \in Writer, send_bufitem(w)
    PROVE  AgentsInv'
  <1> USE DEF options, manVars, pollVars
  <1>1. TypeOK /\ FailuresCounted /\ WriterItems /\ OneThread /\ NoneForgotten /\ Once /\ IsFiniteSet(passing)
    BY DEF AgentsInv
  <1> DEFINE x == writer[w].item
  <1>2. /\ writer \in [Writer -> WriterState] /\ writer[w] \in WriterState /\ writer[w].at \in {"send", "queue"}
        /\ x # NoAgent /\ x \in HomeAgent /\ writer[w] # Idle
    BY <1>1 DEF TypeOK, WriterItems, send_bufitem, Writer, Idle, WriterState
  <1>3. /\ writer' \in [Writer -> WriterState] /\ writer'[w] = Idle /\ Idle.at = "idle" /\ Idle.item = NoAgent
        /\ \A v \in Writer : v # w => writer'[v] = writer[v]
    BY <1>2 DEF send_bufitem, Idle, WriterState
  <1>4. FailuresCounted' /\ WriterItems'
    BY <1>1, <1>3 DEF FailuresCounted, WriterItems, send_bufitem, Writer
  <1>5. Once'
    BY <1>1, OnceKept DEF send_bufitem
  <1>6. threads = 1 => \A v \in Writer : writer'[v] = Idle
    BY <1>1, <1>2, <1>3 DEF OneThread, Writer
  <1>7. \A h \in HomeAgent : (\E v \in Writer : writer[v].item = h) => h = x \/ \E v \in Writer : writer'[v].item = h
    BY <1>3
  <1>a. CASE writer[w].at = "send"
    <2>1. send_in_progress' = TRUE /\ writes' = Append(writes, x) /\ UNCHANGED send_queue
      BY <1>a DEF send_bufitem
    <2> HIDE DEF x
    <2>2. writes' \in Seq(HomeAgent) /\ Elems(writes') = Elems(writes) \cup {x} /\ Len(writes') = Len(writes) + 1
      BY <1>1, <1>2, <2>1, InAppend DEF TypeOK
    <2>3. TypeOK' /\ IsFiniteSet(passing')
      <3>1. send_in_progress' \in BOOLEAN
        BY <2>1
      <3> QED BY <1>1, <1>3, <2>1, <2>2, <3>1 DEF TypeOK, send_bufitem
    <2>4. OneThread'
      <3> SUFFICES ASSUME threads = 1 PROVE OneThread'
        BY DEF OneThread, send_bufitem
      <3>1. ~send_in_progress /\ writes = << >> /\ \A i \in DOMAIN strand : strand[i][1] = "send"
        BY <1>1, <1>a DEF OneThread
      <3>2. Len(writes') = 1
        BY <2>2, <3>1, EmptySeq
      <3>3. strand' = strand
        BY DEF send_bufitem
      <3> QED BY <1>3, <1>6, <2>1, <3>1, <3>2, <3>3 DEF OneThread, Writer
    <2>5. Announced \subseteq Announced'
      BY <1>7, <2>1, <2>2 DEF Announced, InBufwrite, send_bufitem
    <2>6. NoneForgotten'
      BY <1>1, <2>5 DEF NoneForgotten, send_bufitem
    <2> QED BY <1>4, <1>5, <2>3, <2>4, <2>6 DEF AgentsInv
  <1>b. CASE writer[w].at = "queue"
    <2>1. send_queue' = Append(send_queue, x) /\ UNCHANGED <<send_in_progress, writes>>
      BY <1>b DEF send_bufitem
    <2> HIDE DEF x
    <2>2. send_queue' \in Seq(HomeAgent) /\ Elems(send_queue') = Elems(send_queue) \cup {x}
      BY <1>1, <1>2, <2>1, InAppend DEF TypeOK
    <2>3. TypeOK' /\ IsFiniteSet(passing')
      BY <1>1, <1>3, <2>1, <2>2 DEF TypeOK, send_bufitem
    <2>4. OneThread'
      BY <1>1, <1>3, <1>6, <2>1 DEF OneThread, Writer, send_bufitem
    <2>5. Announced \subseteq Announced'
      BY <1>7, <2>1, <2>2 DEF Announced, InBufwrite, send_bufitem
    <2>6. NoneForgotten'
      BY <1>1, <2>5 DEF NoneForgotten, send_bufitem
    <2> QED BY <1>4, <1>5, <2>3, <2>4, <2>6 DEF AgentsInv
  <1> QED BY <1>2, <1>a, <1>b

\* An async_write completes.
LEMMA WriteKeeps ==
    ASSUME AgentsInv, NEW i \in DOMAIN writes, NEW ok \in BOOLEAN, WriteCompletes(i, ok)
    PROVE  AgentsInv'
  <1> USE DEF options, manVars, pollVars
  <1> DEFINE x == writes[i]
             done == <<IF ok THEN "sent" ELSE "failed", x>>
  <1>1. TypeOK /\ FailuresCounted /\ WriterItems /\ OneThread /\ NoneForgotten /\ Once /\ IsFiniteSet(passing)
    BY DEF AgentsInv
  <1>2. x \in HomeAgent /\ writes' \in Seq(HomeAgent) /\ Len(writes') = Len(writes) - 1 /\ Elems(writes) \subseteq Elems(writes') \cup {x}
    BY <1>1, InRemoved DEF TypeOK, WriteCompletes
  <1>3. /\ done \in Handler /\ done[1] # "send" /\ done[1] = (IF ok THEN "sent" ELSE "failed")
        /\ ~ok => done = <<"failed", x>>
    BY <1>2 DEF Handler
  <1>4. strand' = Append(strand, done) /\ wire' = IF ok THEN Append(wire, x) ELSE wire
    BY DEF WriteCompletes
  <1>5. writes # << >> /\ Len(writes) \in Nat \ {0}
    BY <1>1 DEF TypeOK
  <1> HIDE DEF x, done
  <1>6. strand' \in Seq(Handler) /\ Elems(strand') = Elems(strand) \cup {done}
    BY <1>1, <1>3, <1>4, InAppend DEF TypeOK
  <1>7. wire' \in Seq(HomeAgent) /\ Elems(wire) \subseteq Elems(wire') /\ (ok => x \in Elems(wire'))
    <2>1. Append(wire, x) \in Seq(HomeAgent) /\ Elems(Append(wire, x)) = Elems(wire) \cup {x}
      BY <1>1, <1>2, InAppend DEF TypeOK
    <2> QED BY <1>1, <1>4, <2>1 DEF TypeOK
  <1>8. /\ Len(strand) \in Nat /\ DOMAIN strand = 1 .. Len(strand) /\ DOMAIN strand' = 1 .. (Len(strand) + 1)
        /\ strand'[Len(strand) + 1] = done /\ \A k \in DOMAIN strand : strand'[k] = strand[k]
    BY <1>1, <1>3, <1>4 DEF TypeOK
  <1>9. \A k \in DOMAIN strand' : k \in DOMAIN strand \/ k = Len(strand) + 1
    BY <1>8
  <1>10. TypeOK' /\ IsFiniteSet(passing')
    BY <1>1, <1>2, <1>6, <1>7 DEF TypeOK, WriteCompletes
  <1>11. FailuresCounted'
    <2>1. done[1] = "failed" => restarts < MaxRestarts
      BY <1>3 DEF WriteCompletes
    <2> QED BY <1>1, <1>8, <1>9, <2>1 DEF FailuresCounted, WriteCompletes
  <1>12. WriterItems' /\ Once'
    BY <1>1, OnceKept DEF WriterItems, WriteCompletes
  <1>13. OneThread'
    <2> SUFFICES ASSUME threads = 1 PROVE OneThread'
      BY DEF OneThread, WriteCompletes
    <2>a. send_in_progress /\ \A k \in DOMAIN strand : strand[k][1] = "send"
      BY <1>1, <1>5 DEF OneThread
    <2>b. Len(writes) <= 1
      BY <1>1 DEF OneThread
    <2>c. Len(writes) = 1
      <3>1. \A n \in Nat \ {0} : n <= 1 => n = 1
        OBVIOUS
      <3> QED BY <1>5, <2>b, <3>1, Zenon
    <2>1. send_in_progress /\ Len(writes) = 1 /\ \A k \in DOMAIN strand : strand[k][1] = "send"
      BY <2>a, <2>c, Zenon
    <2>2. writes' = << >> /\ Len(writes') <= 1
      BY <1>2, <2>1, EmptySeq
    <2>3. \A k \in DOMAIN strand' : strand'[k][1] # "send" => k = Len(strand) + 1
      BY <1>8, <1>9, <2>1
    <2> QED BY <1>1, <2>1, <2>2, <2>3 DEF OneThread, WriteCompletes
  <1>14. NoneForgotten'
    <2>1. ok \/ <<"failed", x>> \in Elems(strand')
      BY <1>3, <1>6
    <2>2. Elems(writes) \subseteq Elems(writes') \cup Elems(wire') \cup {h \in HomeAgent : <<"failed", h>> \in Elems(strand')}
      BY <1>2, <1>7, <2>1
    <2>3. Announced \subseteq Announced'
      BY <1>6, <1>7, <2>2 DEF Announced, InBufwrite, WriteCompletes
    <2> QED BY <1>1, <2>3 DEF NoneForgotten, WriteCompletes
  <1> QED BY <1>10, <1>11, <1>12, <1>13, <1>14 DEF AgentsInv

\* What leaves bufwrite, the writers and the process alone.
LEMMA OutsideBufwrite ==
    ASSUME AgentsInv, TypeOK', IsFiniteSet(passing'), NoneForgotten', Once',
           UNCHANGED <<options, up, restarts, conn, bufVars>>
    PROVE  AgentsInv'
  <1>1. FailuresCounted' /\ WriterItems'
    BY DEF AgentsInv, FailuresCounted, WriterItems, bufVars
  <1>2. OneThread'
    BY DEF AgentsInv, OneThread, bufVars, options
  <1> QED BY <1>1, <1>2 DEF AgentsInv

\* The manager assigns a home agent.
LEMMA AssignKeeps ==
    ASSUME AgentsInv, NEW h \in HomeAgent, Assign(h)
    PROVE  AgentsInv'
  <1> USE DEF options, pollVars, bufVars
  <1>1. TypeOK /\ NoneForgotten /\ Once /\ IsFiniteSet(passing) /\ WriterItems
    BY DEF AgentsInv
  <1>2. managed /\ h \notin Elems(inbox) \cup Elems(creating) /\ ~(pollers[h] > 0)
    BY <1>1 DEF Once, Assign
  <1>3. inbox' \in Seq(HomeAgent) /\ Elems(inbox') = Elems(inbox) \cup {h} /\ Distinct(inbox')
    BY <1>1, <1>2, InAppend DEF Assign, TypeOK, Once
  <1>4. TypeOK'
    BY <1>1, <1>3 DEF TypeOK, Assign
  <1>5. NoneForgotten'
    BY <1>1, CrawlerPollerAssumption, ForgottenKept DEF Assign
  <1>6. Once'
    BY <1>1, <1>2, <1>3 DEF Once, Assign
  <1> QED BY <1>1, <1>4, <1>5, <1>6, OutsideBufwrite DEF Assign

\* bufread reads an assignment.
LEMMA BodyKeeps ==
    ASSUME AgentsInv, handle_body_read
    PROVE  AgentsInv'
  <1> USE DEF options, bufVars
  <1> DEFINE h == Head(inbox)
  <1>1. TypeOK /\ NoneForgotten /\ Once /\ IsFiniteSet(passing)
    BY DEF AgentsInv
  <1>2. /\ inbox # << >> /\ inbox' = Tail(inbox) /\ creating' = Append(creating, h) /\ managed
        /\ inbox \in Seq(HomeAgent)
    BY <1>1 DEF handle_body_read, Once, TypeOK
  <1>3. /\ h \in HomeAgent /\ inbox' \in Seq(HomeAgent) /\ Elems(inbox) = Elems(inbox') \cup {h}
        /\ Distinct(inbox') /\ h \notin Elems(inbox')
    BY <1>1, <1>2, InTail DEF Once
  <1> HIDE DEF h
  <1>4. h \notin Elems(creating) /\ ~(pollers[h] > 0)
    BY <1>1, <1>3 DEF Once
  <1>5. creating' \in Seq(HomeAgent) /\ Elems(creating') = Elems(creating) \cup {h} /\ Distinct(creating')
    BY <1>1, <1>2, <1>3, <1>4, InAppend DEF TypeOK, Once
  <1>6. TypeOK'
    BY <1>1, <1>3, <1>5 DEF TypeOK, handle_body_read
  <1>7. NoneForgotten'
    <2>1. Announced' = Announced
      BY DEF Announced, InBufwrite, handle_body_read
    <2> QED BY <1>1, <1>2, <2>1 DEF NoneForgotten, handle_body_read
  <1>8. Once'
    BY <1>1, <1>2, <1>3, <1>4, <1>5 DEF Once, handle_body_read
  <1> QED BY <1>1, <1>6, <1>7, <1>8, OutsideBufwrite DEF handle_body_read

\* A poller is made.
LEMMA CreateKeeps ==
    ASSUME AgentsInv, create_poller_
    PROVE  AgentsInv'
  <1> USE DEF options, manVars, bufVars
  <1> DEFINE h == Head(creating)
  <1>1. TypeOK /\ NoneForgotten /\ Once /\ IsFiniteSet(passing)
    BY DEF AgentsInv
  <1>2. /\ creating # << >> /\ creating' = Tail(creating) /\ pollers' = [pollers EXCEPT ![h] = @ + 1]
        /\ creating \in Seq(HomeAgent) /\ pollers \in [HomeAgent -> Nat]
    BY <1>1 DEF create_poller_, TypeOK
  <1>3. /\ h \in HomeAgent /\ creating' \in Seq(HomeAgent) /\ Elems(creating) = Elems(creating') \cup {h}
        /\ Distinct(creating') /\ h \notin Elems(creating')
    BY <1>1, <1>2, InTail DEF Once
  <1> HIDE DEF h
  <1>4. h \notin Elems(inbox) /\ pollers[h] = 0
    BY <1>1, <1>2, <1>3 DEF Once
  <1>5. pollers' \in [HomeAgent -> Nat] /\ pollers'[h] = 1 /\ \A g \in HomeAgent : g # h => pollers'[g] = pollers[g]
    BY <1>2, <1>3, <1>4
  <1>6. TypeOK'
    BY <1>1, <1>3, <1>5 DEF TypeOK, create_poller_
  <1>7. NoneForgotten'
    <2>1. Announced' = Announced
      BY DEF Announced, InBufwrite, create_poller_
    <2>2. \A g \in HomeAgent : g \in Elems(creating) \/ pollers[g] > 0 => g \in Elems(creating') \/ pollers'[g] > 0
      BY <1>3, <1>5
    <2>3. \A g \in filter : g \in HomeAgent
      BY <1>1 DEF TypeOK
    <2> QED BY <1>1, <2>1, <2>2, <2>3 DEF NoneForgotten, create_poller_
  <1>8. Once'
    <2>1. \A g \in HomeAgent : g \in Elems(creating') \/ pollers'[g] > 0 => g \in Elems(creating) \/ pollers[g] > 0
      BY <1>3, <1>5
    <2>2. \A g \in HomeAgent : pollers'[g] > 0 => pollers'[g] = 1 /\ g \notin Elems(inbox) \cup Elems(creating')
      BY <1>1, <1>3, <1>4, <1>5 DEF Once
    <2> QED BY <1>1, <1>3, <2>1, <2>2 DEF Once, create_poller_
  <1> QED BY <1>1, <1>6, <1>7, <1>8, OutsideBufwrite DEF create_poller_

\* A neighbour passes the filter.
LEMMA DiscoveredKeeps ==
    ASSUME AgentsInv, NEW h \in HomeAgent, discovered(h)
    PROVE  AgentsInv'
  <1> USE DEF options, manVars, bufVars
  <1>1. TypeOK /\ NoneForgotten /\ Once /\ IsFiniteSet(passing)
    BY DEF AgentsInv
  <1>2. TypeOK' /\ IsFiniteSet(passing')
    <2>1. IsFiniteSet(passing')
      BY <1>1, FS_AddElement DEF discovered
    <2>2. TypeOK'
      BY <1>1 DEF TypeOK, discovered
    <2> QED BY <2>1, <2>2
  <1>3. NoneForgotten'
    <2>1. Announced' = Announced /\ filter' \ passing' \subseteq filter \ passing
      BY DEF Announced, InBufwrite, discovered
    <2> QED BY <1>1, <2>1 DEF NoneForgotten, discovered
  <1>4. Once'
    <2>1. filter \ passing \subseteq filter' \ passing'
      BY DEF discovered
    <2> QED BY <1>1, <2>1 DEF Once, discovered
  <1> QED BY <1>2, <1>3, <1>4, OutsideBufwrite DEF discovered

LEMMA AgentsPreserved ==
    ASSUME AgentsInv, [Next]_vars
    PROVE  AgentsInv'
  <1>1. CASE UNCHANGED vars
    <2>1. seeding' \in Seq(HomeAgent) /\ UNCHANGED <<options, up, restarts, manVars, pollVars, bufVars>>
      BY <1>1 DEF vars, options, AgentsInv, TypeOK
    <2> QED BY <2>1, OnlySeeding
  <1>2. CASE Next
    <2>1. CASE Restart \/ AnnounceSeed \/ handle_resolve \/ handle_connect \/ RunStrand
      BY <2>1, RestartKeeps, SeedKeeps, ResolveKeeps, ConnectKeeps, StrandKeeps
    <2>2. CASE fail \/ Rejected
      BY <2>2, StopKeeps DEF fail, Rejected
    <2>3. CASE \E w \in Writer : WriterStep(w)
      BY <2>3, NextItemKeeps, CheckKeeps, SendKeeps DEF WriterStep
    <2>4. CASE \E i \in DOMAIN writes, ok \in BOOLEAN : WriteCompletes(i, ok)
      BY <2>4, WriteKeeps
    <2>5. CASE \E h \in HomeAgent : Assign(h) \/ discovered(h) \/ pass_on(h)
      BY <2>5, AssignKeeps, DiscoveredKeeps, PassKeeps
    <2>6. CASE handle_body_read \/ create_poller_
      BY <2>6, BodyKeeps, CreateKeeps
    <2> QED BY <1>2, <2>1, <2>2, <2>3, <2>4, <2>5, <2>6 DEF Next
  <1> QED BY <1>1, <1>2

\* A home agent that passed the duplicate filter is on its way to the manager or
\* to its only poller, and with one thread one message at a time is written,
\* although connected() bypasses the strand (bufreadwrite.cpp, poller.cpp).
THEOREM AnnouncedCorrect == Spec => []AnnouncedOnce
  <1>1. Init => AgentsInv
    BY AgentsInitial
  <1>2. AgentsInv /\ [Next]_vars => AgentsInv'
    BY AgentsPreserved
  <1>3. AgentsInv => AnnouncedOnce
    <2>1. AgentsInv => MonitoredOnce
      <3> SUFFICES ASSUME AgentsInv, NEW h \in HomeAgent PROVE pollers[h] <= 1
        BY DEF MonitoredOnce
      <3>1. pollers[h] \in Nat
        BY DEF AgentsInv, TypeOK
      <3> QED BY <3>1 DEF AgentsInv, Once
    <2> QED BY <2>1 DEF AnnouncedOnce, AgentsInv, OneThread, OneWrite, Serialized
  <1> QED BY <1>1, <1>2, <1>3, PTL DEF Spec

-----------------------------------------------------------------------------
(* The instrumentation service.                                            *)

InsertOf(i, h) == queue[i].op = "insert" /\ queue[i].agent = h
UpdateOf(i, h) == queue[i].op = "update" /\ queue[i].agent = h
InsertBefore(h, i) == \E j \in DOMAIN queue : j < i /\ InsertOf(j, h)
UpdateBefore(h, n, i) == \E j \in DOMAIN queue : j < i /\ UpdateOf(j, h) /\ n <= queue[j].poll

\* A session waits for one serialize_as_json_ while that is in the strand.
TasksOK ==
    \A i \in DOMAIN queue :
        /\ queue[i].op = "serialize" =>
              /\ queue[i].session \in Sessions /\ session[queue[i].session] = "asked"
              /\ \A j \in DOMAIN queue : queue[j].op = "serialize" /\ queue[j].session = queue[i].session => i = j
        /\ queue[i].op # "serialize" => queue[i].agent \in Agents

\* The record of a monitored home agent is there or will be before it is used.
RecordsComing ==
    /\ \A h \in monitored : h \in db \/ \E j \in DOMAIN queue : InsertOf(j, h)
    /\ \A i \in DOMAIN queue : \A h \in Agents : UpdateOf(i, h) => h \in db \/ InsertBefore(h, i)
    /\ \A h \in Agents \ db : record[h] = Fresh

\* The results of a home agent's polls wait in the order of the polls, and the
\* last one is recorded or waits.
PollsOrdered ==
    \A h \in Agents :
        /\ record[h].poll <= polls[h]
        /\ record[h].poll = polls[h] \/ \E j \in DOMAIN queue : UpdateOf(j, h) /\ queue[j].poll = polls[h]
        /\ \A i \in DOMAIN queue : UpdateOf(i, h) => record[h].poll < queue[i].poll /\ queue[i].poll <= polls[h]
        /\ \A i, j \in DOMAIN queue : UpdateOf(i, h) /\ UpdateOf(j, h) /\ i < j => queue[i].poll < queue[j].poll

\* What a command asks for is recorded or waits before its serialize_as_json_.
AnswersComing ==
    \A i \in DOMAIN queue : \A s \in Sessions :
        queue[i].op = "serialize" /\ queue[i].session = s =>
            /\ \A h \in asked[s].agents : h \in db \/ InsertBefore(h, i)
            /\ \A h \in Agents : \/ asked[s].polls[h] <= record[h].poll
                                 \/ UpdateBefore(h, asked[s].polls[h], i)

\* Time stamps are in the past and tell the last result.
Stamps ==
    \A h \in Agents :
        /\ record[h].lastsuccess_ts <= now /\ record[h].lastfailure_ts <= now
        /\ record[h].result = "SUCCESS" => record[h].lastsuccess_ts > record[h].lastfailure_ts
        /\ record[h].result \in Result \ {"SUCCESS", "NA"} =>
              record[h].lastsuccess_ts < record[h].lastfailure_ts

StatusInv ==
    /\ StatusTypeOK /\ TasksOK /\ RecordsComing /\ PollsOrdered
    /\ AnswersComing /\ Stamps /\ ReportUpToDate

\* The strand runs the handler that waits longest; a handler is dispatched.
Popped ==
    /\ queue # << >> /\ queue' = Tail(queue) /\ queue' \in Seq(Task)
    /\ 1 \in DOMAIN queue /\ Head(queue) = queue[1] /\ Head(queue) \in Task
    /\ \A i \in DOMAIN queue' : i \in Nat /\ i + 1 \in DOMAIN queue /\ queue'[i] = queue[i + 1]
    /\ \A k \in DOMAIN queue : k \in Nat /\ (k = 1 \/ \E i \in DOMAIN queue' : k = i + 1)

Grown ==
    /\ queue' \in Seq(Task) /\ DOMAIN queue \subseteq DOMAIN queue'
    /\ \A i \in DOMAIN queue : queue'[i] = queue[i]
    /\ \A i \in DOMAIN queue' : i \in Nat
    /\ \A i \in DOMAIN queue, k \in DOMAIN queue' \ DOMAIN queue : i < k

LEMMA Pops ==
    ASSUME queue \in Seq(Task), queue # << >>, queue' = Tail(queue)
    PROVE  Popped
  <1>1. /\ Head(queue) \in Task /\ Tail(queue) \in Seq(Task) /\ Head(queue) = queue[1] /\ 1 \in DOMAIN queue
        /\ \A i \in DOMAIN Tail(queue) : i + 1 \in DOMAIN queue /\ i + 1 # 1 /\ Tail(queue)[i] = queue[i + 1] /\ i \in Nat
    BY InTail
  <1>2. ASSUME NEW k \in DOMAIN queue PROVE k \in Nat /\ (k = 1 \/ \E i \in DOMAIN Tail(queue) : k = i + 1)
    <2>1. DOMAIN queue = 1 .. Len(queue) /\ DOMAIN Tail(queue) = 1 .. (Len(queue) - 1) /\ Len(queue) \in Nat
      OBVIOUS
    <2>2. k \in Nat /\ (k = 1 \/ (k - 1 \in DOMAIN Tail(queue) /\ k = (k - 1) + 1))
      BY <2>1
    <2> QED BY <2>2
  <1> QED BY <1>1, <1>2 DEF Popped

LEMMA Grows ==
    ASSUME queue \in Seq(Task), NEW t \in Task, queue' = Append(queue, t)
    PROVE  /\ Grown /\ Len(queue) + 1 \in DOMAIN queue' /\ queue'[Len(queue) + 1] = t
           /\ \A k \in DOMAIN queue' \ DOMAIN queue : k = Len(queue) + 1
           /\ Len(queue) + 1 \notin DOMAIN queue
  <1>1. /\ queue' \in Seq(Task) /\ Len(queue) \in Nat /\ DOMAIN queue = 1 .. Len(queue)
        /\ DOMAIN queue' = 1 .. (Len(queue) + 1) /\ queue'[Len(queue) + 1] = t
        /\ \A i \in 1 .. Len(queue) : queue'[i] = queue[i]
    OBVIOUS
  <1> QED BY <1>1 DEF Grown

\* A query_result with a description of a neighbour.
LEMMA GrowsTwice ==
    ASSUME queue \in Seq(Task), NEW t \in Task, NEW u \in Task, queue' = Append(Append(queue, t), u)
    PROVE  /\ Grown /\ Len(queue) + 1 \in DOMAIN queue' /\ queue'[Len(queue) + 1] = t
           /\ \A k \in DOMAIN queue' \ DOMAIN queue : k = Len(queue) + 1 \/ queue'[k] = u
           /\ Len(queue) + 1 \notin DOMAIN queue
  <1> DEFINE q == Append(queue, t)
  <1>1. /\ q \in Seq(Task) /\ Len(queue) \in Nat /\ DOMAIN queue = 1 .. Len(queue)
        /\ DOMAIN q = 1 .. (Len(queue) + 1) /\ q[Len(queue) + 1] = t /\ Len(q) = Len(queue) + 1
        /\ \A i \in 1 .. Len(queue) : q[i] = queue[i]
    OBVIOUS
  <1> HIDE DEF q
  <1>2. queue' = Append(q, u)
    BY DEF q
  <1>3. /\ queue' \in Seq(Task) /\ DOMAIN queue' = 1 .. (Len(q) + 1) /\ queue'[Len(q) + 1] = u
        /\ \A i \in 1 .. Len(q) : queue'[i] = q[i]
    BY <1>1, <1>2
  <1>4. DOMAIN queue' = 1 .. (Len(queue) + 2) /\ queue'[Len(queue) + 2] = u /\ queue'[Len(queue) + 1] = t
    <2>1. (Len(queue) + 1) + 1 = Len(queue) + 2
      BY <1>1
    <2> QED BY <1>1, <1>3, <2>1
  <1>5. \A i \in 1 .. Len(queue) : queue'[i] = queue[i]
    BY <1>1, <1>3
  <1> QED BY <1>1, <1>3, <1>4, <1>5 DEF Grown

LEMMA StatusTypes ==
    ASSUME StatusTypeOK
    PROVE  /\ \A h \in Agents : record[h] \in Record
           /\ \A h \in Agents : record[h].poll \in Nat /\ record[h].result \in Result
                                 /\ record[h].lastsuccess_ts \in Nat /\ record[h].lastfailure_ts \in Nat
           /\ \A h \in Agents : polls[h] \in Nat
           /\ \A s \in Sessions : \A h \in Agents : asked[s].polls[h] \in Nat
           /\ \A s \in Sessions : asked[s].agents \subseteq Agents
           /\ \A k \in DOMAIN queue : queue[k] \in Task /\ queue[k].poll \in Nat
  <1>1. \A h \in Agents : record[h] \in Record
    BY DEF StatusTypeOK
  <1>2. \A r \in Record : r.poll \in Nat /\ r.result \in Result /\ r.lastsuccess_ts \in Nat /\ r.lastfailure_ts \in Nat
    BY DEF Record
  <1>3. \A h \in Agents : polls[h] \in Nat
    BY PollerStatusAssumption DEF StatusTypeOK
  <1>4. \A s \in Sessions : asked[s] \in [agents : SUBSET Agents, polls : [Agents -> Nat]]
    BY DEF StatusTypeOK
  <1>5. \A a \in [agents : SUBSET Agents, polls : [Agents -> Nat]] :
           a.agents \subseteq Agents /\ \A h \in Agents : a.polls[h] \in Nat
    OBVIOUS
  <1>6. \A k \in DOMAIN queue : queue[k] \in Task
    BY DEF StatusTypeOK
  <1>7. \A t \in Task : t.poll \in Nat
    BY DEF Task
  <1> QED BY <1>1, <1>2, <1>3, <1>4, <1>5, <1>6, <1>7

LEMMA PoppedRecords ==
    ASSUME StatusInv, Popped, monitored' = monitored, db \subseteq db',
           Head(queue).op = "insert" => Head(queue).agent \in db',
           \A h \in Agents \ db' : record'[h] = Fresh
    PROVE  RecordsComing'
  <1>1. \A h : InsertOf(1, h) => h \in db'
    BY DEF Popped, InsertOf
  <1>2. ASSUME NEW h \in monitored PROVE h \in db' \/ \E j \in DOMAIN queue' : InsertOf(j, h)'
    <2>1. CASE \E k \in DOMAIN queue : InsertOf(k, h)
      <3>1. PICK k \in DOMAIN queue : InsertOf(k, h)
        BY <2>1
      <3> QED BY <1>1, <3>1 DEF Popped, InsertOf
    <2> QED BY <2>1 DEF StatusInv, RecordsComing
  <1>3. ASSUME NEW i \in DOMAIN queue', NEW h \in Agents, UpdateOf(i, h)'
        PROVE  h \in db' \/ InsertBefore(h, i)'
    <2>1. i + 1 \in DOMAIN queue /\ UpdateOf(i + 1, h) /\ i \in Nat
      BY <1>3 DEF Popped, UpdateOf
    <2>2. CASE InsertBefore(h, i + 1)
      <3>1. PICK k \in DOMAIN queue : k < i + 1 /\ InsertOf(k, h)
        BY <2>2 DEF InsertBefore
      <3>2. CASE k = 1
        BY <1>1, <3>1, <3>2
      <3>3. CASE k # 1
        <4>1. PICK j \in DOMAIN queue' : k = j + 1
          BY <3>3 DEF Popped
        <4>2. j < i /\ InsertOf(j, h)'
          BY <2>1, <3>1, <4>1 DEF Popped, InsertOf
        <4> QED BY <4>2 DEF InsertBefore
      <3> QED BY <3>2, <3>3
    <2> QED BY <2>1, <2>2 DEF StatusInv, RecordsComing
  <1> QED BY <1>2, <1>3 DEF RecordsComing

LEMMA PoppedAnswers ==
    ASSUME StatusInv, Popped, asked' = asked, db \subseteq db',
           Head(queue).op = "insert" => Head(queue).agent \in db',
           record' \in [Agents -> Record],
           \A h \in Agents : record[h].poll <= record'[h].poll,
           \A h \in Agents : UpdateOf(1, h) => queue[1].poll <= record'[h].poll
    PROVE  AnswersComing'
  <1>1. \A h : InsertOf(1, h) => h \in db'
    BY DEF Popped, InsertOf
  <1>2. /\ record \in [Agents -> Record] /\ \A h \in Agents : record[h].poll \in Nat /\ record'[h].poll \in Nat
        /\ \A s \in Sessions : \A h \in Agents : asked[s].polls[h] \in Nat
        /\ \A s \in Sessions : asked[s].agents \subseteq Agents
        /\ \A k \in DOMAIN queue : queue[k].poll \in Nat
    <2>1. \A r \in Record : r.poll \in Nat
      BY DEF Record
    <2> QED BY <2>1, StatusTypes DEF StatusInv, StatusTypeOK
  <1>3. ASSUME NEW i \in DOMAIN queue', NEW s \in Sessions, queue'[i].op = "serialize", queue'[i].session = s
        PROVE  /\ \A h \in asked[s].agents : h \in db' \/ InsertBefore(h, i)'
               /\ \A h \in Agents : asked[s].polls[h] <= record'[h].poll \/ UpdateBefore(h, asked[s].polls[h], i)'
    <2>1. i + 1 \in DOMAIN queue /\ queue[i + 1].op = "serialize" /\ queue[i + 1].session = s /\ i \in Nat
      BY <1>3 DEF Popped
    <2>2. ASSUME NEW h \in asked[s].agents PROVE h \in db' \/ InsertBefore(h, i)'
      <3>1. h \in db \/ InsertBefore(h, i + 1)
        BY <2>1 DEF StatusInv, AnswersComing
      <3>2. CASE InsertBefore(h, i + 1)
        <4>1. PICK k \in DOMAIN queue : k < i + 1 /\ InsertOf(k, h)
          BY <3>2 DEF InsertBefore
        <4>2. CASE k = 1
          BY <1>1, <4>1, <4>2
        <4>3. CASE k # 1
          <5>1. PICK j \in DOMAIN queue' : k = j + 1
            BY <4>3 DEF Popped
          <5>2. j < i /\ InsertOf(j, h)'
            BY <2>1, <4>1, <5>1 DEF Popped, InsertOf
          <5> QED BY <5>2 DEF InsertBefore
        <4> QED BY <4>2, <4>3
      <3> QED BY <3>1, <3>2
    <2>3. ASSUME NEW h \in Agents
          PROVE  asked[s].polls[h] <= record'[h].poll \/ UpdateBefore(h, asked[s].polls[h], i)'
      <3> DEFINE n == asked[s].polls[h]
      <3>1. n <= record[h].poll \/ UpdateBefore(h, n, i + 1)
        BY <2>1 DEF StatusInv, AnswersComing
      <3>0. n \in Nat /\ asked'[s].polls[h] = n
        BY <1>2
      <3> HIDE DEF n
      <3>2. CASE n <= record[h].poll
        BY <3>2, <1>2, <3>0 DEF n
      <3>3. CASE UpdateBefore(h, n, i + 1)
        <4>1. PICK k \in DOMAIN queue : k < i + 1 /\ UpdateOf(k, h) /\ n <= queue[k].poll
          BY <3>3 DEF UpdateBefore
        <4>2. CASE k = 1
          <5>1. n <= record'[h].poll
            BY <1>2, <3>0, <4>1, <4>2
          <5> QED BY <5>1 DEF n
        <4>3. CASE k # 1
          <5>1. PICK j \in DOMAIN queue' : k = j + 1
            BY <4>3 DEF Popped
          <5>2. j < i /\ UpdateOf(j, h)' /\ n <= queue'[j].poll
            BY <2>1, <4>1, <5>1 DEF Popped, UpdateOf
          <5>3. UpdateBefore(h, n, i)'
            BY <3>0, <5>2 DEF UpdateBefore, n
          <5> QED BY <5>3 DEF n
        <4> QED BY <4>2, <4>3
      <3> QED BY <3>1, <3>2, <3>3
    <2> QED BY <2>2, <2>3
  <1> QED BY <1>3 DEF AnswersComing

LEMMA PoppedPolls ==
    ASSUME StatusInv, Popped, polls' = polls, record' \in [Agents -> Record],
           \A h \in Agents : record'[h].poll = IF UpdateOf(1, h) THEN queue[1].poll ELSE record[h].poll
    PROVE  PollsOrdered'
  <1> SUFFICES ASSUME NEW h \in Agents
               PROVE  /\ record'[h].poll <= polls[h]
                      /\ \/ record'[h].poll = polls[h]
                         \/ \E j \in DOMAIN queue' : UpdateOf(j, h)' /\ queue'[j].poll = polls[h]
                      /\ \A i \in DOMAIN queue' : UpdateOf(i, h)' =>
                            record'[h].poll < queue'[i].poll /\ queue'[i].poll <= polls[h]
                      /\ \A i, j \in DOMAIN queue' : UpdateOf(i, h)' /\ UpdateOf(j, h)' /\ i < j =>
                            queue'[i].poll < queue'[j].poll
    BY DEF PollsOrdered
  <1>1. record[h].poll \in Nat /\ polls[h] \in Nat /\ \A k \in DOMAIN queue : queue[k].poll \in Nat
    BY StatusTypes DEF StatusInv
  <1>2. /\ record[h].poll <= polls[h]
        /\ record[h].poll = polls[h] \/ \E j \in DOMAIN queue : UpdateOf(j, h) /\ queue[j].poll = polls[h]
        /\ \A i \in DOMAIN queue : UpdateOf(i, h) => record[h].poll < queue[i].poll /\ queue[i].poll <= polls[h]
        /\ \A i, j \in DOMAIN queue : UpdateOf(i, h) /\ UpdateOf(j, h) /\ i < j => queue[i].poll < queue[j].poll
    BY DEF StatusInv, PollsOrdered
  <1>3. \A i \in DOMAIN queue' : /\ i \in Nat /\ i + 1 \in DOMAIN queue /\ queue'[i] = queue[i + 1]
                                 /\ UpdateOf(i, h)' <=> UpdateOf(i + 1, h)
    BY DEF Popped, UpdateOf
  <1>4. 1 \in DOMAIN queue /\ record'[h].poll = IF UpdateOf(1, h) THEN queue[1].poll ELSE record[h].poll
    BY DEF Popped
  <1>5. record'[h].poll <= polls[h]
    BY <1>2, <1>4
  <1>6. record'[h].poll = polls[h] \/ \E j \in DOMAIN queue' : UpdateOf(j, h)' /\ queue'[j].poll = polls[h]
    <2>1. CASE record[h].poll = polls[h] /\ ~UpdateOf(1, h)
      BY <1>4, <2>1
    <2>2. CASE record[h].poll = polls[h] /\ UpdateOf(1, h)
      BY <1>1, <1>2, <1>4, <2>2
    <2>3. CASE \E k \in DOMAIN queue : UpdateOf(k, h) /\ queue[k].poll = polls[h]
      <3>1. PICK k \in DOMAIN queue : UpdateOf(k, h) /\ queue[k].poll = polls[h]
        BY <2>3
      <3>2. CASE k = 1
        BY <1>4, <3>1, <3>2
      <3>3. CASE k # 1
        <4>1. PICK i \in DOMAIN queue' : k = i + 1
          BY <3>3 DEF Popped
        <4> QED BY <1>3, <3>1, <4>1
      <3> QED BY <3>2, <3>3
    <2> QED BY <1>2, <2>1, <2>2, <2>3
  <1>7. ASSUME NEW i \in DOMAIN queue', UpdateOf(i, h)'
        PROVE  record'[h].poll < queue'[i].poll /\ queue'[i].poll <= polls[h]
    <2>1. i + 1 \in DOMAIN queue /\ UpdateOf(i + 1, h) /\ queue'[i] = queue[i + 1] /\ i + 1 \in Nat /\ 1 < i + 1
      <3>1. i # 0
        BY DEF Popped
      <3> QED BY <1>3, <1>7, <3>1
    <2> QED BY <1>2, <1>4, <2>1
  <1>8. ASSUME NEW i \in DOMAIN queue', NEW j \in DOMAIN queue', UpdateOf(i, h)', UpdateOf(j, h)', i < j
        PROVE  queue'[i].poll < queue'[j].poll
    <2>1. i + 1 < j + 1
      BY <1>3, <1>8
    <2> QED BY <1>2, <1>3, <1>8, <2>1
  <1> QED BY <1>5, <1>6, <1>7, <1>8

LEMMA PoppedTasks ==
    ASSUME StatusInv, Popped,
           \A s \in Sessions : session'[s] = session[s] \/ (queue[1].op = "serialize" /\ queue[1].session = s)
    PROVE  TasksOK'
  <1> SUFFICES ASSUME NEW i \in DOMAIN queue'
               PROVE  /\ queue'[i].op = "serialize" =>
                            /\ queue'[i].session \in Sessions /\ session'[queue'[i].session] = "asked"
                            /\ \A j \in DOMAIN queue' :
                                  queue'[j].op = "serialize" /\ queue'[j].session = queue'[i].session => i = j
                      /\ queue'[i].op # "serialize" => queue'[i].agent \in Agents
    BY DEF TasksOK
  <1>1. \A k \in DOMAIN queue' : k \in Nat /\ k # 0 /\ k + 1 # 1 /\ k + 1 \in DOMAIN queue /\ queue'[k] = queue[k + 1]
    BY DEF Popped
  <1>2. \A j \in DOMAIN queue' : i + 1 = j + 1 => i = j
    BY <1>1
  <1>3. 1 \in DOMAIN queue /\ i + 1 \in DOMAIN queue /\ i + 1 # 1 /\ queue'[i] = queue[i + 1]
    BY <1>1 DEF Popped
  <1>4. ASSUME queue'[i].op = "serialize"
        PROVE  queue'[i].session \in Sessions /\ session'[queue'[i].session] = "asked"
    BY <1>3, <1>4 DEF StatusInv, TasksOK
  <1>5. ASSUME queue'[i].op = "serialize", NEW j \in DOMAIN queue', queue'[j].op = "serialize",
               queue'[j].session = queue'[i].session
        PROVE  i = j
    BY <1>1, <1>2, <1>5 DEF StatusInv, TasksOK
  <1>6. queue'[i].op # "serialize" => queue'[i].agent \in Agents
    BY <1>3 DEF StatusInv, TasksOK
  <1> QED BY <1>4, <1>5, <1>6

LEMMA GrownRecords ==
    ASSUME StatusInv, Grown, db' = db, record' = record,
           \A h \in monitored' : h \in monitored \/ \E j \in DOMAIN queue' : InsertOf(j, h)',
           \A k \in DOMAIN queue' \ DOMAIN queue, h \in Agents : UpdateOf(k, h)' => h \in monitored
    PROVE  RecordsComing'
  <1>1. \A j \in DOMAIN queue : \A h : j \in DOMAIN queue' /\ (InsertOf(j, h)' <=> InsertOf(j, h)) /\ (UpdateOf(j, h)' <=> UpdateOf(j, h))
    BY DEF Grown, InsertOf, UpdateOf
  <1>2. \A h \in monitored' : h \in db' \/ \E j \in DOMAIN queue' : InsertOf(j, h)'
    BY <1>1 DEF StatusInv, RecordsComing
  <1>3. ASSUME NEW i \in DOMAIN queue', NEW h \in Agents, UpdateOf(i, h)'
        PROVE  h \in db' \/ InsertBefore(h, i)'
    <2>1. CASE i \in DOMAIN queue
      BY <1>1, <1>3, <2>1 DEF StatusInv, RecordsComing, InsertBefore
    <2>2. CASE i \notin DOMAIN queue
      BY <1>1, <1>3, <2>2 DEF StatusInv, RecordsComing, InsertBefore, Grown
    <2> QED BY <2>1, <2>2
  <1> QED BY <1>2, <1>3 DEF RecordsComing, StatusInv

LEMMA GrownAnswers ==
    ASSUME StatusInv, Grown, db' = db, record' = record,
           \A i \in DOMAIN queue, s \in Sessions :
              queue[i].op = "serialize" /\ queue[i].session = s => asked'[s] = asked[s],
           \A k \in DOMAIN queue' \ DOMAIN queue, s \in Sessions :
              queue'[k].op = "serialize" /\ queue'[k].session = s =>
                 asked'[s] = [agents |-> monitored, polls |-> polls]
    PROVE  AnswersComing'
  <1>1. \A j \in DOMAIN queue : \A h : /\ j \in DOMAIN queue' /\ queue'[j] = queue[j]
                                   /\ (InsertOf(j, h)' <=> InsertOf(j, h)) /\ (UpdateOf(j, h)' <=> UpdateOf(j, h))
    BY DEF Grown, InsertOf, UpdateOf
  <1>2. \A i, h : InsertBefore(h, i) => InsertBefore(h, i)'
    BY <1>1 DEF InsertBefore
  <1>3. ASSUME NEW i \in DOMAIN queue', NEW s \in Sessions, queue'[i].op = "serialize", queue'[i].session = s
        PROVE  /\ \A h \in asked'[s].agents : h \in db \/ InsertBefore(h, i)'
               /\ \A h \in Agents : asked'[s].polls[h] <= record[h].poll \/ UpdateBefore(h, asked[s].polls[h], i)'
    <2>1. CASE i \in DOMAIN queue
      <3>1. queue[i].op = "serialize" /\ queue[i].session = s /\ asked'[s] = asked[s]
        BY <1>1, <1>3, <2>1
      <3>2. ASSUME NEW h \in Agents, UpdateBefore(h, asked[s].polls[h], i)
            PROVE  UpdateBefore(h, asked[s].polls[h], i)'
        BY <1>1, <3>1, <3>2 DEF UpdateBefore
      <3>3. /\ \A h \in asked[s].agents : h \in db \/ InsertBefore(h, i)
            /\ \A h \in Agents : asked[s].polls[h] <= record[h].poll \/ UpdateBefore(h, asked[s].polls[h], i)
        BY <2>1, <3>1 DEF StatusInv, AnswersComing
      <3>4. \A h \in asked'[s].agents : h \in db \/ InsertBefore(h, i)'
        BY <1>2, <3>1, <3>3
      <3>5. ASSUME NEW h \in Agents
            PROVE  asked'[s].polls[h] <= record[h].poll \/ UpdateBefore(h, asked[s].polls[h], i)'
        BY <3>1, <3>2, <3>3
      <3> QED BY <3>4, <3>5
    <2>2. CASE i \notin DOMAIN queue
      <3>1. asked'[s].agents = monitored /\ asked'[s].polls = polls
        BY <1>3, <2>2
      <3>2. \A j \in DOMAIN queue : j < i
        BY <2>2 DEF Grown
      <3>3. \A h \in monitored : h \in db \/ InsertBefore(h, i)
        BY <3>2 DEF StatusInv, RecordsComing, InsertBefore
      <3>4. ASSUME NEW h \in Agents
            PROVE  asked'[s].polls[h] <= record[h].poll \/ UpdateBefore(h, asked[s].polls[h], i)'
        <4>0. polls[h] \in Nat /\ record[h].poll \in Nat /\ asked'[s].polls[h] = polls[h]
          BY <3>1, StatusTypes DEF StatusInv
        <4>1. CASE record[h].poll = polls[h]
          BY <4>0, <4>1
        <4>2. CASE \E j \in DOMAIN queue : UpdateOf(j, h) /\ queue[j].poll = polls[h]
          <5>1. PICK j \in DOMAIN queue : UpdateOf(j, h) /\ queue[j].poll = polls[h]
            BY <4>2
          <5>2. j \in DOMAIN queue' /\ j < i /\ UpdateOf(j, h)' /\ asked'[s].polls[h] <= queue'[j].poll
            BY <1>1, <3>2, <4>0, <5>1
          <5> QED BY <5>2 DEF UpdateBefore
        <4> QED BY <4>1, <4>2 DEF StatusInv, PollsOrdered
      <3> QED BY <1>2, <3>1, <3>3, <3>4
    <2> QED BY <2>1, <2>2
  <1> QED BY <1>3 DEF AnswersComing

\* A handler that is no update_record_ is dispatched.
LEMMA GrownPolls ==
    ASSUME StatusInv, Grown, polls' = polls, record' = record,
           \A k \in DOMAIN queue' \ DOMAIN queue, h \in Agents : ~UpdateOf(k, h)'
    PROVE  PollsOrdered'
  <1>1. \A j \in DOMAIN queue : \A h : j \in DOMAIN queue' /\ queue'[j] = queue[j] /\ (UpdateOf(j, h)' <=> UpdateOf(j, h))
    BY DEF Grown, UpdateOf
  <1> QED BY <1>1 DEF StatusInv, PollsOrdered

\* What happens to records and reports when neither is written.
LEMMA UnwrittenRecords ==
    ASSUME StatusInv, UNCHANGED <<record, now>>
    PROVE  Stamps'
  BY DEF StatusInv, Stamps

LEMMA UnwrittenReports ==
    ASSUME StatusInv,
           \A s \in Sessions : session'[s] \in {"posted", "sending"} =>
              session[s] \in {"posted", "sending"} /\ asked'[s] = asked[s] /\ report'[s] = report[s]
    PROVE  ReportUpToDate'
  BY DEF StatusInv, ReportUpToDate

LEMMA StatusInitial ==
    ASSUME StatusInit
    PROVE  StatusInv
  <1>1. queue = << >> /\ DOMAIN queue = {} /\ << >> \in Seq(Task)
    BY EmptySeq DEF StatusInit
  <1>2. Fresh \in Record /\ Fresh.poll = 0 /\ Fresh.result = "NA" /\ Fresh.lastsuccess_ts = 0 /\ Fresh.lastfailure_ts = 0
    BY DEF Fresh, Record, Result
  <1>3. /\ polls \in [Agents -> 0 .. MaxPolls] /\ NoPolls \in [Agents -> Nat] /\ record \in [Agents -> Record]
        /\ NoRecords \in [Agents -> Record] /\ lives \in 0 .. MaxLives
    BY <1>2, PollerStatusAssumption DEF StatusInit, NoPolls, NoRecords
  <1>4. /\ asked \in [Sessions -> [agents : SUBSET Agents, polls : [Agents -> Nat]]]
        /\ report \in [Sessions -> [agents : SUBSET Agents, record : [Agents -> Record]]]
    BY <1>3 DEF StatusInit, NotAsked, NoReport
  <1>5. StatusTypeOK
    BY <1>1, <1>3, <1>4 DEF StatusTypeOK, StatusInit
  <1>6. \A h \in Agents : record[h] = Fresh /\ polls[h] = 0
    BY DEF StatusInit, NoRecords, NoPolls
  <1>7. TasksOK /\ RecordsComing /\ AnswersComing
    BY <1>1, <1>6 DEF TasksOK, RecordsComing, AnswersComing, StatusInit
  <1>8. PollsOrdered /\ Stamps
    BY <1>1, <1>2, <1>6 DEF PollsOrdered, Stamps, StatusInit
  <1>9. ReportUpToDate
    BY DEF ReportUpToDate, StatusInit
  <1> QED BY <1>5, <1>7, <1>8, <1>9 DEF StatusInv

LEMMA ThrowKeeps ==
    ASSUME StatusInv, NEW s \in Sessions, remote_endpoint_throws(s)
    PROVE  StatusInv'
  <1>1. queue' = << >> /\ DOMAIN queue' = {} /\ << >> \in Seq(Task)
    BY EmptySeq DEF remote_endpoint_throws
  <1>2. Fresh \in Record /\ Fresh.poll = 0 /\ Fresh.result = "NA" /\ Fresh.lastsuccess_ts = 0 /\ Fresh.lastfailure_ts = 0
    BY DEF Fresh, Record, Result
  <1>3. /\ polls' \in [Agents -> 0 .. MaxPolls] /\ NoPolls \in [Agents -> Nat] /\ record' \in [Agents -> Record]
        /\ NoRecords \in [Agents -> Record]
    BY <1>2, PollerStatusAssumption DEF remote_endpoint_throws, NoPolls, NoRecords
  <1>4. lives' \in 0 .. MaxLives
    BY PollerStatusAssumption DEF remote_endpoint_throws, StatusInv, StatusTypeOK
  <1>5. /\ asked' \in [Sessions -> [agents : SUBSET Agents, polls : [Agents -> Nat]]]
        /\ report' \in [Sessions -> [agents : SUBSET Agents, record : [Agents -> Record]]]
    BY <1>3 DEF remote_endpoint_throws, NotAsked, NoReport
  <1>6. StatusTypeOK'
    BY <1>1, <1>3, <1>4, <1>5 DEF StatusTypeOK, remote_endpoint_throws
  <1>7. \A h \in Agents : record'[h] = Fresh /\ polls'[h] = 0
    BY DEF remote_endpoint_throws, NoRecords, NoPolls
  <1>8. TasksOK' /\ RecordsComing' /\ AnswersComing'
    BY <1>1, <1>7 DEF TasksOK, RecordsComing, AnswersComing, remote_endpoint_throws
  <1>9. PollsOrdered' /\ Stamps'
    BY <1>1, <1>2, <1>7 DEF PollsOrdered, Stamps, remote_endpoint_throws
  <1>10. ReportUpToDate'
    BY DEF ReportUpToDate, remote_endpoint_throws
  <1> QED BY <1>6, <1>8, <1>9, <1>10 DEF StatusInv

\* A session step that leaves the strand alone.
LEMMA SessionKeeps ==
    ASSUME StatusInv, NEW s \in Sessions, handle_accept(s) \/ send_result(s) \/ handle_result_sent(s)
    PROVE  StatusInv'
  <1>1. PICK m \in {"reading", "sending", "closed"} :
            /\ session' = [session EXCEPT ![s] = m]
            /\ m = "sending" => session[s] = "posted" /\ UNCHANGED <<asked, report>>
    BY DEF handle_accept, send_result, handle_result_sent
  <1>2. /\ session[s] # "asked"
        /\ UNCHANGED <<monitored, polls, queue, db, record, described, now, lives>>
        /\ asked' = asked \/ asked' = [asked EXCEPT ![s] = NotAsked]
        /\ report' = report \/ report' = [report EXCEPT ![s] = NoReport]
    BY DEF handle_accept, send_result, handle_result_sent
  <1>3. StatusTypeOK /\ session \in [Sessions -> {"idle", "reading", "asked", "posted", "sending", "closed"}]
    BY DEF StatusInv, StatusTypeOK
  <1>4. /\ session' \in [Sessions -> {"idle", "reading", "asked", "posted", "sending", "closed"}]
        /\ session'[s] = m /\ \A t \in Sessions : t # s => session'[t] = session[t]
    BY <1>1, <1>3
  <1>5. /\ asked' \in [Sessions -> [agents : SUBSET Agents, polls : [Agents -> Nat]]]
        /\ \A t \in Sessions : t # s => asked'[t] = asked[t]
    <2> DEFINE A == [agents : SUBSET Agents, polls : [Agents -> Nat]]
    <2>1. NotAsked \in A
      BY DEF NotAsked, NoPolls
    <2>2. asked \in [Sessions -> A]
      BY <1>3 DEF StatusTypeOK
    <2> HIDE DEF A
    <2>3. asked' \in [Sessions -> A] /\ \A t \in Sessions : t # s => asked'[t] = asked[t]
      BY <1>2, <2>1, <2>2
    <2> QED BY <2>3 DEF A
  <1>6. /\ report' \in [Sessions -> [agents : SUBSET Agents, record : [Agents -> Record]]]
        /\ \A t \in Sessions : t # s => report'[t] = report[t]
    <2> DEFINE A == [agents : SUBSET Agents, record : [Agents -> Record]]
    <2>1. NoReport \in A
      BY DEF NoReport, NoRecords, Fresh, Record, Result
    <2>2. report \in [Sessions -> A]
      BY <1>3 DEF StatusTypeOK
    <2> HIDE DEF A
    <2>3. report' \in [Sessions -> A] /\ \A t \in Sessions : t # s => report'[t] = report[t]
      BY <1>2, <2>1, <2>2
    <2> QED BY <2>3 DEF A
  <1>7. StatusTypeOK'
    BY <1>2, <1>3, <1>4, <1>5, <1>6 DEF StatusTypeOK
  <1>8. \A i \in DOMAIN queue : queue[i].op = "serialize" => queue[i].session # s /\ queue[i].session \in Sessions
    BY <1>2 DEF StatusInv, TasksOK
  <1>9. TasksOK'
    BY <1>2, <1>4, <1>8 DEF StatusInv, TasksOK
  <1>10. RecordsComing' /\ PollsOrdered'
    BY <1>2 DEF StatusInv, RecordsComing, PollsOrdered, InsertOf, UpdateOf, InsertBefore
  <1>11. AnswersComing'
    <2>1. \A t \in Sessions : t # s => asked'[t] = asked[t]
      BY <1>5
    <2> QED BY <1>2, <1>8, <2>1 DEF StatusInv, AnswersComing, InsertBefore, UpdateBefore, InsertOf, UpdateOf
  <1>12. Stamps'
    BY <1>2, UnwrittenRecords
  <1>13. ReportUpToDate'
    BY <1>1, <1>4, <1>5, <1>6, UnwrittenReports
  <1> QED BY <1>7, <1>9, <1>10, <1>11, <1>12, <1>13 DEF StatusInv

\* A record is made.
LEMMA InsertKeeps ==
    ASSUME StatusInv, insert_record_
    PROVE  StatusInv'
  <1> DEFINE a == Head(queue).agent
  <1>1. StatusTypeOK /\ queue \in Seq(Task)
    BY DEF StatusInv, StatusTypeOK
  <1>2. Popped
    BY <1>1, Pops DEF insert_record_
  <1>3. a \in Agents /\ queue[1].op = "insert" /\ queue[1].agent = a /\ db' = db \cup {a}
    BY <1>2 DEF insert_record_, Popped, StatusInv, TasksOK
  <1>4. record' = record
    <2>1. a \notin db => record[a] = Fresh
      BY <1>3 DEF StatusInv, RecordsComing
    <2>2. record' = IF a \in db THEN record ELSE [record EXCEPT ![a] = Fresh]
      BY DEF insert_record_
    <2> HIDE DEF a
    <2> QED BY <1>1, <2>1, <2>2 DEF StatusTypeOK
  <1>5. \A h : ~UpdateOf(1, h)
    BY <1>3 DEF UpdateOf
  <1>6. record' \in [Agents -> Record] /\ \A h \in Agents : record[h].poll <= record'[h].poll
    BY <1>1, <1>4, StatusTypes DEF StatusTypeOK
  <1>7. StatusTypeOK'
    BY <1>1, <1>2, <1>3, <1>4 DEF StatusTypeOK, insert_record_, Popped
  <1>8. TasksOK'
    BY <1>2, PoppedTasks DEF insert_record_
  <1>9. RecordsComing'
    <2>1. \A h \in Agents \ db' : record'[h] = Fresh
      BY <1>3, <1>4 DEF StatusInv, RecordsComing
    <2> QED BY <1>2, <1>3, <2>1, PoppedRecords DEF insert_record_
  <1>10. PollsOrdered'
    BY <1>2, <1>4, <1>5, <1>6, PoppedPolls DEF insert_record_
  <1>11. AnswersComing'
    BY <1>2, <1>3, <1>5, <1>6, PoppedAnswers DEF insert_record_
  <1>12. Stamps' /\ ReportUpToDate'
    BY <1>4, UnwrittenRecords, UnwrittenReports DEF insert_record_
  <1> QED BY <1>7, <1>8, <1>9, <1>10, <1>11, <1>12 DEF StatusInv

\* A result is recorded.
LEMMA UpdateKeeps ==
    ASSUME StatusInv, update_record_
    PROVE  StatusInv'
  <1> DEFINE t == Head(queue)
             a == t.agent
             old == record[a]
             new == [result |-> t.result, poll |-> t.poll,
                     lastsuccess_ts |-> IF t.result = "SUCCESS" THEN now + 1 ELSE old.lastsuccess_ts,
                     lastfailure_ts |-> IF t.result = "SUCCESS" THEN old.lastfailure_ts ELSE now + 1]
  <1>1. StatusTypeOK /\ queue \in Seq(Task) /\ now \in Nat /\ record \in [Agents -> Record]
    BY DEF StatusInv, StatusTypeOK
  <1>2. Popped
    BY <1>1, Pops DEF update_record_
  <1>3. /\ a \in Agents /\ queue[1] = t /\ t.op = "update" /\ t \in Task /\ t.poll \in Nat /\ t.result \in Result
        /\ 1 \in DOMAIN queue
    BY <1>2 DEF update_record_, Popped, StatusInv, TasksOK, Task
  <1>4. a \in db
    <2>1. ~InsertBefore(a, 1)
      BY <1>2 DEF InsertBefore, Popped
    <2> QED BY <1>3, <2>1 DEF StatusInv, RecordsComing, UpdateOf
  <1>5. record' = [record EXCEPT ![a] = new] /\ now' = now + 1
    BY <1>1, <1>3, <1>4 DEF update_record_
  <1>6. old \in Record /\ old.lastsuccess_ts \in Nat /\ old.lastfailure_ts \in Nat /\ old.poll \in Nat
    BY <1>1, <1>3, StatusTypes
  <1>7. /\ new \in Record /\ new.poll = t.poll /\ new.result = t.result
        /\ t.result = "SUCCESS" => new.lastsuccess_ts = now + 1 /\ new.lastfailure_ts = old.lastfailure_ts
        /\ t.result # "SUCCESS" => new.lastsuccess_ts = old.lastsuccess_ts /\ new.lastfailure_ts = now + 1
    BY <1>1, <1>3, <1>6 DEF Record
  <1> HIDE DEF new, a, t
  <1>8. record' \in [Agents -> Record] /\ record'[a] = new /\ \A h \in Agents : h # a => record'[h] = record[h]
    BY <1>1, <1>3, <1>5, <1>7
  <1>9. \A h \in Agents : UpdateOf(1, h) <=> h = a
    BY <1>3 DEF UpdateOf, a
  <1>10. \A h \in Agents : record'[h].poll = IF UpdateOf(1, h) THEN queue[1].poll ELSE record[h].poll
    BY <1>3, <1>7, <1>8, <1>9
  <1>11. \A h \in Agents : record[h].poll <= record'[h].poll
    <2>1. record[a].poll < t.poll
      BY <1>3, <1>9 DEF StatusInv, PollsOrdered
    <2> QED BY <1>1, <1>3, <1>6, <1>7, <1>8, <2>1, StatusTypes
  <1>12. StatusTypeOK'
    BY <1>1, <1>2, <1>5, <1>8 DEF StatusTypeOK, update_record_, Popped
  <1>13. TasksOK'
    BY <1>2, PoppedTasks DEF update_record_
  <1>14. RecordsComing'
    <2>1. \A h \in Agents \ db' : record'[h] = Fresh
      BY <1>4, <1>8 DEF StatusInv, RecordsComing, update_record_
    <2> QED BY <1>2, <2>1, PoppedRecords DEF update_record_
  <1>15. PollsOrdered'
    BY <1>2, <1>8, <1>10, PoppedPolls DEF update_record_
  <1>16. AnswersComing'
    <2>1. \A h \in Agents : UpdateOf(1, h) => queue[1].poll <= record'[h].poll
      BY <1>3, <1>7, <1>8, <1>9
    <2> QED BY <1>2, <1>8, <1>11, <2>1, PoppedAnswers DEF update_record_
  <1>17. Stamps'
    <2> SUFFICES ASSUME NEW h \in Agents
                 PROVE  /\ record'[h].lastsuccess_ts <= now' /\ record'[h].lastfailure_ts <= now'
                        /\ record'[h].result = "SUCCESS" => record'[h].lastsuccess_ts > record'[h].lastfailure_ts
                        /\ record'[h].result \in Result \ {"SUCCESS", "NA"} =>
                              record'[h].lastsuccess_ts < record'[h].lastfailure_ts
      BY DEF Stamps
    <2>1. /\ record[h].lastsuccess_ts <= now /\ record[h].lastfailure_ts <= now
          /\ record[h].result = "SUCCESS" => record[h].lastsuccess_ts > record[h].lastfailure_ts
          /\ record[h].result \in Result \ {"SUCCESS", "NA"} =>
                record[h].lastsuccess_ts < record[h].lastfailure_ts
          /\ record[h].lastsuccess_ts \in Nat /\ record[h].lastfailure_ts \in Nat
      BY <1>1, StatusTypes DEF StatusInv, Stamps
    <2>2. CASE h = a
      BY <1>1, <1>5, <1>6, <1>7, <1>8, <2>1, <2>2
    <2>3. CASE h # a
      <3>1. record'[h] = record[h] /\ now' = now + 1
        BY <1>5, <1>8, <2>3
      <3> QED BY <1>1, <2>1, <3>1
    <2> QED BY <2>2, <2>3
  <1>18. ReportUpToDate'
    BY UnwrittenReports DEF update_record_
  <1> QED BY <1>12, <1>13, <1>14, <1>15, <1>16, <1>17, <1>18 DEF StatusInv

\* A description is kept, or lost; records are written to a report.
LEMMA DescribeKeeps ==
    ASSUME StatusInv, set_description_
    PROVE  StatusInv'
  <1>1. StatusTypeOK /\ queue \in Seq(Task)
    BY DEF StatusInv, StatusTypeOK
  <1>2. Popped
    BY <1>1, Pops DEF set_description_
  <1>3. \A h : ~UpdateOf(1, h)
    BY <1>2 DEF UpdateOf, set_description_, Popped
  <1>4. record' = record /\ record' \in [Agents -> Record] /\ \A h \in Agents : record[h].poll <= record'[h].poll
    BY <1>1, StatusTypes DEF StatusTypeOK, set_description_
  <1>5. StatusTypeOK'
    BY <1>1, <1>2 DEF StatusTypeOK, set_description_, Popped
  <1>6. TasksOK'
    BY <1>2, PoppedTasks DEF set_description_
  <1>7. RecordsComing'
    <2>1. \A h \in Agents \ db' : record'[h] = Fresh
      BY DEF StatusInv, RecordsComing, set_description_
    <2> QED BY <1>2, <2>1, PoppedRecords DEF set_description_
  <1>8. PollsOrdered'
    BY <1>2, <1>3, <1>4, PoppedPolls DEF set_description_
  <1>9. AnswersComing'
    BY <1>2, <1>3, <1>4, PoppedAnswers DEF set_description_
  <1>10. Stamps' /\ ReportUpToDate'
    BY UnwrittenRecords, UnwrittenReports DEF set_description_
  <1> QED BY <1>5, <1>6, <1>7, <1>8, <1>9, <1>10 DEF StatusInv

LEMMA SerializeKeeps ==
    ASSUME StatusInv, serialize_as_json_
    PROVE  StatusInv'
  <1> DEFINE s == Head(queue).session
             all == [agents |-> db, record |-> record]
             R == [agents : SUBSET Agents, record : [Agents -> Record]]
  <1>1. /\ StatusTypeOK /\ queue \in Seq(Task) /\ record \in [Agents -> Record] /\ db \subseteq Agents
        /\ session \in [Sessions -> {"idle", "reading", "asked", "posted", "sending", "closed"}]
        /\ report \in [Sessions -> R]
    BY DEF StatusInv, StatusTypeOK
  <1>2. Popped
    BY <1>1, Pops DEF serialize_as_json_
  <1>3. /\ queue[1].op = "serialize" /\ queue[1].session = s /\ s \in Sessions /\ 1 \in DOMAIN queue
        /\ all \in R /\ all.agents = db /\ all.record = record
    BY <1>1, <1>2 DEF serialize_as_json_, Popped, StatusInv, TasksOK
  <1>4. /\ session' = [session EXCEPT ![s] = "posted"] /\ report' = [report EXCEPT ![s] = all]
        /\ UNCHANGED <<monitored, polls, db, record, described, now, asked, lives>>
    BY DEF serialize_as_json_
  <1> HIDE DEF s, all, R
  <1>5. /\ session' \in [Sessions -> {"idle", "reading", "asked", "posted", "sending", "closed"}]
        /\ report' \in [Sessions -> R]
        /\ \A t \in Sessions : t # s => session'[t] = session[t] /\ report'[t] = report[t]
        /\ report'[s] = all
    BY <1>1, <1>3, <1>4
  <1>6. \A h : ~UpdateOf(1, h)
    BY <1>3 DEF UpdateOf
  <1>7. record' \in [Agents -> Record] /\ \A h \in Agents : record[h].poll <= record'[h].poll
    BY <1>1, <1>4, StatusTypes
  <1>8. StatusTypeOK'
    BY <1>1, <1>2, <1>4, <1>5 DEF StatusTypeOK, Popped, R
  <1>9. TasksOK'
    BY <1>2, <1>3, <1>5, PoppedTasks
  <1>10. RecordsComing'
    <2>1. \A h \in Agents \ db' : record'[h] = Fresh
      BY <1>4 DEF StatusInv, RecordsComing
    <2> QED BY <1>2, <1>4, <2>1, PoppedRecords DEF serialize_as_json_
  <1>11. PollsOrdered'
    BY <1>2, <1>4, <1>6, <1>7, PoppedPolls
  <1>12. AnswersComing'
    BY <1>2, <1>4, <1>6, <1>7, PoppedAnswers DEF serialize_as_json_
  <1>13. Stamps'
    BY <1>4, UnwrittenRecords
  <1>14. ReportUpToDate'
    <2>1. /\ \A h \in asked[s].agents : h \in db
          /\ \A h \in Agents : asked[s].polls[h] <= record[h].poll
      <3>1. ~(\E j \in DOMAIN queue : j < 1)
        BY <1>2 DEF Popped
      <3> QED BY <1>3, <3>1 DEF StatusInv, AnswersComing, InsertBefore, UpdateBefore
    <2> SUFFICES ASSUME NEW t \in Sessions, session'[t] \in {"posted", "sending"}
                 PROVE  /\ asked[t].agents \subseteq report'[t].agents
                        /\ \A h \in Agents : asked[t].polls[h] <= report'[t].record[h].poll
      BY <1>4 DEF ReportUpToDate
    <2>2. CASE t = s
      BY <1>3, <1>5, <2>1, <2>2
    <2>3. CASE t # s
      BY <1>5, <2>3 DEF StatusInv, ReportUpToDate
    <2> QED BY <2>2, <2>3
  <1> QED BY <1>8, <1>9, <1>10, <1>11, <1>12, <1>13, <1>14 DEF StatusInv

\* A handler of no session is dispatched.
LEMMA GrownTasks ==
    ASSUME StatusInv, Grown, session' = session,
           \A k \in DOMAIN queue' \ DOMAIN queue : queue'[k].op # "serialize" /\ queue'[k].agent \in Agents
    PROVE  TasksOK'
  <1>1. \A i \in DOMAIN queue : queue'[i] = queue[i]
    BY DEF Grown
  <1> QED BY <1>1 DEF StatusInv, TasksOK

\* A poller starts to monitor a home agent.
LEMMA MonitorKeeps ==
    ASSUME StatusInv, NEW h \in Agents, home_agent_discovered(h)
    PROVE  StatusInv'
  <1> DEFINE t == Insert(h)
  <1>1. StatusTypeOK /\ queue \in Seq(Task)
    BY DEF StatusInv, StatusTypeOK
  <1>2. t \in Task /\ t.op = "insert" /\ t.agent = h
    BY DEF Task, Insert, Result
  <1>3. queue' = Append(queue, t)
    BY DEF home_agent_discovered
  <1> HIDE DEF t
  <1>4. /\ Grown /\ Len(queue) + 1 \in DOMAIN queue' /\ queue'[Len(queue) + 1] = t
        /\ \A k \in DOMAIN queue' \ DOMAIN queue : queue'[k] = t
    BY <1>1, <1>2, <1>3, Grows
  <1>5. \A k \in DOMAIN queue' \ DOMAIN queue : /\ queue'[k].op # "serialize" /\ queue'[k].agent \in Agents
                                                /\ \A g : ~UpdateOf(k, g)'
    BY <1>2, <1>4 DEF UpdateOf
  <1>6. StatusTypeOK'
    BY <1>1, <1>4 DEF StatusTypeOK, home_agent_discovered, Grown
  <1>7. TasksOK'
    BY <1>4, <1>5, GrownTasks DEF home_agent_discovered
  <1>8. RecordsComing'
    <2>2. \E j \in DOMAIN queue' : InsertOf(j, h)'
      BY <1>2, <1>4 DEF InsertOf
    <2>3. \A g \in monitored' : g \in monitored \/ \E j \in DOMAIN queue' : InsertOf(j, g)'
      BY <2>2 DEF home_agent_discovered
    <2> QED BY <1>4, <1>5, <2>3, GrownRecords DEF home_agent_discovered
  <1>9. PollsOrdered'
    BY <1>4, <1>5, GrownPolls DEF home_agent_discovered
  <1>10. AnswersComing'
    BY <1>4, <1>5, GrownAnswers DEF home_agent_discovered
  <1>11. Stamps' /\ ReportUpToDate'
    BY UnwrittenRecords, UnwrittenReports DEF home_agent_discovered
  <1> QED BY <1>6, <1>7, <1>8, <1>9, <1>10, <1>11 DEF StatusInv

\* A poll ends.
LEMMA ResultKeeps ==
    ASSUME StatusInv, NEW h \in Agents, NEW r \in Outcomes, query_result(h, r)
    PROVE  StatusInv'
  <1> DEFINE n == polls[h] + 1
             t == Update(h, r, n)
  <1>1. StatusTypeOK /\ queue \in Seq(Task) /\ polls \in [Agents -> 0 .. MaxPolls] /\ polls[h] \in Nat
        /\ \A g \in Agents : polls[g] \in Nat /\ record[g].poll \in Nat
    BY StatusTypes DEF StatusInv, StatusTypeOK
  <1>2. t \in Task /\ t.op = "update" /\ t.agent = h /\ t.poll = n /\ n \in Nat
    BY <1>1, PollerStatusAssumption DEF Task, Update
  <1>3. polls' \in [Agents -> 0 .. MaxPolls] /\ polls'[h] = n /\ \A g \in Agents : g # h => polls'[g] = polls[g]
    BY <1>1, PollerStatusAssumption DEF query_result
  <1>4. UNCHANGED <<monitored, db, record, described, now, session, asked, report, lives>> /\ h \in monitored
    BY DEF query_result
  <1>5. n > polls[h]
    BY <1>1
  <1>6. \/ queue' = Append(queue, t)
        \/ \E g \in Agents : queue' = Append(Append(queue, t), Describe(g))
    BY DEF query_result
  <1> HIDE DEF n, t
  <1>7. PICK l \in DOMAIN queue' :
        /\ Grown /\ queue'[l] = t /\ l \notin DOMAIN queue
        /\ \A k \in DOMAIN queue' \ DOMAIN queue : k = l \/ (queue'[k].op = "describe" /\ queue'[k].agent \in Agents)
    <2>1. CASE queue' = Append(queue, t)
      BY <1>1, <1>2, <2>1, Grows
    <2>2. CASE \E g \in Agents : queue' = Append(Append(queue, t), Describe(g))
      <3>1. PICK g \in Agents : queue' = Append(Append(queue, t), Describe(g))
        BY <2>2
      <3>2. Describe(g) \in Task /\ Describe(g).op = "describe" /\ Describe(g).agent = g
        BY DEF Task, Describe, Result
      <3> DEFINE u == Describe(g)
      <3> HIDE DEF u
      <3>3. queue' = Append(Append(queue, t), u) /\ u \in Task /\ u.op = "describe" /\ u.agent \in Agents
        BY <3>1, <3>2 DEF u
      <3>4. PICK l \in DOMAIN queue' :
            /\ Grown /\ queue'[l] = t /\ l \notin DOMAIN queue
            /\ \A k \in DOMAIN queue' \ DOMAIN queue : k = l \/ queue'[k] = u
        BY <1>1, <1>2, <3>3, GrowsTwice
      <3> QED BY <3>3, <3>4
    <2> QED BY <1>6, <2>1, <2>2
  <1>8. \A k \in DOMAIN queue' \ DOMAIN queue :
           /\ queue'[k].op # "serialize" /\ queue'[k].agent \in Agents
           /\ \A g : UpdateOf(k, g)' => k = l /\ g = h
    BY <1>2, <1>7 DEF UpdateOf
  <1>9. StatusTypeOK'
    BY <1>1, <1>3, <1>4, <1>7 DEF StatusTypeOK, Grown
  <1>10. TasksOK'
    BY <1>4, <1>7, <1>8, GrownTasks
  <1>11. RecordsComing'
    BY <1>4, <1>7, <1>8, GrownRecords
  <1>12. AnswersComing'
    BY <1>4, <1>7, <1>8, GrownAnswers
  <1>13. Stamps' /\ ReportUpToDate'
    BY <1>4, UnwrittenRecords, UnwrittenReports
  <1>14. PollsOrdered'
    <2>1. \A j \in DOMAIN queue : \A g : j \in DOMAIN queue' /\ queue'[j] = queue[j] /\ (UpdateOf(j, g)' <=> UpdateOf(j, g))
      BY <1>7 DEF Grown, UpdateOf
    <2>2. \A j \in DOMAIN queue : queue[j].poll \in Nat /\ j < l
      BY <1>1, <1>7, StatusTypes DEF Grown
    <2>3. \A j \in DOMAIN queue' : j \in Nat
      BY <1>7 DEF Grown
    <2> SUFFICES ASSUME NEW g \in Agents
                 PROVE  /\ record[g].poll <= polls'[g]
                        /\ \/ record[g].poll = polls'[g]
                           \/ \E j \in DOMAIN queue' : UpdateOf(j, g)' /\ queue'[j].poll = polls'[g]
                        /\ \A i \in DOMAIN queue' : UpdateOf(i, g)' =>
                              record[g].poll < queue'[i].poll /\ queue'[i].poll <= polls'[g]
                        /\ \A i, j \in DOMAIN queue' : UpdateOf(i, g)' /\ UpdateOf(j, g)' /\ i < j =>
                              queue'[i].poll < queue'[j].poll
      BY <1>4 DEF PollsOrdered
    <2>4. /\ record[g].poll <= polls[g]
          /\ record[g].poll = polls[g] \/ \E j \in DOMAIN queue : UpdateOf(j, g) /\ queue[j].poll = polls[g]
          /\ \A i \in DOMAIN queue : UpdateOf(i, g) => record[g].poll < queue[i].poll /\ queue[i].poll <= polls[g]
          /\ \A i, j \in DOMAIN queue : UpdateOf(i, g) /\ UpdateOf(j, g) /\ i < j => queue[i].poll < queue[j].poll
      BY DEF StatusInv, PollsOrdered
    <2>5. CASE g # h
      <3>1. polls'[g] = polls[g] /\ \A i \in DOMAIN queue' : UpdateOf(i, g)' => i \in DOMAIN queue
        BY <1>3, <1>8, <2>5
      <3> QED BY <2>1, <2>4, <3>1
    <2>6. CASE g = h
      <3>1. polls'[g] = n /\ polls[g] < n /\ polls[g] \in Nat /\ record[g].poll \in Nat /\ n \in Nat
        BY <1>1, <1>2, <1>3, <1>5, <2>6
      <3>2. UpdateOf(l, g)' /\ queue'[l].poll = n /\ l \in DOMAIN queue'
        BY <1>2, <1>7, <2>6 DEF UpdateOf
      <3>3. ASSUME NEW i \in DOMAIN queue', UpdateOf(i, g)'
            PROVE  \/ i = l
                   \/ i \in DOMAIN queue /\ UpdateOf(i, g) /\ queue'[i].poll = queue[i].poll
        BY <1>8, <2>1, <3>3
      <3>4. record[g].poll <= polls'[g]
        BY <2>4, <3>1
      <3>5. ASSUME NEW i \in DOMAIN queue', UpdateOf(i, g)'
            PROVE  record[g].poll < queue'[i].poll /\ queue'[i].poll <= polls'[g]
        <4>1. CASE i = l
          BY <2>4, <3>1, <3>2, <4>1
        <4>2. CASE i \in DOMAIN queue /\ UpdateOf(i, g) /\ queue'[i].poll = queue[i].poll
          BY <2>2, <2>4, <3>1, <4>2
        <4> QED BY <3>3, <3>5, <4>1, <4>2
      <3>6. ASSUME NEW i \in DOMAIN queue', NEW j \in DOMAIN queue', UpdateOf(i, g)', UpdateOf(j, g)', i < j
            PROVE  queue'[i].poll < queue'[j].poll
        <4>1. i # l
          <5>1. j = l \/ j < l
            BY <2>2, <3>3, <3>6
          <5>2. l \in Nat /\ i \in Nat /\ j \in Nat
            BY <2>3, <3>2
          <5> QED BY <3>6, <5>1, <5>2
        <4>2. i \in DOMAIN queue /\ UpdateOf(i, g) /\ queue'[i].poll = queue[i].poll
          BY <3>3, <3>6, <4>1
        <4>3. CASE j = l
          BY <2>2, <2>4, <3>1, <3>2, <4>2, <4>3
        <4>4. CASE j \in DOMAIN queue /\ UpdateOf(j, g) /\ queue'[j].poll = queue[j].poll
          BY <2>4, <3>6, <4>2, <4>4
        <4> QED BY <3>3, <3>6, <4>3, <4>4
      <3> QED BY <3>1, <3>2, <3>4, <3>5, <3>6
    <2> QED BY <2>5, <2>6
  <1> QED BY <1>9, <1>10, <1>11, <1>12, <1>13, <1>14 DEF StatusInv

\* A command is read.
LEMMA CommandKeeps ==
    ASSUME StatusInv, NEW s \in Sessions, handle_command_read(s)
    PROVE  StatusInv'
  <1> DEFINE t == Serialize(s)
             A == [agents : SUBSET Agents, polls : [Agents -> Nat]]
             known == [agents |-> monitored, polls |-> polls]
  <1>1. /\ StatusTypeOK /\ queue \in Seq(Task) /\ asked \in [Sessions -> A] /\ monitored \subseteq Agents
        /\ session \in [Sessions -> {"idle", "reading", "asked", "posted", "sending", "closed"}]
    BY DEF StatusInv, StatusTypeOK
  <1>2. polls \in [Agents -> Nat]
    BY PollerStatusAssumption DEF StatusInv, StatusTypeOK
  <1>3. t \in Task /\ t.op = "serialize" /\ t.session = s /\ known \in A
    BY <1>1, <1>2 DEF Task, Serialize, Result
  <1>4. /\ queue' = Append(queue, t) /\ asked' = [asked EXCEPT ![s] = known]
        /\ session' = [session EXCEPT ![s] = "asked"] /\ session[s] = "reading"
        /\ UNCHANGED <<monitored, polls, db, record, described, now, report, lives>>
    BY DEF handle_command_read
  <1> HIDE DEF t, known, A
  <1>5. /\ Grown /\ Len(queue) + 1 \in DOMAIN queue' /\ queue'[Len(queue) + 1] = t
        /\ \A k \in DOMAIN queue' \ DOMAIN queue : k = Len(queue) + 1 /\ queue'[k] = t
    BY <1>1, <1>3, <1>4, Grows
  <1>6. /\ asked' \in [Sessions -> A] /\ asked'[s] = known /\ \A u \in Sessions : u # s => asked'[u] = asked[u]
        /\ session' \in [Sessions -> {"idle", "reading", "asked", "posted", "sending", "closed"}]
        /\ session'[s] = "asked" /\ \A u \in Sessions : u # s => session'[u] = session[u]
    BY <1>1, <1>3, <1>4
  <1>7. \A i \in DOMAIN queue : queue[i].op = "serialize" => queue[i].session # s /\ queue[i].session \in Sessions
    BY <1>4 DEF StatusInv, TasksOK
  <1>8. StatusTypeOK'
    BY <1>1, <1>4, <1>5, <1>6 DEF StatusTypeOK, Grown, A
  <1>9. TasksOK'
    <2>1. \A i \in DOMAIN queue : i \in DOMAIN queue' /\ queue'[i] = queue[i]
      BY <1>5 DEF Grown
    <2> SUFFICES ASSUME NEW i \in DOMAIN queue'
                 PROVE  /\ queue'[i].op = "serialize" =>
                              /\ queue'[i].session \in Sessions /\ session'[queue'[i].session] = "asked"
                              /\ \A j \in DOMAIN queue' :
                                    queue'[j].op = "serialize" /\ queue'[j].session = queue'[i].session => i = j
                        /\ queue'[i].op # "serialize" => queue'[i].agent \in Agents
      BY DEF TasksOK
    <2>2. CASE i \in DOMAIN queue
      BY <1>3, <1>5, <1>6, <1>7, <2>1, <2>2 DEF StatusInv, TasksOK
    <2>3. CASE i \notin DOMAIN queue
      BY <1>3, <1>5, <1>6, <1>7, <2>1, <2>3
    <2> QED BY <2>2, <2>3
  <1>10. \A k \in DOMAIN queue' \ DOMAIN queue : \A g : ~UpdateOf(k, g)'
    BY <1>3, <1>5 DEF UpdateOf
  <1>11. RecordsComing' /\ PollsOrdered'
    BY <1>4, <1>5, <1>10, GrownRecords, GrownPolls
  <1>12. AnswersComing'
    BY <1>3, <1>4, <1>5, <1>6, <1>7, GrownAnswers DEF known
  <1>13. Stamps'
    BY <1>4, UnwrittenRecords
  <1>14. ReportUpToDate'
    BY <1>4, <1>6, UnwrittenReports
  <1> QED BY <1>8, <1>9, <1>11, <1>12, <1>13, <1>14 DEF StatusInv

\* The service tells its clients what the pollers saw: a result finds its record,
\* a record shows the latest result, and a report is not older than the command
\* it answers, however many pollers and sessions call the database
\* (instrumentation.cpp: update_record_, serialize_as_json_, handle_command_read).
THEOREM StatusCorrect == StatusSpec => []StatusRight
  <1>1. StatusInit => StatusInv
    BY StatusInitial
  <1>2. StatusInv /\ [StatusNext]_statusVars => StatusInv'
    <2> SUFFICES ASSUME StatusInv, [StatusNext]_statusVars PROVE StatusInv'
      OBVIOUS
    <2>1. CASE UNCHANGED statusVars
      <3> USE <2>1 DEF statusVars
      <3>1. StatusTypeOK' /\ TasksOK'
        BY DEF StatusInv, StatusTypeOK, TasksOK
      <3>2. RecordsComing' /\ PollsOrdered'
        BY DEF StatusInv, RecordsComing, PollsOrdered, InsertOf, UpdateOf, InsertBefore
      <3>3. AnswersComing'
        BY DEF StatusInv, AnswersComing, InsertOf, UpdateOf, InsertBefore, UpdateBefore
      <3>4. Stamps' /\ ReportUpToDate'
        BY UnwrittenRecords, UnwrittenReports
      <3> QED BY <3>1, <3>2, <3>3, <3>4 DEF StatusInv
    <2>2. CASE StatusNext
      <3>1. CASE \E h \in Agents : home_agent_discovered(h) \/ \E r \in Outcomes : query_result(h, r)
        BY <3>1, MonitorKeeps, ResultKeeps
      <3>2. CASE insert_record_ \/ update_record_ \/ set_description_ \/ serialize_as_json_
        BY <3>2, InsertKeeps, UpdateKeeps, DescribeKeeps, SerializeKeeps
      <3>3. CASE \E s \in Sessions : \/ handle_accept(s) \/ handle_command_read(s) \/ send_result(s)
                                     \/ handle_result_sent(s) \/ remote_endpoint_throws(s)
        BY <3>3, SessionKeeps, CommandKeeps, ThrowKeeps
      <3> QED BY <2>2, <3>1, <3>2, <3>3 DEF StatusNext
    <2> QED BY <2>1, <2>2
  <1>3. StatusInv => StatusRight
    <2> SUFFICES ASSUME StatusInv PROVE StatusRight
      OBVIOUS
    <2>1. queue \in Seq(Task) /\ db \subseteq Agents
      BY DEF StatusInv, StatusTypeOK
    <2>2. ResultsFindRecords
      <3> SUFFICES ASSUME queue # << >>, Head(queue).op = "update" PROVE Head(queue).agent \in db
        BY DEF ResultsFindRecords
      <3>1. Head(queue) = queue[1] /\ 1 \in DOMAIN queue /\ \A j \in DOMAIN queue : ~(j < 1)
        BY <2>1
      <3>2. Head(queue).agent \in Agents /\ UpdateOf(1, Head(queue).agent)
        BY <3>1 DEF StatusInv, TasksOK, UpdateOf
      <3> QED BY <3>1, <3>2 DEF StatusInv, RecordsComing, InsertBefore
    <2>3. LatestShown
      <3>1. queue = << >> => \A h \in db : record[h].poll = polls[h]
        BY <2>1, EmptySeq DEF StatusInv, PollsOrdered
      <3> QED BY <2>1, <3>1 DEF StatusInv, Stamps, LatestShown
    <2> QED BY <2>2, <2>3 DEF StatusRight, StatusInv
  <1> QED BY <1>1, <1>2, <1>3, PTL DEF StatusSpec

-----------------------------------------------------------------------------
(* The polling cycle. *)

\* One operation is outstanding, also in the moment the process stops.
OnePending == \E op \in {"timer", "poll", "post"} : pending = {op}

\* timestamp_ has been an edge since it was set, and is never ahead of the home
\* agent's clock by more than a second.
TimesInv ==
    /\ 1 <= timestamp /\ timestamp <= clock + 1
    /\ timestamp \in edges /\ 1 \in edges
    /\ \A d \in Device : ha[d] <= clock

\* The answer that is being worked on lists times between timestamp_ and now,
\* none of an update that is still to come ...
AnswerInv ==
    /\ \A d \in DOMAIN answer : /\ d \in Device /\ answer[d] \in Nat
                                /\ timestamp <= answer[d] /\ answer[d] <= clock /\ answer[d] <= ha[d]
    /\ pending = {"post"} => DOMAIN answer # {}

\* ... and what it does not list was not asked for or happened after it.
Seen(d) ==
    \/ d \in DOMAIN answer /\ ha[d] = answer[d]
    \/ \A e \in DOMAIN answer : answer[e] <= ha[d]
    \/ ha[d] < timestamp
    \/ strict /\ ha[d] = timestamp
AnswerCurrent == answered \/ pending = {"post"} => \A d \in Device : Seen(d)

CycleInv == CycleTypeOK /\ OnePending /\ TimesInv /\ AnswerInv /\ AnswerCurrent /\ NothingSkipped

\* A set of naturals with a bound has a greatest element.
LEMMA GreatestExists ==
    ASSUME NEW n \in Nat, NEW T \in SUBSET (0..n), T # {}
    PROVE  \E t \in T : \A u \in T : u <= t
  <1> DEFINE U == { n - t : t \in T }
  <1>0. \A t \in T : t \in Nat /\ t <= n
    OBVIOUS
  <1>1. U \in SUBSET Nat /\ U # {}
    <2>1. \A t \in T : n - t \in Nat
      BY <1>0
    <2>2. PICK t \in T : TRUE
      OBVIOUS
    <2>3. n - t \in U
      BY <2>2
    <2> QED BY <2>1, <2>3
  <1>2. IsWellFoundedOn(OpToRel(<, Nat), Nat)
    BY NatLessThanWellFounded
  <1>3. PICK x \in U : \A y \in U : ~(<< y, x >> \in OpToRel(<, Nat))
    <2> HIDE DEF U
    <2> QED BY <1>1, <1>2, WFMin
  <1>4. \A y \in U : ~(y < x)
    <2> TAKE y \in U
    <2>1. << y, x >> \in Nat \X Nat
      BY <1>1
    <2> QED BY <1>3, <2>1 DEF OpToRel
  <1>5. PICK t \in T : x = n - t
    OBVIOUS
  <1>6. \A u \in T : u <= t
    <2> TAKE u \in T
    <2>1. ~(n - u < n - t)
      BY <1>4, <1>5
    <2>2. u \in Nat /\ t \in Nat
      BY <1>0
    <2> HIDE DEF U
    <2> QED BY <2>1, <2>2
  <1> QED BY <1>5, <1>6

\* The answer's newest time is one of its times.
LEMMA NewestOfAnswer ==
    ASSUME CycleInv, DOMAIN answer # {}
    PROVE  /\ \E e \in DOMAIN answer : newtimestamp = answer[e]
           /\ \A e \in DOMAIN answer : answer[e] <= newtimestamp
  <1> DEFINE T == { answer[d] : d \in DOMAIN answer }
  <1>1. clock \in Nat
    BY PollCycleAssumption DEF CycleInv, CycleTypeOK
  <1>2. \A d \in DOMAIN answer : answer[d] \in 0..clock
    BY <1>1 DEF CycleInv, AnswerInv
  <1>3. T \in SUBSET (0..clock) /\ T # {}
    BY <1>2
  <1>4. \E t \in T : \A u \in T : u <= t
    <2> HIDE DEF T
    <2> QED BY <1>1, <1>3, GreatestExists
  <1>5. \E t \in T : \A d \in DOMAIN answer : answer[d] <= t
    BY <1>4
  <1>6. newtimestamp \in T /\ \A d \in DOMAIN answer : answer[d] <= newtimestamp
    BY <1>5 DEF newtimestamp
  <1> QED BY <1>6

\* What is posted has times the home agent has had.
LEMMA IndexedType ==
    ASSUME CycleInv
    PROVE  Indexed \in [Device -> 0..MaxClock]
  <1>1. clock \in Nat /\ clock <= MaxClock /\ MaxClock \in Nat
    BY PollCycleAssumption DEF CycleInv, CycleTypeOK
  <1>2. \A d \in DOMAIN answer : answer[d] \in Nat /\ answer[d] <= clock
    BY DEF CycleInv, AnswerInv
  <1>3. \A d \in DOMAIN answer : answer[d] \in 0..MaxClock
    BY <1>1, <1>2
  <1>4. \A d \in Device : solr[d] \in 0..MaxClock
    BY DEF CycleInv, CycleTypeOK
  <1> QED BY <1>3, <1>4 DEF Indexed

\* NothingSkipped is about these variables only.
LEMMA NothingChanged ==
    ASSUME NothingSkipped, UNCHANGED << ha, solr, refused, edges, strict, timestamp >>
    PROVE  NothingSkipped'
  BY DEF NothingSkipped, Settled, AtEdge

\* An empty answer is no answer.
LEMMA StartForgets ==
    ASSUME NEW op, start(op), OnePending, pending = {op}
    PROVE  /\ pending' = {"timer"} /\ answered' = FALSE /\ DOMAIN answer' = {}
           /\ \E S \in SUBSET Device : answer' \in [S -> Time]
  <1>1. pending' = {"timer"} /\ answered' = FALSE /\ answer' = NoAnswer
    BY DEF start
  <1>2. NoAnswer \in [{} -> Time] /\ DOMAIN NoAnswer = {}
    BY DEF NoAnswer
  <1> QED BY <1>1, <1>2

\* The constructor's state.
LEMMA CycleInitInv == CycleInit => CycleInv
  <1> SUFFICES ASSUME CycleInit PROVE CycleInv
    OBVIOUS
  <1>1. NoAnswer \in [{} -> Time] /\ DOMAIN NoAnswer = {}
    BY DEF NoAnswer
  <1>2. CycleTypeOK
    <2>1. \E S \in SUBSET Device : answer \in [S -> Time]
      BY <1>1 DEF CycleInit
    <2>2. answered \in BOOLEAN /\ running \in BOOLEAN /\ strict \in BOOLEAN
      BY Zenon DEF CycleInit
    <2>3. /\ clock \in 1..MaxClock /\ ha \in [Device -> 0..MaxClock] /\ max_body \in Bodies
          /\ timestamp \in Time /\ solr \in [Device -> 0..MaxClock] /\ edges \subseteq Time
      BY PollCycleAssumption DEF CycleInit, Time
    <2>4. pending \subseteq {"timer", "poll", "post"} /\ content \subseteq {"get", "post"} /\ refused \subseteq Device \X Time
      BY DEF CycleInit
    <2> QED BY <2>1, <2>2, <2>3, <2>4 DEF CycleTypeOK
  <1>3. OnePending
    BY DEF CycleInit, OnePending
  <1>4. TimesInv
    BY DEF CycleInit, TimesInv
  <1>5. AnswerInv
    BY <1>1 DEF CycleInit, AnswerInv
  <1>6. AnswerCurrent
    BY DEF CycleInit, AnswerCurrent
  <1>7. NothingSkipped
    BY DEF CycleInit, NothingSkipped, Settled
  <1> QED BY <1>2, <1>3, <1>4, <1>5, <1>6, <1>7 DEF CycleInv
-----------------------------------------------------------------------------
(* Every action keeps CycleInv.                                            *)

\* Time passes.
LEMMA TickKeeps ==
    ASSUME CycleInv, Tick
    PROVE  CycleInv'
  <1>1. /\ clock' \in 1..MaxClock /\ clock \in Nat /\ clock' \in Nat /\ clock <= clock'
        /\ UNCHANGED << ha, agentOptions, pending, timestamp, answer, answered, content, solr, refused, edges, running >>
    BY PollCycleAssumption DEF CycleInv, CycleTypeOK, Tick
  <1>2. CycleTypeOK'
    BY <1>1 DEF CycleInv, CycleTypeOK, agentOptions
  <1>3. timestamp \in Nat /\ \A d \in Device : ha[d] \in Nat
    BY PollCycleAssumption DEF CycleInv, CycleTypeOK, Time
  <1>4. TimesInv'
    <2>1. 1 <= timestamp /\ timestamp <= clock + 1 /\ \A d \in Device : ha[d] <= clock
      BY DEF CycleInv, TimesInv
    <2>2. timestamp <= clock' + 1
      <3>1. clock \in Nat /\ clock' \in Nat /\ clock <= clock'
        BY <1>1
      <3>2. timestamp \in Nat /\ timestamp <= clock + 1
        BY <1>3, <2>1
      <3>3. \A a, b, c \in Nat : a <= b + 1 /\ b <= c => a <= c + 1
        OBVIOUS
      <3> QED BY <3>1, <3>2, <3>3, Zenon
    <2>3. \A d \in Device : ha[d] <= clock'
      BY <1>1, <1>3, <2>1
    <2>4. timestamp \in edges /\ 1 \in edges
      BY DEF CycleInv, TimesInv
    <2> QED BY <1>1, <2>1, <2>2, <2>3, <2>4 DEF TimesInv
  <1>5. AnswerInv'
    <2>1. \A d \in DOMAIN answer : answer[d] \in Nat /\ answer[d] <= clock
      BY DEF CycleInv, AnswerInv
    <2>2. \A d \in DOMAIN answer : answer[d] <= clock'
      BY <1>1, <2>1
    <2> QED BY <1>1, <2>2 DEF CycleInv, AnswerInv
  <1>6. OnePending' /\ AnswerCurrent'
    BY <1>1 DEF CycleInv, OnePending, AnswerCurrent, Seen, agentOptions
  <1>7. NothingSkipped'
    BY <1>1, NothingChanged DEF CycleInv, agentOptions
  <1> QED BY <1>2, <1>4, <1>5, <1>6, <1>7 DEF CycleInv

\* A device is updated now: at or after everything that was listed, and not
\* before timestamp_ unless timestamp_ is the next second, an edge.
LEMMA UpdateDeviceKeeps ==
    ASSUME CycleInv, NEW d \in Device, UpdateDevice(d)
    PROVE  CycleInv'
  <1>1. UNCHANGED << clock, agentOptions, strict, pending, timestamp, answer, answered, content, solr, refused, edges, running >>
    BY DEF UpdateDevice, agentOptions
  <1>2. /\ ha' \in [Device -> 0..MaxClock] /\ ha'[d] = clock
        /\ \A e \in Device : e # d => ha'[e] = ha[e]
    BY DEF CycleInv, CycleTypeOK, UpdateDevice
  <1>3. clock \in Nat /\ timestamp \in Nat /\ timestamp <= clock + 1
    BY PollCycleAssumption DEF CycleInv, CycleTypeOK, Time, TimesInv
  <1>4. CycleTypeOK'
    BY <1>1, <1>2 DEF CycleInv, CycleTypeOK, agentOptions
  <1>5. OnePending'
    BY <1>1 DEF CycleInv, OnePending
  <1>6. TimesInv'
    BY <1>1, <1>2, <1>3 DEF CycleInv, TimesInv
  <1>7. AnswerInv'
    <2>1. \A e \in DOMAIN answer : e \in Device /\ answer[e] <= clock /\ answer[e] <= ha[e]
      BY DEF CycleInv, AnswerInv
    <2>2. \A e \in DOMAIN answer : answer[e] <= ha'[e]
      BY <1>2, <2>1
    <2> QED BY <1>1, <2>2 DEF CycleInv, AnswerInv
  <1>8. AnswerCurrent'
    <2> SUFFICES ASSUME answered \/ pending = {"post"}, NEW e \in Device PROVE Seen(e)'
      BY <1>1 DEF AnswerCurrent
    <2>1. CASE e = d
      <3>1. \A x \in DOMAIN answer' : answer'[x] <= ha'[e]
        BY <1>1, <1>2, <2>1 DEF CycleInv, AnswerInv
      <3> QED BY <3>1 DEF Seen
    <2>2. CASE e # d
      <3>1. Seen(e)
        BY DEF CycleInv, AnswerCurrent
      <3> QED BY <1>1, <1>2, <2>2, <3>1 DEF Seen
    <2> QED BY <2>1, <2>2
  <1>9. NothingSkipped'
    <2> SUFFICES ASSUME NEW e \in Device, ~Settled(e)', ~AtEdge(e)' PROVE ha'[e] >= timestamp'
      BY DEF NothingSkipped
    <2>1. CASE e = d
      <3>1. clock + 1 \notin edges
        BY <1>1, <1>2, <2>1 DEF AtEdge
      <3>2. timestamp # clock + 1
        BY <3>1 DEF CycleInv, TimesInv
      <3> QED BY <1>1, <1>2, <1>3, <2>1, <3>2
    <2>2. CASE e # d
      <3>1. ~Settled(e) /\ ~AtEdge(e)
        BY <1>1, <1>2, <2>2 DEF Settled, AtEdge
      <3>2. ha[e] >= timestamp
        BY <3>1 DEF CycleInv, NothingSkipped
      <3> QED BY <1>1, <1>2, <2>2, <3>2
    <2> QED BY <2>1, <2>2
  <1> QED BY <1>4, <1>5, <1>6, <1>7, <1>8, <1>9 DEF CycleInv

\* The home agent lists what is due.
LEMMA HomeAgentAnswersKeeps ==
    ASSUME CycleInv, HomeAgentAnswers
    PROVE  CycleInv'
  <1>1. UNCHANGED << clock, ha, agentOptions, strict, pending, timestamp, content, solr, refused, edges, running >>
    BY DEF HomeAgentAnswers, agentOptions
  <1>2. /\ answer' = [x \in Due |-> ha[x]] /\ Due \subseteq Device /\ DOMAIN answer' = Due
        /\ \A x \in Due : answer'[x] = ha[x]
    BY DEF HomeAgentAnswers, Due
  <1>3. /\ clock \in Nat /\ timestamp \in Nat
        /\ \A x \in Device : ha[x] \in Time /\ ha[x] \in Nat /\ ha[x] <= clock
    BY PollCycleAssumption DEF CycleInv, CycleTypeOK, Time, TimesInv
  <1>4. answer' \in [Due -> Time]
    BY <1>2, <1>3
  <1>5. answered' \in BOOLEAN
    BY Zenon DEF HomeAgentAnswers
  <1>6. CycleTypeOK'
    BY <1>1, <1>2, <1>4, <1>5 DEF CycleInv, CycleTypeOK, agentOptions
  <1>7. OnePending' /\ TimesInv'
    BY <1>1 DEF CycleInv, OnePending, TimesInv
  <1>8. pending' # {"post"}
    BY <1>1 DEF HomeAgentAnswers
  <1>9. \A x \in Due : timestamp <= ha[x]
    BY <1>3, <1>2 DEF Due
  <1>10. AnswerInv'
    <2>1. \A x \in DOMAIN answer' : /\ x \in Device /\ answer'[x] \in Nat /\ timestamp' <= answer'[x]
                                    /\ answer'[x] <= clock' /\ answer'[x] <= ha'[x]
      BY <1>1, <1>2, <1>3, <1>9
    <2> QED BY <1>8, <2>1 DEF AnswerInv
  <1>11. AnswerCurrent'
    <2> SUFFICES ASSUME NEW e \in Device PROVE Seen(e)'
      BY DEF AnswerCurrent
    <2>1. CASE e \in Due
      BY <1>1, <1>2, <2>1 DEF Seen
    <2>2. CASE e \notin Due
      <3>1. ha[e] = 0 \/ ~(ha[e] >= IF strict THEN timestamp + 1 ELSE timestamp)
        BY <2>2 DEF Due
      <3>2. 1 <= timestamp
        BY DEF CycleInv, TimesInv
      <3>3. ha[e] < timestamp \/ (strict /\ ha[e] = timestamp)
        BY <3>1, <3>2, <1>3
      <3> QED BY <1>1, <3>3 DEF Seen
    <2> QED BY <2>1, <2>2
  <1>12. NothingSkipped'
    BY <1>1, NothingChanged DEF CycleInv
  <1> QED BY <1>6, <1>7, <1>10, <1>11, <1>12 DEF CycleInv
\* The timer's operation becomes a poll; there is no answer yet.
LEMMA DoPollKeeps ==
    ASSUME CycleInv, do_poll
    PROVE  CycleInv'
  <1>1. UNCHANGED << clock, ha, agentOptions, strict, timestamp, answer, answered, content, solr, refused, edges, running >>
    BY DEF do_poll, agentOptions
  <1>2. pending = {"timer"} /\ pending' = {"poll"}
    BY DEF do_poll, fetch, CycleInv, OnePending
  <1>3. CycleTypeOK'
    BY <1>1, <1>2 DEF CycleInv, CycleTypeOK, agentOptions
  <1>4. OnePending' /\ TimesInv' /\ AnswerInv'
    BY <1>1, <1>2 DEF CycleInv, OnePending, TimesInv, AnswerInv
  <1>5. AnswerCurrent'
    BY <1>1, <1>2 DEF CycleInv, AnswerCurrent, Seen
  <1>6. NothingSkipped'
    BY <1>1, NothingChanged DEF CycleInv
  <1> QED BY <1>3, <1>4, <1>5, <1>6 DEF CycleInv

\* Whatever ends a request and leaves timestamp_, Solr and the home agent alone.
LEMMA StartKeeps ==
    ASSUME CycleInv, NEW op, op \in pending, start(op),
           UNCHANGED << clock, ha, agentOptions, timestamp, refused, edges, running >>,
           content' \subseteq {"get", "post"}, solr' \in [Device -> 0..MaxClock],
           NothingSkipped'
    PROVE  CycleInv'
  <1>1. pending = {op}
    BY DEF CycleInv, OnePending
  <1>2. /\ pending' = {"timer"} /\ answered' = FALSE /\ DOMAIN answer' = {}
        /\ \E S \in SUBSET Device : answer' \in [S -> Time]
    BY <1>1, StartForgets DEF CycleInv
  <1>3. answered' \in BOOLEAN
    BY Zenon, <1>2
  <1>4. CycleTypeOK'
    BY <1>2, <1>3 DEF CycleInv, CycleTypeOK, agentOptions
  <1>5. OnePending' /\ TimesInv' /\ AnswerInv' /\ AnswerCurrent'
    BY <1>2 DEF CycleInv, OnePending, TimesInv, AnswerInv, AnswerCurrent
  <1> QED BY <1>4, <1>5 DEF CycleInv

LEMMA HandlePollErrorKeeps ==
    ASSUME CycleInv, handle_poll_error
    PROVE  CycleInv'
  <1>1. /\ "poll" \in pending /\ start("poll")
        /\ UNCHANGED << clock, ha, agentOptions, strict, timestamp, content, solr, refused, edges, running >>
    BY DEF handle_poll_error, agentOptions
  <1>2. NothingSkipped'
    BY <1>1, NothingChanged DEF CycleInv
  <1>3. content' \subseteq {"get", "post"} /\ solr' \in [Device -> 0..MaxClock]
    BY <1>1 DEF CycleInv, CycleTypeOK
  <1> QED BY <1>1, <1>2, <1>3, StartKeeps

\* An empty list ends the cycle, another one is posted as it is.
LEMMA HandlePollKeeps ==
    ASSUME CycleInv, handle_poll
    PROVE  CycleInv'
  <1>1. /\ "poll" \in pending /\ answered
        /\ UNCHANGED << clock, ha, agentOptions, strict, timestamp, solr, refused, edges, running >>
    BY DEF handle_poll, agentOptions
  <1>2. NothingSkipped'
    BY <1>1, NothingChanged DEF CycleInv
  <1>3. content' \subseteq {"get", "post"} /\ solr' \in [Device -> 0..MaxClock]
    BY <1>1 DEF CycleInv, CycleTypeOK, handle_poll
  <1>4. CASE start("poll")
    BY <1>1, <1>2, <1>3, <1>4, StartKeeps
  <1>5. CASE /\ DOMAIN answer # {} /\ pending' = (pending \ {"poll"}) \cup {"post"}
             /\ answered' = FALSE /\ UNCHANGED answer
    <2>1. pending = {"poll"} /\ pending' = {"post"}
      BY <1>1, <1>5 DEF CycleInv, OnePending
    <2>2. answered' \in BOOLEAN
      BY Zenon, <1>5
    <2>3. CycleTypeOK'
      BY <1>1, <1>3, <1>5, <2>1, <2>2 DEF CycleInv, CycleTypeOK, agentOptions
    <2>4. OnePending' /\ TimesInv' /\ AnswerInv'
      BY <1>1, <1>5, <2>1 DEF CycleInv, OnePending, TimesInv, AnswerInv
    <2>5. \A d \in Device : Seen(d)
      BY <1>1 DEF CycleInv, AnswerCurrent
    <2>6. AnswerCurrent'
      BY <1>1, <1>5, <2>5 DEF AnswerCurrent, Seen
    <2> QED BY <1>2, <2>3, <2>4, <2>6 DEF CycleInv
  <1> QED BY <1>4, <1>5 DEF handle_poll, fetch

\* Solr may have taken the update or not; what it took is not newer than what
\* the home agent has, and what is older will be asked for again.
LEMMA HandlePostFailedKeeps ==
    ASSUME CycleInv, handle_post_failed
    PROVE  CycleInv'
  <1>1. /\ "post" \in pending /\ start("post") /\ solr' \in {solr, Indexed}
        /\ UNCHANGED << clock, ha, agentOptions, strict, timestamp, content, refused, edges, running >>
    BY DEF handle_post_failed, agentOptions
  <1>3. timestamp \in Nat /\ \A d \in Device : ha[d] \in Nat
    BY PollCycleAssumption DEF CycleInv, CycleTypeOK, Time
  <1>4. Indexed \in [Device -> 0..MaxClock]
    BY IndexedType
  <1>5. content' \subseteq {"get", "post"} /\ solr' \in [Device -> 0..MaxClock]
    BY <1>1, <1>4 DEF CycleInv, CycleTypeOK
  <1>6. NothingSkipped'
    <2> SUFFICES ASSUME NEW d \in Device, ~Settled(d)', ~AtEdge(d)' PROVE ha[d] >= timestamp
      BY <1>1 DEF NothingSkipped
    <2>1. ~AtEdge(d)
      BY <1>1 DEF AtEdge
    <2>2. CASE ~Settled(d)
      BY <2>1, <2>2 DEF CycleInv, NothingSkipped
    <2>3. CASE Settled(d)
      <3>1. solr'[d] # solr[d]
        BY <1>1, <2>3 DEF Settled
      <3>2. d \in DOMAIN answer /\ solr'[d] = answer[d]
        BY <1>1, <3>1 DEF Indexed
      <3>4. timestamp <= answer[d] /\ answer[d] \in Nat /\ answer[d] <= ha[d]
        BY <3>2 DEF CycleInv, AnswerInv
      <3> QED BY <1>3, <3>4
    <2> QED BY <2>2, <2>3
  <1> QED BY <1>1, <1>5, <1>6, StartKeeps

\* timestamp_ moves behind the newest time of the answer.  What was listed has
\* been posted; what was not was updated in the meantime, so not before the
\* newest time, and shares its second with it at most.
LEMMA HandlePostKeeps ==
    ASSUME CycleInv, handle_post
    PROVE  CycleInv'
  <1>1. /\ "post" \in pending /\ start("post")
        /\ timestamp' = newtimestamp + 1 /\ edges' = edges \cup {timestamp'}
        /\ UNCHANGED << clock, ha, agentOptions, strict, content, running >>
    BY DEF handle_post, agentOptions
  <1>2. pending = {"post"}
    BY <1>1 DEF CycleInv, OnePending
  <1>3. /\ pending' = {"timer"} /\ answered' = FALSE /\ DOMAIN answer' = {}
        /\ \E S \in SUBSET Device : answer' \in [S -> Time]
    BY <1>1, <1>2, StartForgets DEF CycleInv
  <1>4. DOMAIN answer # {}
    BY <1>2 DEF CycleInv, AnswerInv
  <1>5. PICK n \in DOMAIN answer : newtimestamp = answer[n] /\ \A e \in DOMAIN answer : answer[e] <= newtimestamp
    BY <1>4, NewestOfAnswer
  <1>6. /\ MaxClock \in Nat /\ clock \in Nat /\ clock <= MaxClock /\ timestamp \in Nat
        /\ \A d \in Device : ha[d] \in Nat
    BY PollCycleAssumption DEF CycleInv, CycleTypeOK, Time
  <1>7. newtimestamp \in Nat /\ timestamp <= newtimestamp /\ newtimestamp <= clock /\ 1 <= timestamp
    BY <1>5 DEF CycleInv, AnswerInv, TimesInv
  <1>8. timestamp' \in Time /\ 1 <= timestamp' /\ timestamp' <= clock' + 1
    BY <1>1, <1>6, <1>7 DEF Time
  <1>9. \A d \in DOMAIN answer : d \in Device /\ answer[d] \in Time /\ answer[d] <= ha[d] /\ answer[d] \in Nat
    BY <1>6 DEF CycleInv, AnswerInv, Time
  <1>10. solr' \in [Device -> 0..MaxClock] /\ refused' \subseteq Device \X Time
    <2>1. CASE solr' = Indexed /\ UNCHANGED refused
      BY <2>1, IndexedType DEF CycleInv, CycleTypeOK
    <2>2. CASE refused' = refused \cup {<<d, answer[d]>> : d \in DOMAIN answer} /\ UNCHANGED solr
      BY <2>2, <1>9 DEF CycleInv, CycleTypeOK
    <2> QED BY <2>1, <2>2 DEF handle_post
  <1>11. CycleTypeOK'
    <2>1. answered' \in BOOLEAN
      BY Zenon, <1>3
    <2>2. edges' \subseteq Time
      BY <1>1, <1>8 DEF CycleInv, CycleTypeOK
    <2> QED BY <1>1, <1>3, <1>8, <1>10, <2>1, <2>2 DEF CycleInv, CycleTypeOK, agentOptions
  <1>12. OnePending' /\ AnswerInv' /\ AnswerCurrent'
    BY <1>3 DEF OnePending, AnswerInv, AnswerCurrent
  <1>13. TimesInv'
    BY <1>1, <1>8 DEF CycleInv, TimesInv
  <1>14. NothingSkipped'
    <2> SUFFICES ASSUME NEW d \in Device, ~Settled(d)', ~AtEdge(d)' PROVE ha[d] >= newtimestamp + 1
      BY <1>1 DEF NothingSkipped
    <2>1. ha[d] + 1 \notin edges' /\ ~(strict /\ ha[d] \in edges')
      BY <1>1 DEF AtEdge
    <2>2. ha[d] # newtimestamp
      BY <1>1, <2>1
    <2>3. ~AtEdge(d)
      BY <1>1, <2>1 DEF AtEdge
    <2>4. SUFFICES newtimestamp <= ha[d]
      BY <1>6, <1>7, <2>2
    <2>5. Seen(d)
      BY <1>2 DEF CycleInv, AnswerCurrent
    <2>6. CASE d \in DOMAIN answer /\ ha[d] = answer[d]
      <3>1. Settled(d)'
        <4>1. CASE solr' = Indexed
          BY <1>1, <2>6, <4>1 DEF Settled, Indexed
        <4>2. CASE refused' = refused \cup {<<x, answer[x]>> : x \in DOMAIN answer}
          BY <1>1, <2>6, <4>2 DEF Settled
        <4> QED BY <4>1, <4>2 DEF handle_post
      <3> QED BY <3>1
    <2>7. CASE \A e \in DOMAIN answer : answer[e] <= ha[d]
      BY <1>5, <2>7
    <2>8. CASE ha[d] < timestamp
      <3>1. d \notin DOMAIN answer
        <4> SUFFICES ASSUME d \in DOMAIN answer PROVE FALSE
          OBVIOUS
        <4>1. timestamp <= answer[d] /\ answer[d] <= ha[d] /\ answer[d] \in Nat
          BY DEF CycleInv, AnswerInv
        <4> QED BY <4>1, <1>6, <2>8
      <3>2. ~Settled(d)
        <4>1. solr'[d] = solr[d]
          BY <3>1 DEF handle_post, Indexed
        <4>2. refused \subseteq refused'
          BY DEF handle_post
        <4> QED BY <1>1, <4>1, <4>2 DEF Settled
      <3>3. ha[d] >= timestamp
        BY <2>3, <3>2 DEF CycleInv, NothingSkipped
      <3> QED BY <1>6, <2>8, <3>3
    <2>9. CASE strict /\ ha[d] = timestamp
      <3>1. timestamp \in edges
        BY DEF CycleInv, TimesInv
      <3> QED BY <1>1, <2>1, <2>9, <3>1
    <2> QED BY <2>5, <2>6, <2>7, <2>8, <2>9 DEF Seen
  <1> QED BY <1>11, <1>12, <1>13, <1>14 DEF CycleInv

\* Requests for content metadata and the end of the process touch nothing else.
LEMMA OthersKeep ==
    ASSUME CycleInv, handle_getcontentlist \/ handle_postcontentlist \/ mcode_or_throw
    PROVE  CycleInv'
  <1>1. UNCHANGED << clock, ha, agentOptions, strict, pending, timestamp, answer, answered, solr, refused, edges >>
    BY DEF handle_getcontentlist, handle_postcontentlist, mcode_or_throw, agentOptions
  <1>2. content' \subseteq {"get", "post"}
    BY DEF CycleInv, CycleTypeOK, handle_getcontentlist, handle_postcontentlist, mcode_or_throw
  <1>3. running' \in BOOLEAN
    BY Zenon DEF CycleInv, CycleTypeOK, handle_getcontentlist, handle_postcontentlist, mcode_or_throw
  <1>4. CycleTypeOK'
    BY <1>1, <1>2, <1>3 DEF CycleInv, CycleTypeOK, agentOptions
  <1>5. OnePending' /\ TimesInv' /\ AnswerInv'
    BY <1>1 DEF CycleInv, OnePending, TimesInv, AnswerInv
  <1>6. AnswerCurrent'
    BY <1>1 DEF CycleInv, AnswerCurrent, Seen
  <1>7. NothingSkipped'
    BY <1>1, NothingChanged DEF CycleInv
  <1> QED BY <1>4, <1>5, <1>6, <1>7 DEF CycleInv

\* A new process asks for everything again.
LEMMA StartAgainKeeps ==
    ASSUME CycleInv, StartAgain
    PROVE  CycleInv'
  <1>1. /\ UNCHANGED << clock, ha, agentOptions, strict, solr, refused, edges >>
        /\ pending' = {"timer"} /\ timestamp' = 1 /\ answer' = NoAnswer /\ content' = {}
    BY DEF StartAgain, agentOptions
  <1>2. running' \in BOOLEAN /\ answered' \in BOOLEAN
    BY Zenon DEF StartAgain
  <1>3. NoAnswer \in [{} -> Time] /\ DOMAIN NoAnswer = {}
    BY DEF NoAnswer
  <1>4. clock \in Nat /\ 1 <= clock /\ 1 \in Time /\ \A d \in Device : ha[d] \in Nat
    BY PollCycleAssumption DEF CycleInv, CycleTypeOK, Time
  <1>5. CycleTypeOK'
    BY <1>1, <1>2, <1>3, <1>4 DEF CycleInv, CycleTypeOK, agentOptions
  <1>6. OnePending' /\ AnswerInv'
    BY <1>1, <1>3 DEF OnePending, AnswerInv
  <1>7. TimesInv'
    BY <1>1, <1>4 DEF CycleInv, TimesInv
  <1>8. AnswerCurrent'
    BY <1>1 DEF StartAgain, AnswerCurrent
  <1>9. NothingSkipped'
    BY <1>1, <1>4 DEF NothingSkipped, Settled
  <1> QED BY <1>5, <1>6, <1>7, <1>8, <1>9 DEF CycleInv

\* The polling cycle never forks or ends while the process runs, and no update
\* of a device is passed over by moving timestamp_ except one that shares its
\* second with the newest one of a batch: for any number of devices, any
\* interleaving of updates, failed requests and restarts (poller.cpp).
THEOREM UpdatesAreKept == CycleSpec => []UpdatesKept
  <1>1. CycleInit => CycleInv
    BY CycleInitInv
  <1>2. CycleInv /\ [CycleNext]_cycleVars => CycleInv'
    <2> SUFFICES ASSUME CycleInv, [CycleNext]_cycleVars PROVE CycleInv'
      OBVIOUS
    <2>1. CASE Tick
      BY <2>1, TickKeeps
    <2>2. CASE \E d \in Device : UpdateDevice(d)
      BY <2>2, UpdateDeviceKeeps
    <2>3. CASE HomeAgentAnswers
      BY <2>3, HomeAgentAnswersKeeps
    <2>4. CASE do_poll
      BY <2>4, DoPollKeeps
    <2>5. CASE handle_poll_error
      BY <2>5, HandlePollErrorKeeps
    <2>6. CASE handle_poll
      BY <2>6, HandlePollKeeps
    <2>7. CASE handle_post_failed
      BY <2>7, HandlePostFailedKeeps
    <2>8. CASE handle_post
      BY <2>8, HandlePostKeeps
    <2>9. CASE handle_getcontentlist \/ handle_postcontentlist \/ mcode_or_throw
      BY <2>9, OthersKeep
    <2>10. CASE StartAgain
      BY <2>10, StartAgainKeeps
    <2>11. CASE UNCHANGED cycleVars
      <3>1. UNCHANGED << clock, ha, agentOptions, strict, max_body, pending, timestamp, answer, answered, content, solr, refused, edges, running >>
        BY <2>11 DEF cycleVars, agentOptions
      <3>2. CycleTypeOK' /\ OnePending' /\ TimesInv' /\ AnswerInv'
        BY <3>1 DEF CycleInv, CycleTypeOK, OnePending, TimesInv, AnswerInv
      <3>3. AnswerCurrent'
        BY <3>1 DEF CycleInv, AnswerCurrent, Seen
      <3>4. NothingSkipped'
        BY <3>1, NothingChanged DEF CycleInv
      <3> QED BY <3>2, <3>3, <3>4 DEF CycleInv
    <2> QED BY <2>1, <2>2, <2>3, <2>4, <2>5, <2>6, <2>7, <2>8, <2>9, <2>10, <2>11 DEF CycleNext
  <1>3. CycleInv => UpdatesKept
    <2> SUFFICES ASSUME CycleInv PROVE UpdatesKept
      OBVIOUS
    <2>1. PICK op \in {"timer", "poll", "post"} : pending = {op}
      BY DEF CycleInv, OnePending
    <2>2. Cardinality(pending) = 1
      BY <2>1, FS_Singleton
    <2> QED BY <2>2 DEF CycleInv, UpdatesKept, OneOperation
  <1> QED BY <1>1, <1>2, <1>3, PTL DEF CycleSpec
=============================================================================
