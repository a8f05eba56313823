------------------------- MODULE PlexusStoreProofs -------------------------
(***************************************************************************)
(* What the measurement log of a Plexus peer keeps (PlexusLog), proved for *)
(* every check point, every number of rows and every number of crashes,    *)
(* what its sockets promise (PlexusSocket), for any senders, messages,     *)
(* attempts and descriptors, and that its linked cache (PlexusCache)       *)
(* implements the bounded list of LruCache, for any ids and threads.       *)
(***************************************************************************)
EXTENDS PlexusStore, FiniteSetTheorems, SequenceTheorems, WellFoundedInduction, TLAPS

-----------------------------------------------------------------------------
(* Sequences of rows.                                                      *)

\* Concatenation, as stdio appends a buffer to a file and ssh a file to the
\* server's, has the rows of both parts and no others.
LEMMA RowsOfConcat ==
    ASSUME NEW S, NEW s \in Seq(S), NEW t \in Seq(S)
    PROVE  s \o t \in Seq(S) /\ Elems(s \o t) = Elems(s) \cup Elems(t)
<1>1. s \o t \in Seq(S) /\ Len(s \o t) = Len(s) + Len(t)
  OBVIOUS
<1>2. \A i \in 1..Len(s) : i \in 1..Len(s \o t) /\ (s \o t)[i] = s[i]
  BY <1>1
<1>3. \A i \in 1..Len(t) : Len(s) + i \in 1..Len(s \o t) /\ (s \o t)[Len(s) + i] = t[i]
  BY <1>1
<1>4. \A i \in 1..Len(s \o t) :
         \/ i \in 1..Len(s)
         \/ i - Len(s) \in 1..Len(t) /\ i = Len(s) + (i - Len(s))
  BY <1>1
<1>5. Elems(s) \subseteq Elems(s \o t)
  BY <1>2 DEF Elems
<1>6. Elems(t) \subseteq Elems(s \o t)
  BY <1>3 DEF Elems
<1>7. ASSUME NEW i \in 1..Len(s \o t)  PROVE (s \o t)[i] \in Elems(s) \cup Elems(t)
  <2>1. CASE i \in 1..Len(s)
    BY <2>1, <1>2 DEF Elems
  <2>2. CASE i - Len(s) \in 1..Len(t) /\ i = Len(s) + (i - Len(s))
    <3> DEFINE j == i - Len(s)
    <3>1. j \in 1..Len(t) /\ i = Len(s) + j
      BY <2>2
    <3> HIDE DEF j
    <3>2. (s \o t)[i] = t[j]
      BY <3>1, <1>3
    <3> QED BY <3>1, <3>2 DEF Elems
  <2> QED BY <2>1, <2>2, <1>4
<1> QED BY <1>1, <1>5, <1>6, <1>7 DEF Elems

\* A row appended is a row more.
LEMMA RowsOfAppend ==
    ASSUME NEW S, NEW s \in Seq(S), NEW r \in S
    PROVE  Append(s, r) \in Seq(S) /\ Elems(Append(s, r)) = Elems(s) \cup {r}
<1>1. Append(s, r) \in Seq(S) /\ Len(Append(s, r)) = Len(s) + 1
  OBVIOUS
<1>2. \A i \in 1..Len(s) : i \in 1..Len(Append(s, r)) /\ Append(s, r)[i] = s[i]
  BY <1>1
<1>3. Len(s) + 1 \in 1..Len(Append(s, r)) /\ Append(s, r)[Len(s) + 1] = r
  BY <1>1
<1>4. \A i \in 1..Len(Append(s, r)) : i \in 1..Len(s) \/ i = Len(s) + 1
  BY <1>1
<1> QED BY <1>1, <1>2, <1>3, <1>4 DEF Elems

\* An empty file has no rows, and the rows of a file are rows.
LEMMA RowsTyped ==
    ASSUME NEW S
    PROVE  /\ <<>> \in Seq(S) /\ Elems(<<>>) = {}
           /\ \A s \in Seq(S) : Elems(s) \subseteq S
BY DEF Elems

-----------------------------------------------------------------------------
(* The inductive invariant.                                                *)

\* Every place a row can be in holds rows that were written, and in an open
\* file the check point is still ahead.
LogTyped ==
    /\ file \in Seq(1..Rows) /\ buffer \in Seq(1..Rows)
    /\ segment \in Seq(1..Rows) /\ remote \in Seq(1..Rows)
    /\ archive \subseteq 1..Rows /\ refused \subseteq 1..Rows
    /\ step \in {"open", "upload", "mv", "tar", "rm", "down"}
    /\ current_row_count \in 0..CheckPointRowCount
    /\ (step = "open" => current_row_count < CheckPointRowCount)
    /\ current_segment_no \in Nat \ {0} /\ written \in 0..Rows
    /\ crashes \in 0..MaxCrashes

\* What a step of the archiving may rely on from the steps before it.
StepDone ==
    /\ (step = "mv" => Elems(file) \subseteq Elems(remote) \cup refused)
    /\ (step \in {"tar", "rm"} => file = <<>>)

\* In the first process's life: no segment is left over when a file is renamed,
\* a segment is removed only once it is archived, and tar -cf finds no archive.
FirstLife ==
    crashes = 0 =>
        /\ step # "down"
        /\ step \in {"open", "upload", "mv"} => segment = <<>>
        /\ step = "rm" => Elems(segment) \subseteq archive
        /\ step # "rm" /\ current_segment_no <= 1 => archive = {}

LogInv == LogTyped /\ StepDone /\ FirstLife /\ ArchiveComplete

\* The invariant gives the type of the log.
LEMMA LogInvTypes == LogInv => LogTypeOK
<1> SUFFICES ASSUME LogInv PROVE LogTypeOK
  OBVIOUS
<1>1. Elems(file) \cup Elems(buffer) \cup Elems(segment) \cup archive
        \cup Elems(remote) \cup refused \subseteq 1..Rows
  BY RowsTyped DEF LogInv, LogTyped
<1> QED BY <1>1 DEF LogInv, LogTyped, LogTypeOK

\* A new log satisfies it.
LEMMA LogInvInit == LogInit => LogInv
<1> SUFFICES ASSUME LogInit PROVE LogInv
  OBVIOUS
<1>1. LogTyped
  BY LogAssumption, RowsTyped DEF LogInit, LogTyped
<1> QED BY <1>1 DEF LogInit, LogInv, StepDone, FirstLife, ArchiveComplete

-----------------------------------------------------------------------------
(* One lemma per operation: the invariant is kept, and no row leaves the   *)
(* file but for the server.                                                *)

\* What a step may not do to the rows on the disk.
RowsKept == \A r \in Elems(file) : r \in Elems(file') \cup Elems(remote') \cup refused'

\* Log::write, with the check point and with stdio writing by itself.
LEMMA WriteKeeps == LogInv /\ Write => LogInv' /\ RowsKept
<1> SUFFICES ASSUME LogInv, Write PROVE LogInv' /\ RowsKept
  OBVIOUS
<1> USE LogAssumption
<1>1. written + 1 \in 1..Rows /\ written' = written + 1 /\ step = "open"
  BY DEF LogInv, LogTyped, Write
<1> DEFINE more == Append(buffer, written + 1)
<1>2. more \in Seq(1..Rows)
  BY <1>1, RowsOfAppend DEF LogInv, LogTyped
<1> HIDE DEF more
<1>3. file \o more \in Seq(1..Rows) /\ Elems(file) \subseteq Elems(file \o more)
  BY <1>2, RowsOfConcat DEF LogInv, LogTyped
<1>4. file' \in Seq(1..Rows) /\ buffer' \in Seq(1..Rows) /\ Elems(file) \subseteq Elems(file')
  <2>1. file' = file \o more \/ file' = file
    BY DEF Write, more
  <2>2. buffer' = <<>> \/ buffer' = more
    BY DEF Write, more
  <2> QED BY <2>1, <2>2, <1>2, <1>3, RowsTyped DEF LogInv, LogTyped
<1>5. current_row_count' \in 0..CheckPointRowCount
      /\ (step' = "open" => current_row_count' < CheckPointRowCount)
      /\ step' \in {"open", "upload"}
  BY <1>1 DEF LogInv, LogTyped, Write
<1>6. LogTyped'
  BY <1>1, <1>4, <1>5 DEF LogInv, LogTyped, Write
<1>7. StepDone' /\ FirstLife'
  BY <1>1, <1>5 DEF LogInv, StepDone, FirstLife, Write
<1>8. ArchiveComplete'
  BY <1>4 DEF LogInv, ArchiveComplete, Write
<1> QED BY <1>4, <1>6, <1>7, <1>8 DEF LogInv, RowsKept

\* Log::flush for the monitor.
LEMMA ForceFlushKeeps == LogInv /\ ForceFlush => LogInv' /\ RowsKept
<1> SUFFICES ASSUME LogInv, ForceFlush PROVE LogInv' /\ RowsKept
  OBVIOUS
<1>1. file' \in Seq(1..Rows) /\ buffer' \in Seq(1..Rows) /\ Elems(file) \subseteq Elems(file')
  BY RowsOfConcat, RowsTyped DEF LogInv, LogTyped, ForceFlush, CloseFile
<1>2. LogTyped'
  BY <1>1 DEF LogInv, LogTyped, ForceFlush, CloseFile
<1>3. StepDone' /\ FirstLife'
  BY DEF LogInv, StepDone, FirstLife, ForceFlush, CloseFile
<1>4. ArchiveComplete'
  BY <1>1 DEF LogInv, ArchiveComplete, ForceFlush, CloseFile
<1> QED BY <1>1, <1>2, <1>3, <1>4 DEF LogInv, RowsKept

\* Log::sshUploadLog: every row of the file is then at the server or refused.
LEMMA UploadKeeps == LogInv /\ Upload => LogInv' /\ RowsKept
<1> SUFFICES ASSUME LogInv, Upload PROVE LogInv' /\ RowsKept
  OBVIOUS
<1>1. remote \o file \in Seq(1..Rows) /\ Elems(remote \o file) = Elems(remote) \cup Elems(file)
  BY RowsOfConcat DEF LogInv, LogTyped
<1>2. /\ remote' \in Seq(1..Rows) /\ refused' \subseteq 1..Rows
      /\ refused' \subseteq refused \cup Elems(file)
      /\ Elems(file) \subseteq Elems(remote') \cup refused'
  BY <1>1, RowsTyped DEF LogInv, LogTyped, Upload
<1>3. LogTyped'
  BY <1>2 DEF LogInv, LogTyped, Upload
<1>4. StepDone' /\ FirstLife'
  BY <1>2 DEF LogInv, StepDone, FirstLife, Upload
<1>5. ArchiveComplete'
  BY <1>2 DEF LogInv, ArchiveComplete, Upload
<1> QED BY <1>3, <1>4, <1>5 DEF LogInv, RowsKept, Upload

\* mv: the file is emptied only after the upload was tried, and replaces no
\* segment unless a crash left one.
LEMMA RenameKeeps == LogInv /\ Rename => LogInv' /\ RowsKept
<1> SUFFICES ASSUME LogInv, Rename PROVE LogInv' /\ RowsKept
  OBVIOUS
<1>1. LogTyped'
  BY RowsTyped DEF LogInv, LogTyped, Rename
<1>2. StepDone' /\ FirstLife'
  BY DEF LogInv, StepDone, FirstLife, Rename
<1>3. ArchiveComplete'
  BY RowsTyped DEF LogInv, FirstLife, ArchiveComplete, Rename
<1>4. RowsKept
  BY DEF LogInv, StepDone, RowsKept, Rename
<1> QED BY <1>1, <1>2, <1>3, <1>4 DEF LogInv

\* tar -cf or -rf: in the first life the former finds nothing to replace.
LEMMA TarKeeps == LogInv /\ Tar => LogInv' /\ RowsKept
<1> SUFFICES ASSUME LogInv, Tar PROVE LogInv' /\ RowsKept
  OBVIOUS
<1>1. archive' \subseteq 1..Rows /\ Elems(segment) \subseteq archive'
  BY RowsTyped DEF LogInv, LogTyped, Tar
<1>2. LogTyped'
  BY <1>1 DEF LogInv, LogTyped, Tar
<1>3. crashes = 0 => archive \subseteq archive'
  BY DEF LogInv, LogTyped, FirstLife, Tar
<1>4. StepDone' /\ FirstLife'
  BY <1>1 DEF LogInv, StepDone, FirstLife, Tar
<1>5. ArchiveComplete'
  BY <1>3 DEF LogInv, ArchiveComplete, Tar
<1> QED BY <1>2, <1>4, <1>5 DEF LogInv, RowsKept, Tar

\* rm, the next segment number, and open("w+"), which truncates an empty file.
LEMMA RemoveKeeps == LogInv /\ Remove => LogInv' /\ RowsKept
<1> SUFFICES ASSUME LogInv, Remove PROVE LogInv' /\ RowsKept
  OBVIOUS
<1>1. LogTyped'
  BY LogAssumption, RowsTyped DEF LogInv, LogTyped, Remove, Open
<1>2. file = <<>> /\ file' = file
  BY DEF LogInv, StepDone, Remove, Open
<1>3. StepDone' /\ FirstLife'
  BY DEF LogInv, LogTyped, StepDone, FirstLife, Remove, Open
<1>4. ArchiveComplete'
  BY <1>2 DEF LogInv, FirstLife, ArchiveComplete, Remove, Open
<1> QED BY <1>1, <1>2, <1>3, <1>4 DEF LogInv, RowsKept

\* The process dies, after any step.
LEMMA CrashKeeps == LogInv /\ Crash => LogInv' /\ RowsKept
<1> SUFFICES ASSUME LogInv, Crash PROVE LogInv' /\ RowsKept
  OBVIOUS
<1>1. LogTyped' /\ crashes' # 0
  BY LogAssumption, RowsTyped DEF LogInv, LogTyped, Crash
<1>2. StepDone' /\ FirstLife' /\ ArchiveComplete'
  BY <1>1 DEF StepDone, FirstLife, ArchiveComplete, Crash
<1> QED BY <1>1, <1>2 DEF LogInv, RowsKept, Crash

\* A new process opens the file with "a".
LEMMA RestartKeeps == LogInv /\ Restart => LogInv' /\ RowsKept
<1> SUFFICES ASSUME LogInv, Restart PROVE LogInv' /\ RowsKept
  OBVIOUS
<1>1. LogTyped' /\ crashes' # 0
  BY LogAssumption DEF LogInv, LogTyped, FirstLife, Restart, Open
<1>2. StepDone' /\ FirstLife' /\ ArchiveComplete'
  BY <1>1 DEF StepDone, FirstLife, ArchiveComplete, Restart, Open
<1> QED BY <1>1, <1>2 DEF LogInv, RowsKept, Restart, Open

\* Every step of the peer's stores keeps the log's invariant, and one that
\* changes the log keeps its rows; the cache and the sockets do not touch it.
LEMMA StoreStep ==
    LogInv /\ [Next]_storeVars => LogInv' /\ [RowsKept]_logVars
<1> SUFFICES ASSUME LogInv, [Next]_storeVars PROVE LogInv' /\ [RowsKept]_logVars
  OBVIOUS
<1>1. CASE LogNext
  BY <1>1, WriteKeeps, ForceFlushKeeps, UploadKeeps, RenameKeeps, TarKeeps,
     RemoveKeeps, CrashKeeps, RestartKeeps DEF LogNext
<1>2. CASE UNCHANGED logVars
  <2>1. LogInv'
    BY <1>2 DEF logVars, LogInv, LogTyped, StepDone, FirstLife, ArchiveComplete
  <2> QED BY <2>1, <1>2
<1>3. LogNext \/ UNCHANGED logVars
  BY DEF Next, storeVars
<1> QED BY <1>1, <1>2, <1>3

\* The measurement log is right whatever the check point, the rows and the
\* crashes: a row on the disk leaves the log file only for the log server or
\* with its upload refused, and while the process has not died the archive, the
\* segment and the file together keep every refused row (log.h write, flush,
\* sshUploadLog, archiveCurrentLog).
THEOREM LogCorrect == Spec => LogRight
<1>1. Init => LogInv
  BY LogInvInit DEF Init
<1>2. LogInv /\ [Next]_storeVars => LogInv'
  BY StoreStep
<1>3. LogInv => LogTypeOK /\ ArchiveComplete
  BY LogInvTypes DEF LogInv
<1>4. LogInv /\ [Next]_storeVars
        => [\A r \in Elems(file) : r \in Elems(file') \cup Elems(remote') \cup refused']_logVars
  BY StoreStep DEF RowsKept
<1> QED BY <1>1, <1>2, <1>3, <1>4, PTL DEF Spec, LogRight, OnDiskOrUploaded

-----------------------------------------------------------------------------
(* The sockets.                                                            *)

\* The attempts a sender has not made yet have left no trace, and those it has
\* made can be told apart in the backlog.
Attempted ==
    /\ \A s \in Senders : sender[s].pc \in {"connect", "send", "forwarded"} => sender[s].retry < NRetry
    /\ \A s \in Senders : \A a \in 0 .. NRetry - 1 :
          (a > sender[s].retry \/ (a = sender[s].retry /\ sender[s].pc = "connect"))
              => place[<<s, a>>] = Nowhere

\* Whoever is in the backlog waits there once and nowhere else, and the listener
\* that was told of somebody in it finds somebody.
Waiting ==
    /\ backlog \in Seq(Connections)
    /\ \A i \in 1 .. Len(backlog) : place[backlog[i]] = InBacklog
    /\ \A i, j \in 1 .. Len(backlog) : backlog[i] = backlog[j] => i = j
    /\ (listener = "scan" /\ ListenFd \in read_connection_fds => backlog # <<>>)

\* A descriptor stands for one connection.
OneEach == \A c, d \in Connections : place[c] = place[d] /\ place[c] \in Fds => c = d

\* Only the attempt that its sender believes in carries data.
OneCarries ==
    \A s \in Senders : \A a \in 0 .. NRetry - 1 :
        (flight[<<s, a>>] > 0 \/ inbox[<<s, a>>] > 0 \/ heard[<<s, a>>] > 0)
            => sender[s].pc = "forwarded" /\ a = sender[s].retry

SocketInv == SocketTypeOK /\ PoolRight /\ Attempted /\ Waiting /\ OneEach /\ OneCarries

\* A bounded set of descriptors has a greatest element.
LEMMA GreatestFd ==
    ASSUME NEW n \in Nat, NEW T \in SUBSET Nat, T # {}, \A t \in T : t <= n
    PROVE  \E t \in T : \A u \in T : u <= t
<1> DEFINE U == {n - t : t \in T}
<1>1. U \in SUBSET Nat /\ U # {}
  <2>1. \A t \in T : n - t \in Nat
    OBVIOUS
  <2> QED BY <2>1
<1>2. PICK x \in U : \A y \in U : ~(<<y, x>> \in OpToRel(<, Nat))
  <2> HIDE DEF U
  <2> QED BY <1>1, NatLessThanWellFounded, WFMin
<1>3. \A y \in U : ~(y < x)
  <2> TAKE y \in U
  <2>1. <<y, x>> \in Nat \X Nat
    BY <1>1
  <2> QED BY <1>2, <2>1 DEF OpToRel
<1>4. PICK t \in T : x = n - t
  OBVIOUS
<1>5. ASSUME NEW u \in T  PROVE u <= t
  <2>1. ~(n - u < n - t)
    BY <1>3, <1>4
  <2>2. u \in Nat /\ t \in Nat
    OBVIOUS
  <2> QED BY <2>1, <2>2
<1> QED BY <1>5

\* getMaxConnectionFd finds it, and the listener's own descriptor counts.
LEMMA MaxConnectionFd ==
    ASSUME NEW n \in Nat, NEW T \in SUBSET Fds, \A t \in T : t <= n, ListenFd <= n
    PROVE  /\ getMaxConnectionFd(T) \in Fds \cup {ListenFd}
           /\ \A fd \in T \cup {ListenFd} : fd <= getMaxConnectionFd(T)
<1> DEFINE U == T \cup {ListenFd}
<1>1. U \in SUBSET Nat /\ U # {} /\ \A t \in U : t <= n
  BY SocketAssumption
<1>2. \E t \in U : \A u \in U : u <= t
  <2> HIDE DEF U
  <2> QED BY <1>1, GreatestFd
<1>3. getMaxConnectionFd(T) \in U /\ \A u \in U : u <= getMaxConnectionFd(T)
  BY <1>2 DEF getMaxConnectionFd
<1> QED BY <1>3

\* The numbers that are not descriptors.
LEMMA NoFds == /\ Nowhere \notin Fds /\ InBacklog \notin Fds /\ Closed \notin Fds /\ ListenFd \notin Fds
               /\ ListenFd \in Nat /\ Fds \subseteq Nat /\ NRetry \in Nat \ {0} /\ DataLength \in Nat \ {0}
BY SocketAssumption DEF Nowhere, InBacklog, Closed

\* The connection of an attempt under way.
LEMMA ConnIs ==
    ASSUME SocketInv, NEW s \in Senders, sender[s].pc \in {"connect", "send"}
    PROVE  /\ sender[s].retry \in 0 .. NRetry - 1 /\ Conn(s) \in Connections
           /\ Conn(s) = <<s, sender[s].retry>>
<1>1. sender[s].retry \in 0 .. NRetry /\ sender[s].retry < NRetry
  BY DEF SocketInv, SocketTypeOK, Attempted
<1> QED BY <1>1, NoFds DEF Conn, Connections

LEMMA SocketInvInit == SocketInit => SocketInv
<1> SUFFICES ASSUME SocketInit PROVE SocketInv
  OBVIOUS
<1> USE NoFds
<1>1. SocketTypeOK
  BY DEF SocketInit, SocketTypeOK, Nowhere
<1>2. PoolRight
  BY DEF SocketInit, PoolRight
<1>3. Attempted
  BY DEF SocketInit, Attempted, Connections
<1>4. Waiting
  BY DEF SocketInit, Waiting
<1>5. OneEach
  BY DEF SocketInit, OneEach
<1>6. OneCarries
  BY DEF SocketInit, OneCarries, Connections
<1> QED BY <1>1, <1>2, <1>3, <1>4, <1>5, <1>6 DEF SocketInv

\* An attempt that failed is given up before anything was written: the next one
\* starts afresh, or the message counts as dropped.
LEMMA RetryKeeps ==
    ASSUME SocketInv, NEW s \in Senders, sender[s].pc \in {"connect", "send"}, Retry(s),
           UNCHANGED <<place, flight, inbox, heard>>
    PROVE  /\ sender' \in [Senders -> [pc : {"connect", "send", "forwarded", "dropped"}, retry : 0 .. NRetry]]
           /\ Attempted' /\ OneCarries'
<1> DEFINE r == sender[s].retry
<1>1. r \in 0 .. NRetry - 1
  BY ConnIs
<1>2. /\ sender' = [sender EXCEPT ![s] = sender'[s]]
      /\ sender'[s] = [pc |-> IF r + 1 < NRetry THEN "connect" ELSE "dropped", retry |-> r + 1]
  BY DEF Retry, SocketInv, SocketTypeOK
<1>3. /\ sender'[s].retry = r + 1 /\ r + 1 \in 0 .. NRetry
      /\ sender'[s].pc \in {"connect", "dropped"}
      /\ (sender'[s].pc = "connect" => r + 1 < NRetry)
  BY <1>1, <1>2, NoFds
<1>4. sender' \in [Senders -> [pc : {"connect", "send", "forwarded", "dropped"}, retry : 0 .. NRetry]]
  BY <1>2, <1>3 DEF SocketInv, SocketTypeOK
<1>5. \A t \in Senders : t # s => sender'[t] = sender[t]
  BY DEF Retry, SocketInv, SocketTypeOK
<1>6. Attempted'
  <2>1. \A t \in Senders : sender'[t].pc \in {"connect", "send", "forwarded"} => sender'[t].retry < NRetry
    BY <1>3, <1>5 DEF SocketInv, Attempted
  <2>2. ASSUME NEW t \in Senders, NEW a \in 0 .. NRetry - 1,
               a > sender'[t].retry \/ (a = sender'[t].retry /\ sender'[t].pc = "connect")
        PROVE  place[<<t, a>>] = Nowhere
    <3>1. CASE t = s
      <4>1. a > r
        BY <1>1, <1>3, <2>2, <3>1
      <4> QED BY <3>1, <4>1 DEF SocketInv, Attempted
    <3>2. CASE t # s
      BY <1>5, <2>2, <3>2 DEF SocketInv, Attempted
    <3> QED BY <3>1, <3>2
  <2> QED BY <2>1, <2>2 DEF Attempted
<1>7. OneCarries'
  <2> SUFFICES ASSUME NEW t \in Senders, NEW a \in 0 .. NRetry - 1,
                      flight[<<t, a>>] > 0 \/ inbox[<<t, a>>] > 0 \/ heard[<<t, a>>] > 0
               PROVE  sender'[t].pc = "forwarded" /\ a = sender'[t].retry
    BY DEF OneCarries
  <2>1. sender[t].pc = "forwarded" /\ a = sender[t].retry
    BY DEF SocketInv, OneCarries
  <2> QED BY <1>5, <2>1
<1> QED BY <1>4, <1>6, <1>7

\* A connection enters the backlog.
LEMMA ConnectKeeps ==
    ASSUME SocketInv, NEW s \in Senders, connect_to_server(s)
    PROVE  SocketInv'
<1> DEFINE c == Conn(s)
<1>1. /\ sender[s].retry \in 0 .. NRetry - 1 /\ c \in Connections /\ c = <<s, sender[s].retry>>
      /\ sender[s].pc = "connect"
  BY ConnIs DEF connect_to_server
<1>2. CASE Retry(s) /\ UNCHANGED <<place, backlog>>
  <2>1. /\ sender' \in [Senders -> [pc : {"connect", "send", "forwarded", "dropped"}, retry : 0 .. NRetry]]
        /\ Attempted' /\ OneCarries'
    BY <1>1, <1>2, RetryKeeps DEF connect_to_server
  <2>2. SocketTypeOK' /\ PoolRight' /\ Waiting' /\ OneEach'
    BY <1>2, <2>1 DEF connect_to_server, poolVars, SocketInv, SocketTypeOK, PoolRight, Waiting, OneEach
  <2> QED BY <2>1, <2>2 DEF SocketInv
<1>3. CASE /\ listener # "exited"
           /\ place' = [place EXCEPT ![c] = InBacklog] /\ backlog' = Append(backlog, c)
           /\ sender' = [sender EXCEPT ![s].pc = "send"]
  <2> HIDE DEF c
  <2>1. /\ place[c] = Nowhere /\ place' \in [Connections -> Fds \cup {Nowhere, InBacklog, Closed}]
        /\ place'[c] = InBacklog /\ \A d \in Connections : d # c => place'[d] = place[d]
    BY <1>1, <1>3 DEF SocketInv, SocketTypeOK, Attempted
  <2>2. /\ sender' \in [Senders -> [pc : {"connect", "send", "forwarded", "dropped"}, retry : 0 .. NRetry]]
        /\ sender'[s].pc = "send" /\ \A t \in Senders : sender'[t].retry = sender[t].retry
        /\ \A t \in Senders : t # s => sender'[t] = sender[t]
    BY <1>3 DEF SocketInv, SocketTypeOK
  <2>3. UNCHANGED <<flight, inbox, fin, poolVars, listener, heard, interrupts>>
    BY DEF connect_to_server
  <2>4. SocketTypeOK'
    BY <2>1, <2>2, <2>3 DEF SocketInv, SocketTypeOK, poolVars
  <2>5. PoolRight'
    <3>1. {place'[d] : d \in Connections} \cap Fds = {place[d] : d \in Connections} \cap Fds
      BY <1>1, <2>1, NoFds
    <3> QED BY <2>3, <3>1 DEF SocketInv, PoolRight, poolVars
  <2>6. Attempted'
    <3>1. \A t \in Senders : sender'[t].pc \in {"connect", "send", "forwarded"} => sender'[t].retry < NRetry
      BY <1>1, <2>2 DEF SocketInv, Attempted
    <3>2. ASSUME NEW t \in Senders, NEW a \in 0 .. NRetry - 1,
                 a > sender'[t].retry \/ (a = sender'[t].retry /\ sender'[t].pc = "connect")
          PROVE  place'[<<t, a>>] = Nowhere
      <4>1. <<t, a>> \in Connections /\ <<t, a>> # c
        BY <1>1, <2>2, <3>2 DEF Connections
      <4>2. place[<<t, a>>] = Nowhere
        BY <2>2, <3>2 DEF SocketInv, Attempted
      <4> QED BY <2>1, <4>1, <4>2
    <3> QED BY <3>1, <3>2 DEF Attempted
  <2>7. Waiting'
    <3>1. /\ backlog \in Seq(Connections) /\ \A i \in 1 .. Len(backlog) : place[backlog[i]] = InBacklog
          /\ \A i, j \in 1 .. Len(backlog) : backlog[i] = backlog[j] => i = j
      BY DEF SocketInv, Waiting
    <3>2. /\ backlog' \in Seq(Connections) /\ Len(backlog') = Len(backlog) + 1 /\ backlog' # <<>>
          /\ backlog'[Len(backlog) + 1] = c /\ \A i \in 1 .. Len(backlog) : backlog'[i] = backlog[i]
      BY <1>1, <1>3, <3>1
    <3>3. \A i \in 1 .. Len(backlog) : backlog[i] \in Connections /\ backlog[i] # c
      BY <2>1, <3>1 DEF Nowhere, InBacklog
    <3>4. \A i \in 1 .. Len(backlog') : i \in 1 .. Len(backlog) \/ i = Len(backlog) + 1
      BY <3>1, <3>2
    <3>5. \A i \in 1 .. Len(backlog') : place'[backlog'[i]] = InBacklog
      BY <2>1, <3>1, <3>2, <3>3, <3>4
    <3>6. \A i, j \in 1 .. Len(backlog') : backlog'[i] = backlog'[j] => i = j
      BY <3>1, <3>2, <3>3, <3>4
    <3> QED BY <3>2, <3>5, <3>6 DEF Waiting
  <2>8. OneEach'
    BY <2>1, NoFds DEF SocketInv, OneEach
  <2>9. OneCarries'
    BY <1>1, <2>2, <2>3 DEF SocketInv, OneCarries
  <2> QED BY <2>4, <2>5, <2>6, <2>7, <2>8, <2>9 DEF SocketInv
<1> QED BY <1>2, <1>3 DEF connect_to_server

\* A message is written whole on the attempt the sender then believes in, or the
\* attempt has failed.
LEMMA SendKeeps ==
    ASSUME SocketInv, NEW s \in Senders, send_data(s)
    PROVE  SocketInv'
<1> DEFINE c == Conn(s)
<1>1. /\ sender[s].retry \in 0 .. NRetry - 1 /\ c \in Connections /\ c = <<s, sender[s].retry>>
      /\ sender[s].pc = "send"
  BY ConnIs DEF send_data
<1>2. /\ UNCHANGED <<place, inbox, backlog, poolVars, listener, heard, interrupts>>
      /\ fin' \in [Connections -> BOOLEAN]
  <2>1. fin' = [fin EXCEPT ![c] = TRUE] /\ fin \in [Connections -> BOOLEAN]
    BY DEF send_data, SocketInv, SocketTypeOK
  <2> QED BY <1>1, <2>1 DEF send_data
<1>3. PoolRight' /\ Waiting' /\ OneEach'
  BY <1>2 DEF poolVars, SocketInv, PoolRight, Waiting, OneEach
<1>4. CASE Retry(s) /\ UNCHANGED flight
  <2>1. /\ sender' \in [Senders -> [pc : {"connect", "send", "forwarded", "dropped"}, retry : 0 .. NRetry]]
        /\ Attempted' /\ OneCarries'
    BY <1>1, <1>2, <1>4, RetryKeeps
  <2>2. SocketTypeOK'
    BY <1>2, <1>4, <2>1 DEF poolVars, SocketInv, SocketTypeOK
  <2> QED BY <1>3, <2>1, <2>2 DEF SocketInv
<1>5. CASE /\ flight' = [flight EXCEPT ![c] = Size[s]]
           /\ sender' = [sender EXCEPT ![s].pc = "forwarded"]
  <2> HIDE DEF c
  <2>1. /\ flight' \in [Connections -> Nat] /\ \A d \in Connections : d # c => flight'[d] = flight[d]
    BY <1>1, <1>5, SocketAssumption DEF SocketInv, SocketTypeOK
  <2>2. /\ sender' \in [Senders -> [pc : {"connect", "send", "forwarded", "dropped"}, retry : 0 .. NRetry]]
        /\ sender'[s].pc = "forwarded" /\ \A t \in Senders : sender'[t].retry = sender[t].retry
        /\ \A t \in Senders : t # s => sender'[t] = sender[t]
    BY <1>5 DEF SocketInv, SocketTypeOK
  <2>3. SocketTypeOK'
    BY <1>2, <2>1, <2>2 DEF poolVars, SocketInv, SocketTypeOK
  <2>4. Attempted'
    BY <1>1, <1>2, <2>2 DEF SocketInv, Attempted
  <2>5. OneCarries'
    <3> SUFFICES ASSUME NEW t \in Senders, NEW a \in 0 .. NRetry - 1,
                        flight'[<<t, a>>] > 0 \/ inbox[<<t, a>>] > 0 \/ heard[<<t, a>>] > 0
                 PROVE  sender'[t].pc = "forwarded" /\ a = sender'[t].retry
      BY <1>2 DEF OneCarries
    <3>1. CASE <<t, a>> = c
      BY <1>1, <2>2, <3>1
    <3>2. CASE <<t, a>> # c
      <4>1. <<t, a>> \in Connections
        BY DEF Connections
      <4>2. sender[t].pc = "forwarded" /\ a = sender[t].retry
        BY <2>1, <3>2, <4>1 DEF SocketInv, OneCarries
      <4> QED BY <1>1, <2>2, <4>2
    <3> QED BY <3>1, <3>2
  <2> QED BY <1>3, <2>3, <2>4, <2>5 DEF SocketInv
<1> QED BY <1>4, <1>5 DEF send_data

\* Data in flight arrives on its own connection.
LEMMA ArriveKeeps ==
    ASSUME SocketInv, NEW c \in Connections, Arrive(c)
    PROVE  SocketInv'
<1>1. PICK n \in 1 .. flight[c] : /\ flight' = [flight EXCEPT ![c] = @ - n]
                                  /\ inbox' = [inbox EXCEPT ![c] = @ + n]
  BY DEF Arrive
<1>2. /\ flight \in [Connections -> Nat] /\ inbox \in [Connections -> Nat]
      /\ n \in Nat /\ n <= flight[c] /\ flight[c] > 0
  BY <1>1 DEF SocketInv, SocketTypeOK
<1>3. /\ flight' \in [Connections -> Nat] /\ inbox' \in [Connections -> Nat]
      /\ \A d \in Connections : d # c => flight'[d] = flight[d] /\ inbox'[d] = inbox[d]
  BY <1>1, <1>2
<1>4. UNCHANGED <<sender, place, fin, backlog, poolVars, listener, heard, interrupts>>
  BY DEF Arrive
<1>5. SocketTypeOK' /\ PoolRight' /\ Waiting' /\ OneEach' /\ Attempted'
  <2>1. SocketTypeOK'
    BY <1>3, <1>4 DEF poolVars, SocketInv, SocketTypeOK
  <2>2. PoolRight' /\ Waiting' /\ OneEach'
    BY <1>4 DEF poolVars, SocketInv, PoolRight, Waiting, OneEach
  <2>3. Attempted'
    BY <1>3, <1>4 DEF SocketInv, Attempted
  <2> QED BY <2>1, <2>2, <2>3
<1>6. OneCarries'
  <2> SUFFICES ASSUME NEW t \in Senders, NEW a \in 0 .. NRetry - 1,
                      flight'[<<t, a>>] > 0 \/ inbox'[<<t, a>>] > 0 \/ heard[<<t, a>>] > 0
               PROVE  sender[t].pc = "forwarded" /\ a = sender[t].retry
    BY <1>4 DEF OneCarries
  <2>1. <<t, a>> \in Connections
    BY DEF Connections
  <2> QED BY <1>2, <1>3, <2>1 DEF SocketInv, OneCarries
<1> QED BY <1>5, <1>6 DEF SocketInv

\* The listener asks which connections are readable.
LEMMA SelectKeeps == SocketInv /\ Select => SocketInv'
<1> SUFFICES ASSUME SocketInv, Select PROVE SocketInv'
  OBVIOUS
<1>1. /\ read_connection_fds' = Readable /\ listener' = "scan"
      /\ UNCHANGED <<sender, linkVars, active_connections, connection_pool, fd_max, heard, interrupts>>
  BY DEF Select
<1>2. Readable \subseteq connection_pool /\ (ListenFd \in Readable => backlog # <<>>)
  BY DEF Readable
<1>3. SocketTypeOK'
  BY <1>1, <1>2 DEF SocketInv, SocketTypeOK, linkVars
<1>4. Waiting'
  BY <1>1, <1>2 DEF SocketInv, Waiting, linkVars
<1>5. PoolRight' /\ OneEach' /\ Attempted' /\ OneCarries'
  BY <1>1 DEF SocketInv, PoolRight, OneEach, Attempted, OneCarries, linkVars
<1> QED BY <1>3, <1>4, <1>5 DEF SocketInv

\* When select fails there is nothing to take out.
LEMMA SelectFailsKeeps == SocketInv /\ SelectFails => SocketInv'
<1> SUFFICES ASSUME SocketInv, SelectFails PROVE SocketInv'
  OBVIOUS
<1> DEFINE bad == {fd \in connection_pool \ {ListenFd} : \A c \in Connections : place[c] # fd}
<1>1. bad = {}
  BY DEF SocketInv, PoolRight
<1>2. /\ connection_pool' = connection_pool \ bad /\ active_connections' = active_connections \ bad
      /\ (bad = {} => fd_max' = fd_max)
      /\ UNCHANGED <<sender, linkVars, read_connection_fds, listener, heard>>
  BY DEF SelectFails
<1> HIDE DEF bad
<1>3. UNCHANGED poolVars
  BY <1>1, <1>2 DEF poolVars
<1> QED BY <1>2, <1>3 DEF SocketInv, SocketTypeOK, PoolRight, Attempted, Waiting, OneEach, OneCarries,
                          linkVars, poolVars

\* The oldest connection of the backlog gets a descriptor that no other has.
LEMMA AcceptKeeps == SocketInv /\ accept_connection => SocketInv'
<1> SUFFICES ASSUME SocketInv, accept_connection PROVE SocketInv'
  OBVIOUS
<1> USE NoFds
<1>1. PICK fd \in Fds \ {place[c] : c \in Connections} :
         /\ place' = [place EXCEPT ![Head(backlog)] = fd]
         /\ active_connections' = active_connections \cup {fd}
         /\ connection_pool' = connection_pool \cup {fd}
         /\ fd_max' = IF fd > fd_max THEN fd ELSE fd_max
  BY DEF accept_connection
<1>2. /\ backlog' = Tail(backlog) /\ read_connection_fds' = read_connection_fds \ {ListenFd}
      /\ UNCHANGED <<sender, flight, inbox, fin, listener, heard, interrupts>>
      /\ listener = "scan" /\ ListenFd \in read_connection_fds
  BY DEF accept_connection, Turn, Ready
<1>3. /\ backlog \in Seq(Connections) /\ backlog # <<>>
      /\ \A i \in 1 .. Len(backlog) : place[backlog[i]] = InBacklog
      /\ \A i, j \in 1 .. Len(backlog) : backlog[i] = backlog[j] => i = j
  BY <1>2 DEF SocketInv, Waiting
<1> DEFINE h == Head(backlog)
<1>4. /\ h \in Connections /\ h = backlog[1] /\ 1 \in 1 .. Len(backlog) /\ Len(backlog) \in Nat
      /\ Tail(backlog) \in Seq(Connections) /\ Len(Tail(backlog)) = Len(backlog) - 1
      /\ \A i \in 1 .. Len(Tail(backlog)) :
            i \in Nat /\ i + 1 \in 1 .. Len(backlog) /\ Tail(backlog)[i] = backlog[i + 1]
  BY <1>3
<1> HIDE DEF h
<1>5. place[h] = InBacklog
  BY <1>3, <1>4
<1>6. /\ place' \in [Connections -> Fds \cup {Nowhere, InBacklog, Closed}]
      /\ place'[h] = fd /\ \A c \in Connections : c # h => place'[c] = place[c]
      /\ \A c \in Connections : place[c] # fd
  BY <1>1, <1>4 DEF SocketInv, SocketTypeOK, h
<1>7. SocketTypeOK'
  BY <1>1, <1>2, <1>6 DEF SocketInv, SocketTypeOK
<1>8. PoolRight'
  <2>1. {place'[c] : c \in Connections} \cap Fds = ({place[c] : c \in Connections} \cap Fds) \cup {fd}
    BY <1>4, <1>5, <1>6
  <2>2. fd_max \in Nat /\ fd \in Nat
    BY DEF SocketInv, SocketTypeOK
  <2>3. fd <= fd_max' /\ \A g \in connection_pool : g \in Nat /\ g <= fd_max'
    <3>1. \A g \in connection_pool : g \in Nat /\ g <= fd_max
      BY DEF SocketInv, SocketTypeOK, PoolRight
    <3> QED BY <1>1, <2>2, <3>1
  <2> QED BY <1>1, <2>1, <2>3 DEF SocketInv, PoolRight
<1>9. Attempted'
  <2>1. ASSUME NEW t \in Senders, NEW a \in 0 .. NRetry - 1, place[<<t, a>>] = Nowhere
        PROVE  place'[<<t, a>>] = Nowhere
    <3>1. <<t, a>> \in Connections /\ <<t, a>> # h
      BY <1>5, <2>1 DEF Connections, Nowhere, InBacklog
    <3> QED BY <1>6, <2>1, <3>1
  <2> QED BY <1>2, <2>1 DEF SocketInv, Attempted
<1>10. Waiting'
  <2>1. \A i \in 1 .. Len(backlog') : backlog'[i] \in Connections /\ backlog'[i] # h
    BY <1>2, <1>3, <1>4
  <2>2. \A i \in 1 .. Len(backlog') : place'[backlog'[i]] = InBacklog
    BY <1>2, <1>3, <1>4, <1>6, <2>1
  <2>3. \A i, j \in 1 .. Len(backlog') : backlog'[i] = backlog'[j] => i = j
    <3> SUFFICES ASSUME NEW i \in 1 .. Len(backlog'), NEW j \in 1 .. Len(backlog'),
                        backlog'[i] = backlog'[j]
                 PROVE  i = j
      OBVIOUS
    <3>1. i + 1 = j + 1
      BY <1>2, <1>3, <1>4
    <3> QED BY <1>2, <1>4, <3>1
  <2> QED BY <1>2, <1>4, <2>2, <2>3 DEF Waiting
<1>11. OneEach'
  BY <1>4, <1>6 DEF SocketInv, OneEach
<1>12. OneCarries'
  BY <1>2 DEF SocketInv, OneCarries
<1> QED BY <1>7, <1>8, <1>9, <1>10, <1>11, <1>12 DEF SocketInv

\* A connection is read once and closed, and its descriptor is free.
LEMMA ReceiveKeeps ==
    ASSUME SocketInv, NEW c \in Connections, Receive(c)
    PROVE  SocketInv'
<1> USE NoFds
<1> DEFINE fd == place[c]
<1>1. /\ fd \in Fds /\ heard' = [heard EXCEPT ![c] = receive_data(c)]
      /\ place' = [place EXCEPT ![c] = Closed]
      /\ active_connections' = active_connections \ {fd}
      /\ connection_pool' = connection_pool \ {fd}
      /\ read_connection_fds' = read_connection_fds \ {fd}
      /\ fd_max' = getMaxConnectionFd(active_connections \ {fd})
      /\ UNCHANGED <<sender, flight, inbox, fin, backlog, listener, interrupts>>
  BY DEF Receive
<1>2. /\ place' \in [Connections -> Fds \cup {Nowhere, InBacklog, Closed}]
      /\ place'[c] = Closed /\ \A d \in Connections : d # c => place'[d] = place[d]
      /\ \A d \in Connections : d # c => place[d] # fd
  BY <1>1 DEF SocketInv, SocketTypeOK, OneEach
<1>3. /\ heard' \in [Connections -> Nat \cup {-1}] /\ heard'[c] = receive_data(c)
      /\ \A d \in Connections : d # c => heard'[d] = heard[d]
      /\ (receive_data(c) > 0 => inbox[c] > 0)
  <2>1. inbox[c] \in Nat /\ receive_data(c) \in Nat /\ (receive_data(c) > 0 => inbox[c] > 0)
    BY DEF SocketInv, SocketTypeOK, receive_data
  <2> QED BY <1>1, <2>1 DEF SocketInv, SocketTypeOK
<1>4. /\ active_connections \subseteq Fds /\ connection_pool = active_connections \cup {ListenFd}
      /\ fd_max \in Nat /\ \A g \in connection_pool : g <= fd_max
      /\ active_connections = {place[d] : d \in Connections} \cap Fds
  BY DEF SocketInv, SocketTypeOK, PoolRight
<1> DEFINE T == active_connections \ {fd}
<1>5. /\ getMaxConnectionFd(T) \in Fds \cup {ListenFd}
      /\ \A g \in T \cup {ListenFd} : g <= getMaxConnectionFd(T)
  <2>1. T \in SUBSET Fds /\ (\A t \in T : t <= fd_max) /\ ListenFd <= fd_max
    BY <1>4
  <2> HIDE DEF T
  <2> QED BY <1>4, <2>1, MaxConnectionFd
<1> HIDE DEF fd
<1>6. SocketTypeOK'
  BY <1>1, <1>2, <1>3, <1>5 DEF SocketInv, SocketTypeOK
<1>7. PoolRight'
  <2>1. {place'[d] : d \in Connections} \cap Fds = T
    BY <1>1, <1>2, <1>4 DEF fd
  <2>2. connection_pool' = T \cup {ListenFd}
    BY <1>1, <1>4
  <2> QED BY <1>1, <1>5, <2>1, <2>2 DEF PoolRight
<1>8. Attempted'
  <2>1. ASSUME NEW t \in Senders, NEW a \in 0 .. NRetry - 1, place[<<t, a>>] = Nowhere
        PROVE  place'[<<t, a>>] = Nowhere
    <3>1. <<t, a>> \in Connections /\ <<t, a>> # c
      BY <1>1, <2>1 DEF Connections, fd
    <3> QED BY <1>2, <2>1, <3>1
  <2> QED BY <1>1, <2>1 DEF SocketInv, Attempted
<1>9. Waiting'
  <2>1. \A i \in 1 .. Len(backlog) :
           backlog[i] \in Connections /\ place[backlog[i]] = InBacklog /\ backlog[i] # c
    BY <1>1 DEF SocketInv, Waiting, fd
  <2>2. \A i \in 1 .. Len(backlog') : place'[backlog'[i]] = InBacklog
    BY <1>1, <1>2, <2>1
  <2> QED BY <1>1, <2>2 DEF SocketInv, Waiting
<1>10. OneEach'
  BY <1>2 DEF SocketInv, OneEach
<1>11. OneCarries'
  <2> SUFFICES ASSUME NEW t \in Senders, NEW a \in 0 .. NRetry - 1,
                      flight[<<t, a>>] > 0 \/ inbox[<<t, a>>] > 0 \/ heard'[<<t, a>>] > 0
               PROVE  sender[t].pc = "forwarded" /\ a = sender[t].retry
    BY <1>1 DEF OneCarries
  <2>1. <<t, a>> \in Connections
    BY DEF Connections
  <2> QED BY <1>3, <2>1 DEF SocketInv, OneCarries
<1> QED BY <1>6, <1>7, <1>8, <1>9, <1>10, <1>11 DEF SocketInv

\* What remains of the listener's loop: its end, and the end of the process.
LEMMA ListenerEnds == SocketInv /\ (ScanDone \/ AcceptFails) => SocketInv'
<1> SUFFICES ASSUME SocketInv, ScanDone \/ AcceptFails PROVE SocketInv'
  OBVIOUS
<1>1. listener' \in {"select", "exited"} /\ UNCHANGED <<sender, linkVars, poolVars, heard, interrupts>>
  BY DEF ScanDone, AcceptFails
<1> QED BY <1>1 DEF SocketInv, SocketTypeOK, PoolRight, Attempted, Waiting, OneEach, OneCarries,
                    linkVars, poolVars

\* Every step of the peer's stores keeps the sockets' invariant.
LEMMA SocketStep == SocketInv /\ [Next]_storeVars => SocketInv'
<1> SUFFICES ASSUME SocketInv, [Next]_storeVars PROVE SocketInv'
  OBVIOUS
<1>1. CASE SocketNext
  BY <1>1, ConnectKeeps, SendKeeps, ArriveKeeps, SelectKeeps, SelectFailsKeeps, AcceptKeeps,
     ReceiveKeeps, ListenerEnds DEF SocketNext, SocketWork, Listener
<1>2. CASE UNCHANGED socketVars
  BY <1>2 DEF socketVars, SocketInv, SocketTypeOK, PoolRight, Attempted, Waiting, OneEach, OneCarries,
              linkVars, poolVars
<1>3. SocketNext \/ UNCHANGED socketVars
  BY DEF Next, storeVars
<1> QED BY <1>1, <1>2, <1>3

\* Only one attempt carries data, so only one can be heard.
LEMMA HeardOnce == SocketInv => HeardAtMostOnce
<1> SUFFICES ASSUME SocketInv, NEW s \in Senders
             PROVE  LET times == {a \in 0 .. NRetry - 1 : heard[<<s, a>>] > 0}
                    IN  Cardinality(times) <= 1 /\ (sender[s].pc = "dropped" => times = {})
  BY DEF HeardAtMostOnce
<1> DEFINE times == {a \in 0 .. NRetry - 1 : heard[<<s, a>>] > 0}
<1>1. times \subseteq {sender[s].retry} /\ (sender[s].pc = "dropped" => times = {})
  BY DEF SocketInv, OneCarries
<1>2. Cardinality(times) <= 1
  <2> HIDE DEF times
  <2>1. times = {} \/ times = {sender[s].retry}
    BY <1>1
  <2>2. Cardinality({}) = 0 /\ Cardinality({sender[s].retry}) = 1
    BY FS_EmptySet, FS_Singleton
  <2> QED BY <2>1, <2>2
<1> QED BY <1>1, <1>2

\* Whatever the senders, the sizes of their messages and the descriptors that are
\* free: no message is heard twice however often forwarding_thread tries, none
\* that it counts as dropped is heard, and active_connections, connection_pool
\* and fd_max agree with the connections that are open (client_socket.h,
\* server_socket.h, listener_thread).
THEOREM SocketsCorrect == Spec => [](SocketTypeOK /\ PoolRight /\ HeardAtMostOnce)
<1>1. Init => SocketInv
  BY SocketInvInit DEF Init
<1>2. SocketInv /\ [Next]_storeVars => SocketInv'
  BY SocketStep
<1>3. SocketInv => SocketTypeOK /\ PoolRight /\ HeardAtMostOnce
  BY HeardOnce DEF SocketInv
<1> QED BY <1>1, <1>2, <1>3, PTL DEF Spec

-----------------------------------------------------------------------------
(* The cache.                                                              *)

\* The maps hm can be.
Maps == UNION {[K -> Nodes] : K \in SUBSET Keys}

\* The records that the functions of the list take and return.
Lists == [head : Nodes \cup {NULL}, tail : Nodes \cup {NULL},
          next : [Nodes -> Nodes \cup {NULL}], prev : [Nodes -> Nodes \cup {NULL}],
          key : [Nodes -> Keys \cup {NULL}], hm : Maps, size : Int, freed : SUBSET Nodes]

Different(s) == \A i, j \in 1..Len(s) : s[i] = s[j] => i = j

\* The links run through the nodes of s from the head to the tail and back.
Strung(L, s) ==
    /\ s \in Seq(Nodes) /\ Different(s)
    /\ (s = <<>> => L.head = NULL /\ L.tail = NULL)
    /\ (s # <<>> => L.head = s[1] /\ L.tail = s[Len(s)])
    /\ \A i \in 1..Len(s) : L.next[s[i]] = IF i < Len(s) THEN s[i + 1] ELSE NULL
    /\ \A i \in 1..Len(s) : L.prev[s[i]] = IF i = 1 THEN NULL ELSE s[i - 1]

\* The map leads from the ids of the nodes of s to the nodes, and nowhere else.
Keyed(L, s) ==
    /\ \A i \in 1..Len(s) : L.key[s[i]] \in DOMAIN L.hm /\ L.hm[L.key[s[i]]] = s[i]
    /\ \A k \in DOMAIN L.hm : L.key[L.hm[k]] = k /\ \E i \in 1..Len(s) : L.hm[k] = s[i]

Holds(L, s) == L \in Lists /\ Strung(L, s) /\ Keyed(L, s) /\ L.size = Len(s)

\* What a map of the cache is made of.
LEMMA MapIs ==
    ASSUME NEW m \in Maps
    PROVE  /\ DOMAIN m \subseteq Keys /\ \A k \in DOMAIN m : m[k] \in Nodes
           /\ m \in [DOMAIN m -> Nodes]
<1>1. PICK K \in SUBSET Keys : m \in [K -> Nodes]
  BY DEF Maps
<1> QED BY <1>1

\* A function from ids to nodes is such a map.
LEMMA IsMap ==
    ASSUME NEW K \in SUBSET Keys, NEW m \in [K -> Nodes]
    PROVE  m \in Maps
BY DEF Maps

\* hm_add sets one entry.
LEMMA MapAdd ==
    ASSUME NEW m \in Maps, NEW k \in Keys, NEW n \in Nodes
    PROVE  /\ hm_add(m, k, n) \in Maps /\ DOMAIN hm_add(m, k, n) = DOMAIN m \cup {k}
           /\ hm_add(m, k, n)[k] = n
           /\ \A x \in DOMAIN m : x # k => hm_add(m, k, n)[x] = m[x]
<1>1. DOMAIN m \subseteq Keys /\ \A x \in DOMAIN m : m[x] \in Nodes
  BY MapIs
<1>2. hm_add(m, k, n) \in [DOMAIN m \cup {k} -> Nodes]
  BY <1>1 DEF hm_add
<1>3. hm_add(m, k, n) \in Maps
  BY <1>1, <1>2, IsMap
<1> QED BY <1>3 DEF hm_add

\* hm_remove drops one entry.
LEMMA MapRemove ==
    ASSUME NEW m \in Maps, NEW k
    PROVE  /\ hm_remove(m, k) \in Maps /\ DOMAIN hm_remove(m, k) = DOMAIN m \ {k}
           /\ \A x \in DOMAIN m \ {k} : hm_remove(m, k)[x] = m[x]
<1>1. DOMAIN m \subseteq Keys /\ \A x \in DOMAIN m : m[x] \in Nodes
  BY MapIs
<1>2. hm_remove(m, k) \in [DOMAIN m \ {k} -> Nodes]
  BY <1>1 DEF hm_remove
<1>3. hm_remove(m, k) \in Maps
  BY <1>1, <1>2, IsMap
<1> QED BY <1>3 DEF hm_remove

\* The nodes of a list, and a list of which no node is the first.
LEMMA NodesOf ==
    ASSUME NEW s \in Seq(Nodes)
    PROVE  /\ Len(s) \in Nat /\ \A i \in 1..Len(s) : s[i] \in Nodes /\ i \in Nat
           /\ (s = <<>> <=> Len(s) = 0) /\ (s # <<>> => 1 \in 1..Len(s) /\ Len(s) \in 1..Len(s))
  OBVIOUS

\* A node in front of a list.
LEMMA InFront ==
    ASSUME NEW s \in Seq(Nodes), NEW n \in Nodes
    PROVE  /\ <<n>> \o s \in Seq(Nodes) /\ Len(<<n>> \o s) = Len(s) + 1 /\ (<<n>> \o s)[1] = n
           /\ \A i \in 2..(Len(s) + 1) : (<<n>> \o s)[i] = s[i - 1]
           /\ \A i \in 1..(Len(s) + 1) : i = 1 \/ (i \in 2..(Len(s) + 1) /\ i - 1 \in 1..Len(s))
  OBVIOUS

\* A node that is not in a list.
Free(s, n) == \A i \in 1..Len(s) : s[i] # n

\* insert of an id that is neither known nor cached.
Pushed(L, k, n) == [append2Head([L EXCEPT !.key[n] = k], n) EXCEPT !.hm = hm_add(@, k, n), !.size = @ + 1]

\* The links of the other nodes stay.
SameNext(L, M, n) == \A m \in Nodes : m # n => M.next[m] = L.next[m]

\* append2Head, as insert calls it.
LEMMA PushHolds ==
    ASSUME NEW L, NEW s, Holds(L, s), NEW n \in Nodes, NEW k \in Keys,
           k \notin DOMAIN L.hm, Free(s, n)
    PROVE  LET P == Pushed(L, k, n)
           IN  /\ Holds(P, <<n>> \o s) /\ DOMAIN P.hm = DOMAIN L.hm \cup {k}
               /\ P.key = [L.key EXCEPT ![n] = k] /\ P.freed = L.freed
               /\ SameNext(L, P, n)
<1> USE DEF Free
<1> DEFINE P == Pushed(L, k, n)
           M == [L EXCEPT !.key[n] = k]
           A == append2Head(M, n)
           t == <<n>> \o s
<1>1. L \in Lists /\ Strung(L, s) /\ Keyed(L, s) /\ L.size = Len(s) /\ s \in Seq(Nodes)
  BY DEF Holds, Strung
<1>2. M \in Lists /\ M = [L EXCEPT !.key = [L.key EXCEPT ![n] = k]]
  BY <1>1 DEF Lists
<1>3. P = [A EXCEPT !.hm = hm_add(A.hm, k, n), !.size = A.size + 1]
  BY DEF Pushed
<1>4. /\ A \in Lists /\ A.hm = L.hm /\ A.size = L.size /\ A.key = [L.key EXCEPT ![n] = k] /\ A.freed = L.freed
      /\ A.head = n /\ A.tail = (IF s = <<>> THEN n ELSE L.tail)
      /\ A.next = [L.next EXCEPT ![n] = L.head]
      /\ A.prev[n] = NULL /\ (s # <<>> => A.prev[L.head] = n)
      /\ \A m \in Nodes : m # n /\ m # L.head => A.prev[m] = L.prev[m]
  <2> HIDE DEF M
  <2>1. /\ M.head = L.head /\ M.tail = L.tail /\ M.next = L.next /\ M.prev = L.prev /\ M.hm = L.hm
        /\ M.size = L.size /\ M.key = [L.key EXCEPT ![n] = k] /\ M.freed = L.freed
    BY <1>1, <1>2 DEF Lists
  <2>2. CASE s = <<>>
    <3>1. L.head = NULL
      BY <1>1, <2>2 DEF Strung
    <3> DEFINE pv == [L.prev EXCEPT ![n] = NULL]
               nx == [L.next EXCEPT ![n] = NULL]
    <3>2. A = [M EXCEPT !.head = n, !.tail = n, !.prev = pv, !.next = nx]
      BY <2>1, <3>1 DEF append2Head
    <3>3. /\ pv \in [Nodes -> Nodes \cup {NULL}] /\ nx \in [Nodes -> Nodes \cup {NULL}]
          /\ nx = [L.next EXCEPT ![n] = L.head] /\ pv[n] = NULL
          /\ \A m \in Nodes : m # n => pv[m] = L.prev[m]
      BY <1>1, <3>1 DEF Lists
    <3> HIDE DEF pv, nx, A
    <3>4. /\ A \in Lists /\ A.hm = M.hm /\ A.size = M.size /\ A.key = M.key /\ A.freed = M.freed
          /\ A.head = n /\ A.tail = n /\ A.next = nx /\ A.prev = pv
      BY <1>2, <3>2, <3>3 DEF Lists
    <3> QED BY <2>1, <2>2, <3>3, <3>4
  <2>3. CASE s # <<>>
    <3>1. L.head \in Nodes /\ L.head = s[1] /\ L.head # n /\ L.head # NULL
      BY <1>1, <2>3, NodesOf, CacheAssumption DEF Strung
    <3> DEFINE pv == [L.prev EXCEPT ![L.head] = n, ![n] = NULL]
               nx == [L.next EXCEPT ![n] = L.head]
    <3>2. A = [M EXCEPT !.next = nx, !.prev = pv, !.head = n]
      BY <2>1, <3>1 DEF append2Head
    <3>3. /\ pv \in [Nodes -> Nodes \cup {NULL}] /\ nx \in [Nodes -> Nodes \cup {NULL}]
          /\ nx = [L.next EXCEPT ![n] = L.head] /\ pv[n] = NULL /\ pv[L.head] = n
          /\ \A m \in Nodes : m # n /\ m # L.head => pv[m] = L.prev[m]
      BY <1>1, <3>1 DEF Lists
    <3> HIDE DEF pv, nx, A
    <3>4. /\ A.hm = M.hm /\ A.size = M.size /\ A.key = M.key /\ A.freed = M.freed
          /\ A.head = n /\ A.tail = M.tail /\ A.next = nx /\ A.prev = pv
      BY <1>2, <3>2 DEF Lists
    <3>5. A \in Lists
      BY <1>2, <3>2, <3>3, ZenonT(40) DEF Lists
    <3> QED BY <2>1, <2>3, <3>3, <3>4, <3>5
  <2> QED BY <2>2, <2>3
<1> HIDE DEF A, M
<1>5. /\ hm_add(L.hm, k, n) \in Maps /\ DOMAIN hm_add(L.hm, k, n) = DOMAIN L.hm \cup {k}
      /\ hm_add(L.hm, k, n)[k] = n /\ \A x \in DOMAIN L.hm : hm_add(L.hm, k, n)[x] = L.hm[x]
  <2> DEFINE m == L.hm
  <2>1. m \in Maps /\ k \notin DOMAIN m
    BY <1>1 DEF Lists
  <2> HIDE DEF m
  <2>2. /\ hm_add(m, k, n) \in Maps /\ DOMAIN hm_add(m, k, n) = DOMAIN m \cup {k}
        /\ hm_add(m, k, n)[k] = n /\ \A x \in DOMAIN m : x # k => hm_add(m, k, n)[x] = m[x]
    BY <2>1, MapAdd
  <2> QED BY <2>1, <2>2 DEF m
<1>6. /\ P \in Lists /\ P.head = A.head /\ P.tail = A.tail /\ P.next = A.next /\ P.prev = A.prev /\ P.key = A.key
      /\ P.freed = A.freed /\ P.hm = hm_add(L.hm, k, n) /\ P.size = L.size + 1
  <2> DEFINE m == hm_add(L.hm, k, n)
             z == L.size + 1
  <2>0. A.hm = L.hm /\ A.size = L.size /\ A.size \in Int
    BY <1>4 DEF Lists
  <2>1. m \in Maps /\ z \in Int /\ m = hm_add(A.hm, k, n) /\ z = A.size + 1
    BY <1>5, <2>0
  <2> HIDE DEF m, z, P
  <2>2. /\ P \in Lists /\ P.head = A.head /\ P.tail = A.tail /\ P.next = A.next /\ P.prev = A.prev
        /\ P.key = A.key /\ P.freed = A.freed /\ P.hm = m /\ P.size = z
    <3>1. P = [A EXCEPT !.hm = m, !.size = z]
      BY <1>3, <2>1, Zenon
    <3> QED BY <1>4, <2>1, <3>1 DEF Lists
  <2> QED BY <2>2 DEF m, z
<1> HIDE DEF P
<1>7. /\ t \in Seq(Nodes) /\ Len(t) = Len(s) + 1 /\ t[1] = n /\ Len(s) \in Nat
      /\ \A i \in 2..(Len(s) + 1) : t[i] = s[i - 1]
      /\ \A i \in 1..(Len(s) + 1) : i = 1 \/ (i \in 2..(Len(s) + 1) /\ i - 1 \in 1..Len(s))
  BY <1>1, InFront
<1> HIDE DEF t
<1>8. Strung(P, t)
  <2>0. \A i \in 1..Len(s) : s[i] \in Nodes
    BY <1>1
  <2>1. Different(t)
    <3> SUFFICES ASSUME NEW i \in 1..Len(t), NEW j \in 1..Len(t), t[i] = t[j] PROVE i = j
      BY DEF Different
    <3>1. i = 1 /\ j # 1 => FALSE
      BY <1>7
    <3>2. i # 1 /\ j = 1 => FALSE
      BY <1>7
    <3>3. CASE i # 1 /\ j # 1
      <4>1. i - 1 \in 1..Len(s) /\ j - 1 \in 1..Len(s) /\ s[i - 1] = s[j - 1]
        BY <1>7, <3>3
      <4>2. i - 1 = j - 1
        BY <1>1, <4>1 DEF Strung, Different
      <4> QED BY <1>7, <4>2
    <3> QED BY <3>1, <3>2, <3>3
  <2>2. P.head = t[1] /\ P.tail = t[Len(t)] /\ t # <<>>
    <3>1. CASE s = <<>>
      BY <1>4, <1>6, <1>7, <3>1
    <3>2. CASE s # <<>>
      <4>1. Len(t) \in 2..(Len(s) + 1) /\ Len(t) - 1 = Len(s)
        BY <1>1, <1>7, <3>2, NodesOf
      <4> QED BY <1>1, <1>4, <1>6, <1>7, <3>2, <4>1 DEF Strung
    <3> QED BY <3>1, <3>2
  <2>3. ASSUME NEW i \in 1..Len(t)  PROVE P.next[t[i]] = IF i < Len(t) THEN t[i + 1] ELSE NULL
    <3>1. CASE i = 1
      <4>1. P.next[n] = L.head
        BY <1>1, <1>4, <1>6 DEF Lists
      <4>2. CASE s = <<>>
        BY <1>1, <1>7, <3>1, <4>1, <4>2 DEF Strung
      <4>3. CASE s # <<>>
        <5>1. 2 \in 2..(Len(s) + 1) /\ 1 < Len(t)
          BY <1>1, <1>7, <4>3, NodesOf
        <5>2. t[2] = s[1]
          BY <1>7, <5>1
        <5> QED BY <1>1, <1>7, <3>1, <4>1, <4>3, <5>1, <5>2 DEF Strung
      <4> QED BY <4>2, <4>3
    <3>2. CASE i # 1
      <4> DEFINE j == i - 1
      <4>1. j \in 1..Len(s) /\ i = j + 1 /\ t[i] = s[j] /\ s[j] \in Nodes /\ s[j] # n
        BY <1>7, <2>0, <3>2
      <4>2. P.next[s[j]] = L.next[s[j]]
        BY <1>1, <1>4, <1>6, <4>1 DEF Lists
      <4>3. L.next[s[j]] = IF j < Len(s) THEN s[j + 1] ELSE NULL
        BY <1>1, <4>1 DEF Strung
      <4>4. j < Len(s) => t[i + 1] = s[j + 1]
        <5>1. j < Len(s) => i + 1 \in 2..(Len(s) + 1) /\ (i + 1) - 1 = j + 1
          BY <1>7, <4>1
        <5> QED BY <1>7, <5>1
      <4> QED BY <1>7, <4>1, <4>2, <4>3, <4>4
    <3> QED BY <3>1, <3>2
  <2>4. ASSUME NEW i \in 1..Len(t)  PROVE P.prev[t[i]] = IF i = 1 THEN NULL ELSE t[i - 1]
    <3>1. CASE i = 1
      BY <1>4, <1>6, <1>7, <3>1
    <3>2. CASE i # 1
      <4> DEFINE j == i - 1
      <4>1. j \in 1..Len(s) /\ i = j + 1 /\ t[i] = s[j] /\ s[j] \in Nodes /\ s[j] # n /\ s # <<>>
        BY <1>1, <1>7, <2>0, <3>2
      <4>2. CASE j = 1
        <5>1. L.head = s[1]
          BY <1>1, <4>1 DEF Strung
        <5> QED BY <1>4, <1>6, <1>7, <4>1, <4>2, <5>1
      <4>3. CASE j # 1
        <5>1. L.head = s[1] /\ L.head # s[j] /\ L.prev[s[j]] = s[j - 1]
          BY <1>1, <4>1, <4>3 DEF Strung, Different
        <5>2. P.prev[s[j]] = s[j - 1]
          BY <1>4, <1>6, <4>1, <5>1
        <5>3. t[j] = s[j - 1]
          BY <1>7, <4>1, <4>3
        <5> QED BY <3>2, <4>1, <5>2, <5>3
      <4> QED BY <4>2, <4>3
    <3> QED BY <3>1, <3>2
  <2> QED BY <1>7, <2>1, <2>2, <2>3, <2>4 DEF Strung
<1>9. Keyed(P, t)
  <2>0. P.key[n] = k /\ \A m \in Nodes : m # n => P.key[m] = L.key[m]
    BY <1>1, <1>4, <1>6 DEF Lists
  <2>1. ASSUME NEW i \in 1..Len(t)  PROVE P.key[t[i]] \in DOMAIN P.hm /\ P.hm[P.key[t[i]]] = t[i]
    <3>1. CASE i = 1
      BY <1>5, <1>6, <1>7, <2>0, <3>1
    <3>2. CASE i # 1
      <4> DEFINE j == i - 1
      <4>1. j \in 1..Len(s) /\ t[i] = s[j] /\ s[j] \in Nodes /\ s[j] # n
        BY <1>1, <1>7, <3>2, NodesOf
      <4>2. L.key[s[j]] \in DOMAIN L.hm /\ L.hm[L.key[s[j]]] = s[j]
        BY <1>1, <4>1 DEF Keyed
      <4> QED BY <1>5, <1>6, <2>0, <4>1, <4>2
    <3> QED BY <3>1, <3>2
  <2>2. ASSUME NEW x \in DOMAIN P.hm
        PROVE  P.key[P.hm[x]] = x /\ \E i \in 1..Len(t) : P.hm[x] = t[i]
    <3>1. CASE x = k
      <4>1. 1 \in 1..Len(t)
        BY <1>7
      <4> QED BY <1>5, <1>6, <1>7, <2>0, <3>1, <4>1
    <3>2. CASE x # k
      <4>1. x \in DOMAIN L.hm /\ P.hm[x] = L.hm[x]
        BY <1>5, <1>6, <3>2
      <4>2. PICK j \in 1..Len(s) : L.hm[x] = s[j]
        BY <1>1, <4>1 DEF Keyed
      <4>3. L.key[L.hm[x]] = x /\ s[j] \in Nodes /\ s[j] # n
        BY <1>1, <4>1, NodesOf DEF Keyed
      <4>4. j + 1 \in 1..Len(t) /\ t[j + 1] = s[j]
        BY <1>7
      <4> QED BY <2>0, <4>1, <4>2, <4>3, <4>4
    <3> QED BY <3>1, <3>2
  <2> QED BY <2>1, <2>2 DEF Keyed
<1>10. Holds(P, t)
  BY <1>1, <1>6, <1>7, <1>8, <1>9 DEF Holds
<1>11. /\ DOMAIN P.hm = DOMAIN L.hm \cup {k} /\ P.key = [L.key EXCEPT ![n] = k] /\ P.freed = L.freed
       /\ SameNext(L, P, n)
  BY <1>1, <1>4, <1>5, <1>6 DEF Lists, SameNext
<1> QED BY <1>10, <1>11 DEF P, t

\* A list without its last node.
LEMMA Shorter ==
    ASSUME NEW S, NEW s \in Seq(S), Len(s) >= 1
    PROVE  LET t == SubSeq(s, 1, Len(s) - 1)
           IN  /\ t \in Seq(S) /\ Len(t) = Len(s) - 1 /\ Len(t) \in Nat
               /\ \A i \in 1..Len(t) : i \in 1..Len(s) /\ t[i] = s[i]
<1> DEFINE m == Len(s) - 1
<1>1. m \in 0..Len(s) /\ m \in Nat
  OBVIOUS
<1> HIDE DEF m
<1>2. /\ SubSeq(s, 1, m) \in Seq(S) /\ Len(SubSeq(s, 1, m)) = m
      /\ \A i \in 1..m : SubSeq(s, 1, m)[i] = s[i]
  BY <1>1
<1>3. \A i \in 1..m : i \in 1..Len(s)
  BY <1>1
<1> QED BY <1>1, <1>2, <1>3 DEF m

\* What evict leaves of a list of two or more.
Evicted(L, s, G) ==
    /\ evict(L) = {G}
    /\ Holds([G EXCEPT !.size = @ - 1], SubSeq(s, 1, Len(s) - 1))
    /\ G.key = L.key /\ G.freed = L.freed
    /\ \A m \in Nodes : G.next[m] = L.next[m] \/ G.next[m] = NULL
    /\ G.next[s[Len(s)]] = NULL

\* removeTail and the entry of the map.
LEMMA EvictHolds ==
    ASSUME NEW L, NEW s, Holds(L, s), Len(s) >= 2
    PROVE  \E G \in Lists : Evicted(L, s, G)
<1> DEFINE e == Len(s)
           z == s[e]
           p == s[e - 1]
           t == SubSeq(s, 1, e - 1)
<1>1. L \in Lists /\ Strung(L, s) /\ Keyed(L, s) /\ L.size = e /\ s \in Seq(Nodes)
  BY DEF Holds, Strung
<1>2. /\ e \in Nat /\ e - 1 \in 1..e /\ e \in 1..e /\ 1 \in 1..e /\ s # <<>>
      /\ \A i \in 1..e : i \in Nat /\ s[i] \in Nodes
  BY <1>1, NodesOf
<1>3. /\ L.tail = z /\ L.head = s[1] /\ z # s[1] /\ z # NULL /\ L.prev[z] = p /\ p # z
      /\ z \in Nodes /\ p \in Nodes /\ L.next[z] = NULL
  BY <1>1, <1>2, CacheAssumption DEF Strung, Different
<1> DEFINE nx == [L.next EXCEPT ![p] = NULL]
           pv == [L.prev EXCEPT ![z] = NULL]
           m == hm_remove(L.hm, L.key[z])
           R == [L EXCEPT !.tail = p, !.next = nx, !.prev = pv]
           G == [R EXCEPT !.hm = m]
           Z == [G EXCEPT !.size = G.size - 1]
<1>4. evict(L) = {G}
  <2>1. removeTail(L) = R
    BY <1>3 DEF removeTail
  <2>2. R.hm = L.hm
    BY <1>1 DEF Lists
  <2>3. L.tail # NULL /\ L.tail # L.head /\ L.key[L.tail] = L.key[z]
    BY <1>3
  <2>4. evict(L) = {[removeTail(L) EXCEPT !.hm = hm_remove(@, L.key[L.tail])]}
    BY <2>3 DEF evict
  <2> HIDE DEF R
  <2> QED BY <2>1, <2>2, <2>3, <2>4
<1>5. /\ nx \in [Nodes -> Nodes \cup {NULL}] /\ pv \in [Nodes -> Nodes \cup {NULL}]
      /\ nx[p] = NULL /\ \A x \in Nodes : x # p => nx[x] = L.next[x]
      /\ \A x \in Nodes : x # z => pv[x] = L.prev[x]
  BY <1>1, <1>3 DEF Lists
<1>6. /\ m \in Maps /\ DOMAIN m = DOMAIN L.hm \ {L.key[z]}
      /\ \A x \in DOMAIN L.hm \ {L.key[z]} : m[x] = L.hm[x]
  <2> DEFINE h == L.hm
             y == L.key[z]
  <2>1. h \in Maps
    BY <1>1 DEF Lists
  <2> HIDE DEF h, y
  <2>2. /\ hm_remove(h, y) \in Maps /\ DOMAIN hm_remove(h, y) = DOMAIN h \ {y}
        /\ \A x \in DOMAIN h \ {y} : hm_remove(h, y)[x] = h[x]
    BY <2>1, MapRemove
  <2> QED BY <2>2 DEF h, y
<1> HIDE DEF nx, pv, m
<1>7. /\ R \in Lists /\ R.head = L.head /\ R.tail = p /\ R.next = nx /\ R.prev = pv /\ R.key = L.key
      /\ R.hm = L.hm /\ R.size = L.size /\ R.freed = L.freed
  BY <1>1, <1>3, <1>5 DEF Lists
<1> HIDE DEF R
<1>8. /\ G \in Lists /\ G.head = L.head /\ G.tail = p /\ G.next = nx /\ G.prev = pv /\ G.key = L.key
      /\ G.hm = m /\ G.size = L.size /\ G.freed = L.freed
  BY <1>6, <1>7 DEF Lists
<1> HIDE DEF G
<1>9. /\ Z \in Lists /\ Z.head = L.head /\ Z.tail = p /\ Z.next = nx /\ Z.prev = pv /\ Z.key = L.key
      /\ Z.hm = m /\ Z.size = e - 1 /\ Z.freed = L.freed
  <2> DEFINE d == G.size - 1
  <2>1. d \in Int /\ d = e - 1
    BY <1>1, <1>2, <1>8
  <2> HIDE DEF d
  <2>2. /\ Z \in Lists /\ Z.head = G.head /\ Z.tail = G.tail /\ Z.next = G.next /\ Z.prev = G.prev
        /\ Z.key = G.key /\ Z.hm = G.hm /\ Z.size = d /\ Z.freed = G.freed
    BY <1>8, <2>1 DEF Lists, d
  <2> QED BY <1>8, <2>1, <2>2
<1> HIDE DEF Z
<1>10. /\ t \in Seq(Nodes) /\ Len(t) = e - 1 /\ Len(t) \in Nat /\ t # <<>>
       /\ \A i \in 1..Len(t) : i \in 1..e /\ i < e /\ t[i] = s[i]
  <2>1. /\ t \in Seq(Nodes) /\ Len(t) = e - 1 /\ Len(t) \in Nat
        /\ \A i \in 1..Len(t) : i \in 1..e /\ t[i] = s[i]
    BY <1>1, <1>2, Shorter
  <2> HIDE DEF t
  <2> QED BY <1>2, <2>1, NodesOf
<1> HIDE DEF t
<1>11. Strung(Z, t)
  <2>1. Different(t)
    BY <1>1, <1>10 DEF Strung, Different
  <2>2. Z.head = t[1] /\ Z.tail = t[Len(t)]
    BY <1>2, <1>3, <1>9, <1>10
  <2>3. ASSUME NEW i \in 1..Len(t)  PROVE Z.next[t[i]] = IF i < Len(t) THEN t[i + 1] ELSE NULL
    <3>1. i \in 1..e /\ i < e /\ t[i] = s[i] /\ s[i] \in Nodes /\ i \in Nat
      BY <1>2, <1>10
    <3>2. CASE i < Len(t)
      <4>1. i # e - 1 /\ i + 1 \in 1..Len(t) /\ t[i + 1] = s[i + 1]
        BY <1>2, <1>10, <3>1, <3>2
      <4>2. s[i] # p /\ L.next[s[i]] = s[i + 1]
        BY <1>1, <1>2, <3>1, <4>1 DEF Strung, Different
      <4> QED BY <1>5, <1>9, <3>1, <3>2, <4>1, <4>2
    <3>3. CASE ~(i < Len(t))
      <4>1. i = e - 1
        BY <1>2, <1>10, <3>1, <3>3
      <4> QED BY <1>5, <1>9, <3>1, <3>3, <4>1
    <3> QED BY <3>2, <3>3
  <2>4. ASSUME NEW i \in 1..Len(t)  PROVE Z.prev[t[i]] = IF i = 1 THEN NULL ELSE t[i - 1]
    <3>1. i \in 1..e /\ i < e /\ t[i] = s[i] /\ s[i] \in Nodes /\ i \in Nat /\ s[i] # z
      BY <1>1, <1>2, <1>10 DEF Strung, Different
    <3>2. Z.prev[t[i]] = L.prev[s[i]]
      BY <1>5, <1>9, <3>1
    <3>3. L.prev[s[i]] = IF i = 1 THEN NULL ELSE s[i - 1]
      BY <1>1, <3>1 DEF Strung
    <3>4. i # 1 => t[i - 1] = s[i - 1]
      BY <1>10, <3>1
    <3> QED BY <3>2, <3>3, <3>4
  <2> QED BY <1>10, <2>1, <2>2, <2>3, <2>4 DEF Strung
<1>12. Keyed(Z, t)
  <2>0. L.hm[L.key[z]] = z
    BY <1>1, <1>2 DEF Keyed
  <2>1. ASSUME NEW i \in 1..Len(t)  PROVE Z.key[t[i]] \in DOMAIN Z.hm /\ Z.hm[Z.key[t[i]]] = t[i]
    <3>1. i \in 1..e /\ i < e /\ t[i] = s[i] /\ s[i] # z
      BY <1>1, <1>2, <1>10 DEF Strung, Different
    <3>2. L.key[s[i]] \in DOMAIN L.hm /\ L.hm[L.key[s[i]]] = s[i]
      BY <1>1, <3>1 DEF Keyed
    <3>3. L.key[s[i]] # L.key[z]
      BY <2>0, <3>1, <3>2
    <3> QED BY <1>6, <1>9, <3>1, <3>2, <3>3
  <2>2. ASSUME NEW x \in DOMAIN Z.hm
        PROVE  Z.key[Z.hm[x]] = x /\ \E i \in 1..Len(t) : Z.hm[x] = t[i]
    <3>1. x \in DOMAIN L.hm /\ x # L.key[z] /\ Z.hm[x] = L.hm[x]
      BY <1>6, <1>9
    <3>2. PICK i \in 1..e : L.hm[x] = s[i]
      BY <1>1, <3>1 DEF Keyed
    <3>3. L.key[L.hm[x]] = x
      BY <1>1, <3>1 DEF Keyed
    <3>4. i # e
      BY <3>1, <3>2, <3>3
    <3>5. i \in 1..Len(t) /\ t[i] = s[i]
      BY <1>2, <1>10, <3>4
    <3> QED BY <1>9, <3>1, <3>2, <3>3, <3>5
  <2> QED BY <2>1, <2>2 DEF Keyed
<1>13. Holds(Z, t)
  BY <1>9, <1>10, <1>11, <1>12 DEF Holds
<1>14. /\ \A x \in Nodes : G.next[x] = L.next[x] \/ G.next[x] = NULL
       /\ G.next[z] = NULL
  BY <1>2, <1>3, <1>5, <1>8
<1> QED BY <1>4, <1>8, <1>13, <1>14 DEF Z, t, m, Evicted

\* The p-th of a list moved to the front.
ToFront(s, p) == [i \in 1..Len(s) |-> IF i = 1 THEN s[p] ELSE IF i <= p THEN s[i - 1] ELSE s[i]]

\* What move2Head does to the links of a node that is not the first.
LEMMA MoveLinks ==
    ASSUME NEW L, NEW s, Holds(L, s), NEW p \in 2..Len(s)
    PROVE  LET V == move2Head(L, s[p])
           IN  /\ V \in Lists /\ V.head = s[p] /\ V.tail = (IF p = Len(s) THEN s[p - 1] ELSE L.tail)
               /\ V.key = L.key /\ V.hm = L.hm /\ V.size = L.size /\ V.freed = L.freed
               /\ V.next[s[p]] = s[1] /\ V.next[s[p - 1]] = (IF p = Len(s) THEN NULL ELSE s[p + 1])
               /\ \A x \in Nodes : x # s[p] /\ x # s[p - 1] => V.next[x] = L.next[x]
               /\ V.prev[s[p]] = NULL /\ V.prev[s[1]] = s[p]
               /\ (p # Len(s) => V.prev[s[p + 1]] = s[p - 1])
               /\ \A x \in Nodes : x # s[p] /\ x # s[1] /\ (p # Len(s) => x # s[p + 1]) => V.prev[x] = L.prev[x]
<1> DEFINE e == Len(s)
           n == s[p]
           q == s[p - 1]
           h == s[1]
           V == move2Head(L, n)
<1>1. L \in Lists /\ Strung(L, s) /\ s \in Seq(Nodes)
  BY DEF Holds, Strung
<1>2. /\ e \in Nat /\ p \in Nat /\ p >= 2 /\ p \in 1..e /\ p - 1 \in 1..e /\ 1 \in 1..e /\ e \in 1..e /\ s # <<>>
      /\ n \in Nodes /\ q \in Nodes /\ h \in Nodes /\ n # q /\ n # h
  BY <1>1, NodesOf DEF Strung, Different
<1>3. /\ L.head = h /\ L.tail = s[e] /\ L.prev[n] = q /\ L.head # NULL /\ L.tail # NULL /\ L.head # n
      /\ (L.tail = n <=> p = e)
  BY <1>1, <1>2, CacheAssumption DEF Strung, Different
<1>4. CASE p = e
  <2> DEFINE nx == [L.next EXCEPT ![q] = NULL]
             ny == [nx EXCEPT ![n] = h]
             pv == [L.prev EXCEPT ![h] = n, ![n] = NULL]
             U == [L EXCEPT !.tail = q, !.next = nx]
             W == [U EXCEPT !.next = ny, !.head = n, !.prev = pv]
  <2>1. V = [[L EXCEPT !.tail = q, !.next[q] = NULL] EXCEPT !.next[n] = h, !.head = n,
                                        !.prev = [@ EXCEPT ![h] = n, ![n] = NULL]]
    BY <1>3, <1>4 DEF move2Head
  <2>2. /\ nx \in [Nodes -> Nodes \cup {NULL}] /\ ny \in [Nodes -> Nodes \cup {NULL}]
        /\ ny[n] = h /\ ny[q] = NULL /\ (\A x \in Nodes : x # n /\ x # q => ny[x] = L.next[x])
    BY <1>1, <1>2 DEF Lists
  <2>3. /\ pv \in [Nodes -> Nodes \cup {NULL}]
        /\ pv[n] = NULL /\ pv[h] = n /\ (\A x \in Nodes : x # n /\ x # h => pv[x] = L.prev[x])
    BY <1>1, <1>2 DEF Lists
  <2>4. U = [L EXCEPT !.tail = q, !.next[q] = NULL]
    OBVIOUS
  <2>5. U \in Lists /\ U.next = nx /\ U.prev = L.prev /\ U.tail = q /\ U.key = L.key /\ U.hm = L.hm
        /\ U.size = L.size /\ U.freed = L.freed
    <3> HIDE DEF nx
    <3> QED BY <1>1, <1>2, <2>2 DEF Lists
  <2>6. V = W
    <3>1. V = [U EXCEPT !.next[n] = h, !.head = n, !.prev = [@ EXCEPT ![h] = n, ![n] = NULL]]
      BY <2>1, <2>4
    <3> HIDE DEF U, V, nx
    <3> QED BY <2>5, <3>1
  <2> HIDE DEF U, V, nx, ny, pv
  <2>7. /\ W \in Lists /\ W.head = n /\ W.tail = q /\ W.key = L.key /\ W.hm = L.hm /\ W.size = L.size
        /\ W.freed = L.freed /\ W.next = ny /\ W.prev = pv
    BY <1>2, <2>2, <2>3, <2>5 DEF Lists
  <2> HIDE DEF W
  <2>8. /\ V \in Lists /\ V.head = n /\ V.tail = (IF p = e THEN q ELSE L.tail)
        /\ V.key = L.key /\ V.hm = L.hm /\ V.size = L.size /\ V.freed = L.freed
        /\ V.next[n] = h /\ V.next[q] = (IF p = e THEN NULL ELSE s[p + 1])
        /\ (\A x \in Nodes : x # n /\ x # q => V.next[x] = L.next[x])
        /\ V.prev[n] = NULL /\ V.prev[h] = n
        /\ (\A x \in Nodes : x # n /\ x # h => V.prev[x] = L.prev[x])
    BY <1>4, <2>2, <2>3, <2>6, <2>7
  <2> QED BY <1>4, <2>8 DEF V
<1>5. CASE p # e
  <2> DEFINE r == s[p + 1]
             nx == [L.next EXCEPT ![q] = r]
             ny == [nx EXCEPT ![n] = h]
             pu == [L.prev EXCEPT ![r] = q]
             pv == [pu EXCEPT ![h] = n, ![n] = NULL]
             U == [L EXCEPT !.next = nx, !.prev = pu]
             W == [U EXCEPT !.next = ny, !.head = n, !.prev = pv]
  <2>0. /\ p + 1 \in 1..e /\ p < e /\ r \in Nodes /\ L.next[n] = r /\ r # n /\ r # q /\ r # h
    <3>1. p + 1 \in 1..e /\ p < e
      BY <1>2, <1>5
    <3> QED BY <1>1, <1>2, <3>1 DEF Strung, Different
  <2> HIDE DEF r
  <2>1. V = [[L EXCEPT !.next[q] = r, !.prev[r] = q] EXCEPT !.next[n] = h, !.head = n,
                                        !.prev = [@ EXCEPT ![h] = n, ![n] = NULL]]
    BY <1>3, <1>5, <2>0 DEF move2Head
  <2>2. /\ nx \in [Nodes -> Nodes \cup {NULL}] /\ ny \in [Nodes -> Nodes \cup {NULL}]
        /\ ny[n] = h /\ ny[q] = r /\ (\A x \in Nodes : x # n /\ x # q => ny[x] = L.next[x])
    BY <1>1, <1>2, <2>0 DEF Lists
  <2>3. /\ pu \in [Nodes -> Nodes \cup {NULL}] /\ pv \in [Nodes -> Nodes \cup {NULL}]
        /\ pv[n] = NULL /\ pv[h] = n /\ pv[r] = q
        /\ (\A x \in Nodes : x # n /\ x # h /\ x # r => pv[x] = L.prev[x])
    BY <1>1, <1>2, <2>0 DEF Lists
  <2>4. U = [L EXCEPT !.next[q] = r, !.prev[r] = q]
    OBVIOUS
  <2>5. U \in Lists /\ U.next = nx /\ U.prev = pu /\ U.tail = L.tail /\ U.key = L.key /\ U.hm = L.hm
        /\ U.size = L.size /\ U.freed = L.freed
    <3> HIDE DEF nx, pu
    <3> QED BY <1>1, <1>2, <2>2, <2>3 DEF Lists
  <2>6. V = W
    <3>1. V = [U EXCEPT !.next[n] = h, !.head = n, !.prev = [@ EXCEPT ![h] = n, ![n] = NULL]]
      BY <2>1, <2>4
    <3> HIDE DEF U, V, nx, pu
    <3> QED BY <2>5, <3>1
  <2> HIDE DEF U, V, nx, ny, pu, pv
  <2>7. /\ W \in Lists /\ W.head = n /\ W.tail = L.tail /\ W.key = L.key /\ W.hm = L.hm /\ W.size = L.size
        /\ W.freed = L.freed /\ W.next = ny /\ W.prev = pv
    BY <1>2, <2>2, <2>3, <2>5 DEF Lists
  <2> HIDE DEF W
  <2>8. /\ V \in Lists /\ V.head = n /\ V.tail = (IF p = e THEN q ELSE L.tail)
        /\ V.key = L.key /\ V.hm = L.hm /\ V.size = L.size /\ V.freed = L.freed
        /\ V.next[n] = h /\ V.next[q] = (IF p = e THEN NULL ELSE r)
        /\ (\A x \in Nodes : x # n /\ x # q => V.next[x] = L.next[x])
        /\ V.prev[n] = NULL /\ V.prev[h] = n /\ V.prev[r] = q
        /\ (\A x \in Nodes : x # n /\ x # h /\ x # r => V.prev[x] = L.prev[x])
    BY <1>5, <2>2, <2>3, <2>6, <2>7
  <2> QED BY <1>5, <2>8 DEF V, r
<1> QED BY <1>4, <1>5

\* The elements of a list of which one has moved.
LEMMA FrontIs ==
    ASSUME NEW S, NEW s \in Seq(S), NEW p \in 1..Len(s)
    PROVE  LET t == ToFront(s, p)
           IN  /\ t \in Seq(S) /\ Len(t) = Len(s) /\ t[1] = s[p]
               /\ \A i \in 2..Len(s) : i <= p => t[i] = s[i - 1] /\ i - 1 \in 1..Len(s)
               /\ \A i \in 1..Len(s) : i > p => t[i] = s[i]
               /\ \A j \in 1..Len(s) : \E i \in 1..Len(s) : t[i] = s[j]
<1> DEFINE t == ToFront(s, p)
<1>1. Len(s) \in Nat /\ p \in Nat /\ 1 \in 1..Len(s) /\ \A i \in 1..Len(s) : i \in Nat /\ s[i] \in S
  OBVIOUS
<1>2. \A i \in 2..Len(s) : i <= p => i - 1 \in 1..Len(s)
  BY <1>1
<1>3. t \in Seq(S) /\ Len(t) = Len(s)
  <2>1. \A i \in 1..Len(s) : (IF i = 1 THEN s[p] ELSE IF i <= p THEN s[i - 1] ELSE s[i]) \in S
    BY <1>1, <1>2
  <2> QED BY <1>1, <2>1 DEF ToFront
<1>4. \A i \in 1..Len(s) : t[i] = IF i = 1 THEN s[p] ELSE IF i <= p THEN s[i - 1] ELSE s[i]
  BY DEF ToFront
<1> HIDE DEF t
<1>5. ASSUME NEW j \in 1..Len(s)  PROVE \E i \in 1..Len(s) : t[i] = s[j]
  <2>1. CASE j = p
    BY <1>1, <1>4, <2>1
  <2>2. CASE j < p
    <3>1. j + 1 \in 1..Len(s) /\ j + 1 # 1 /\ j + 1 <= p /\ (j + 1) - 1 = j
      BY <1>1, <2>2
    <3> QED BY <1>4, <3>1
  <2>3. CASE j > p
    <3>1. j # 1 /\ ~(j <= p)
      BY <1>1, <2>3
    <3> QED BY <1>4, <3>1
  <2> QED BY <1>1, <2>1, <2>2, <2>3
<1>6. /\ t[1] = s[p]
      /\ \A i \in 2..Len(s) : i <= p => t[i] = s[i - 1] /\ i - 1 \in 1..Len(s)
      /\ \A i \in 1..Len(s) : i > p => t[i] = s[i]
  BY <1>1, <1>2, <1>4
<1> QED BY <1>3, <1>5, <1>6 DEF t

\* move2Head.
LEMMA MoveHolds ==
    ASSUME NEW L, NEW s, Holds(L, s), NEW p \in 1..Len(s)
    PROVE  LET V == move2Head(L, s[p])
           IN  /\ Holds(V, ToFront(s, p)) /\ V.key = L.key /\ V.hm = L.hm /\ V.freed = L.freed
               /\ \A x \in Nodes : (\A i \in 1..Len(s) : x # s[i]) => V.next[x] = L.next[x]
<1> DEFINE e == Len(s)
           V == move2Head(L, s[p])
           t == ToFront(s, p)
<1>1. L \in Lists /\ Strung(L, s) /\ Keyed(L, s) /\ L.size = e /\ s \in Seq(Nodes)
  BY DEF Holds, Strung
<1>2. /\ e \in Nat /\ p \in Nat /\ 1 \in 1..e /\ e \in 1..e /\ s # <<>>
      /\ \A i \in 1..e : i \in Nat /\ s[i] \in Nodes
  BY <1>1, NodesOf
<1>3. /\ t \in Seq(Nodes) /\ Len(t) = e /\ t[1] = s[p]
      /\ (\A i \in 2..e : i <= p => t[i] = s[i - 1] /\ i - 1 \in 1..e)
      /\ (\A i \in 1..e : i > p => t[i] = s[i])
      /\ (\A j \in 1..e : \E i \in 1..e : t[i] = s[j])
  BY <1>1, FrontIs
<1> HIDE DEF t
<1>4. CASE p = 1
  <2>1. V = L
    BY <1>1, <1>2, <1>4 DEF move2Head, Strung
  <2>2. \A i \in 1..e : t[i] = s[i]
    BY <1>2, <1>3, <1>4
  <2>3. t = s
    BY <1>1, <1>3, <2>2, SeqEqual
  <2> QED BY <2>1, <2>3 DEF t
<1>5. CASE p # 1
  <2>0. p \in 2..e
    BY <1>2, <1>5
  <2>1. /\ V \in Lists /\ V.head = s[p] /\ V.tail = (IF p = e THEN s[p - 1] ELSE L.tail)
        /\ V.key = L.key /\ V.hm = L.hm /\ V.size = L.size /\ V.freed = L.freed
        /\ V.next[s[p]] = s[1] /\ V.next[s[p - 1]] = (IF p = e THEN NULL ELSE s[p + 1])
        /\ (\A x \in Nodes : x # s[p] /\ x # s[p - 1] => V.next[x] = L.next[x])
        /\ V.prev[s[p]] = NULL /\ V.prev[s[1]] = s[p]
        /\ (p # e => V.prev[s[p + 1]] = s[p - 1])
        /\ (\A x \in Nodes : x # s[p] /\ x # s[1] /\ (p # e => x # s[p + 1]) => V.prev[x] = L.prev[x])
    BY <2>0, MoveLinks
  <2> HIDE DEF V
  <2>2. p - 1 \in 1..e /\ e >= 2 /\ 2 \in 2..e
    BY <1>2, <2>0
  <2>3. \A i, j \in 1..e : s[i] = s[j] => i = j
    BY <1>1 DEF Strung, Different
  <2>4. Different(t)
    <3> SUFFICES ASSUME NEW i \in 1..e, NEW j \in 1..e, t[i] = t[j], i < j PROVE FALSE
      <4>1. \A i, j \in 1..e : i = j \/ i < j \/ j < i
        BY <1>2
      <4> QED BY <1>3, <4>1 DEF Different
    <3>0. j \in 2..e
      BY <1>2
    <3>1. CASE i = 1 /\ j <= p
      <4>1. s[j - 1] = s[p] /\ j - 1 \in 1..e /\ j - 1 # p
        BY <1>2, <1>3, <3>0, <3>1
      <4> QED BY <2>3, <4>1
    <3>2. CASE i = 1 /\ j > p
      <4>1. s[j] = s[p] /\ j # p
        BY <1>2, <1>3, <3>2
      <4> QED BY <2>3, <4>1
    <3>3. CASE i # 1 /\ j <= p
      <4>1. i \in 2..e /\ i <= p
        BY <1>2, <3>3
      <4>2. s[i - 1] = s[j - 1] /\ i - 1 \in 1..e /\ j - 1 \in 1..e /\ i - 1 # j - 1
        BY <1>2, <1>3, <3>0, <3>3, <4>1
      <4> QED BY <2>3, <4>2
    <3>4. CASE i # 1 /\ i <= p /\ j > p
      <4>1. i \in 2..e
        BY <1>2, <3>4
      <4>2. s[i - 1] = s[j] /\ i - 1 \in 1..e /\ i - 1 # j
        BY <1>2, <1>3, <3>4, <4>1
      <4> QED BY <2>3, <4>2
    <3>5. CASE i > p
      <4>1. j > p /\ s[i] = s[j] /\ i # j
        BY <1>2, <1>3, <3>5
      <4> QED BY <2>3, <4>1
    <3> QED BY <1>2, <3>1, <3>2, <3>3, <3>4, <3>5
  <2>5. V.head = t[1] /\ V.tail = t[Len(t)] /\ t # <<>>
    <3>1. CASE p = e
      BY <1>2, <1>3, <2>0, <2>1, <2>2, <3>1
    <3>2. CASE p # e
      <4>1. e > p /\ L.tail = s[e]
        BY <1>1, <1>2, <3>2 DEF Strung
      <4> QED BY <1>2, <1>3, <2>1, <2>2, <3>2, <4>1
    <3> QED BY <3>1, <3>2
  <2>6. ASSUME NEW i \in 1..e  PROVE V.next[t[i]] = IF i < e THEN t[i + 1] ELSE NULL
    <3>1. CASE i = 1
      <4>1. t[2] = s[1] /\ 1 < e
        BY <1>2, <1>3, <2>0, <2>2
      <4>2. t[i] = s[p] /\ t[i + 1] = s[1] /\ i < e
        BY <1>3, <3>1, <4>1
      <4> QED BY <2>1, <4>2
    <3>2. CASE i # 1 /\ i < p
      <4>1. i \in 2..e /\ i + 1 \in 2..e /\ i - 1 \in 1..e /\ i < e /\ i - 1 < e
        BY <1>2, <3>2
      <4>2. t[i] = s[i - 1] /\ t[i + 1] = s[i]
        BY <1>2, <1>3, <3>2, <4>1
      <4>3. s[i - 1] # s[p] /\ s[i - 1] # s[p - 1] /\ s[i - 1] \in Nodes
        BY <1>2, <2>2, <2>3, <3>2, <4>1
      <4>4. L.next[s[i - 1]] = s[i]
        <5>1. L.next[s[i - 1]] = IF i - 1 < Len(s) THEN s[(i - 1) + 1] ELSE NULL
          BY <1>1, <4>1 DEF Strung
        <5>2. (i - 1) + 1 = i
          BY <1>2
        <5> QED BY <4>1, <5>1, <5>2
      <4> QED BY <2>1, <4>1, <4>2, <4>3, <4>4
    <3>3. CASE i = p
      <4>0. p <= p /\ (p # e => p + 1 \in 1..e /\ p + 1 > p /\ p < e) /\ ~(p < p) /\ (p = e => ~(p < e))
        BY <1>2
      <4>1. t[i] = s[p - 1]
        BY <1>3, <2>0, <3>3, <4>0
      <4>2. p # e => t[p + 1] = s[p + 1] /\ p < e
        BY <1>3, <4>0
      <4> QED BY <1>2, <2>1, <3>3, <4>1, <4>2
    <3>4. CASE i > p
      <4>0. i # p /\ i # p - 1 /\ (i < e => i + 1 \in 1..e /\ i + 1 > p)
        BY <1>2, <3>4
      <4>1. t[i] = s[i] /\ s[i] # s[p] /\ s[i] # s[p - 1] /\ s[i] \in Nodes
        <5>1. t[i] = s[i] /\ s[i] \in Nodes
          BY <1>2, <1>3, <3>4
        <5> QED BY <2>2, <2>3, <4>0, <5>1
      <4>2. L.next[s[i]] = IF i < e THEN s[i + 1] ELSE NULL
        BY <1>1 DEF Strung
      <4>3. i < e => t[i + 1] = s[i + 1]
        BY <1>3, <4>0
      <4> QED BY <2>1, <4>1, <4>2, <4>3
    <3> QED BY <1>2, <3>1, <3>2, <3>3, <3>4
  <2>7. ASSUME NEW i \in 1..e  PROVE V.prev[t[i]] = IF i = 1 THEN NULL ELSE t[i - 1]
    <3>1. CASE i = 1
      BY <1>3, <2>1, <3>1
    <3>2. CASE i = 2
      <4>1. 2 <= p /\ 2 - 1 = 1 /\ i # 1
        BY <1>2, <2>0, <3>2
      <4>2. t[2] = s[1]
        BY <1>3, <2>2, <4>1
      <4> QED BY <1>3, <2>1, <3>2, <4>1, <4>2
    <3>3. CASE i > 2 /\ i <= p
      <4>1. i \in 2..e /\ i - 1 \in 2..e /\ i - 1 \in 1..e /\ i - 1 # 1 /\ i - 1 <= p /\ i - 1 - 1 = i - 2
        BY <1>2, <3>3
      <4>2. t[i] = s[i - 1] /\ t[i - 1] = s[i - 2]
        <5>1. t[i] = s[i - 1]
          BY <1>3, <3>3, <4>1
        <5>2. t[i - 1] = s[i - 1 - 1]
          BY <1>3, <4>1
        <5> QED BY <4>1, <5>1, <5>2
      <4>3. s[i - 1] # s[p] /\ s[i - 1] # s[1] /\ s[i - 1] \in Nodes
        BY <1>2, <2>3, <3>3, <4>1
      <4>4. p # e => s[i - 1] # s[p + 1]
        <5>1. p # e => p + 1 \in 1..e /\ i - 1 # p + 1
          BY <1>2, <3>3
        <5> QED BY <2>3, <4>1, <5>1
      <4>5. L.prev[s[i - 1]] = s[i - 2]
        BY <1>1, <4>1 DEF Strung
      <4> QED BY <2>1, <3>3, <4>2, <4>3, <4>4, <4>5
    <3>4. CASE i = p + 1
      <4>1. t[i] = s[p + 1] /\ t[p] = s[p - 1] /\ p # e /\ i # 1 /\ i - 1 = p
        BY <1>2, <1>3, <2>0, <3>4
      <4> QED BY <2>1, <4>1
    <3>5. CASE i > p + 1
      <4>1. i - 1 \in 1..e /\ i - 1 > p /\ i > p /\ i # 1
        BY <1>2, <3>5
      <4>2. t[i] = s[i] /\ t[i - 1] = s[i - 1]
        BY <1>3, <4>1
      <4>3. s[i] # s[p] /\ s[i] # s[1] /\ s[i] \in Nodes
        BY <1>2, <2>3, <4>1
      <4>4. p # e => s[i] # s[p + 1]
        <5>1. p # e => p + 1 \in 1..e /\ i # p + 1
          BY <1>2, <3>5
        <5> QED BY <2>3, <5>1
      <4>5. L.prev[s[i]] = s[i - 1]
        BY <1>1, <4>1 DEF Strung
      <4> QED BY <2>1, <4>1, <4>2, <4>3, <4>4, <4>5
    <3> QED BY <1>2, <2>0, <3>1, <3>2, <3>3, <3>4, <3>5
  <2>8. Strung(V, t)
    BY <1>3, <2>4, <2>5, <2>6, <2>7 DEF Strung
  <2>9. Keyed(V, t)
    <3>1. ASSUME NEW i \in 1..e  PROVE \E j \in 1..e : t[i] = s[j]
      <4>1. CASE i = 1
        BY <1>3, <4>1
      <4>2. CASE i # 1 /\ i <= p
        <5>1. i \in 2..e
          BY <1>2, <4>2
        <5> QED BY <1>3, <4>2, <5>1
      <4>3. CASE i > p
        BY <1>3, <4>3
      <4> QED BY <1>2, <4>1, <4>2, <4>3
    <3>2. ASSUME NEW k \in DOMAIN L.hm  PROVE \E i \in 1..e : L.hm[k] = t[i]
      <4>1. PICK j \in 1..e : L.hm[k] = s[j]
        BY <1>1 DEF Keyed
      <4> QED BY <1>3, <4>1
    <3>3. \A j \in 1..e : L.key[s[j]] \in DOMAIN L.hm /\ L.hm[L.key[s[j]]] = s[j]
      BY <1>1 DEF Keyed
    <3>4. \A k \in DOMAIN L.hm : L.key[L.hm[k]] = k
      BY <1>1 DEF Keyed
    <3>5. ASSUME NEW i \in 1..e  PROVE L.key[t[i]] \in DOMAIN L.hm /\ L.hm[L.key[t[i]]] = t[i]
      <4>1. PICK j \in 1..e : t[i] = s[j]
        BY <3>1
      <4>2. L.key[s[j]] \in DOMAIN L.hm /\ L.hm[L.key[s[j]]] = s[j]
        BY <3>3
      <4> QED BY <4>1, <4>2
    <3>6. V.key = L.key /\ V.hm = L.hm /\ Len(t) = e
      BY <1>3, <2>1
    <3> HIDE DEF V
    <3> QED BY <3>2, <3>4, <3>5, <3>6 DEF Keyed
  <2>10. Holds(V, t)
    BY <1>1, <1>3, <2>1, <2>8, <2>9 DEF Holds
  <2>11. \A x \in Nodes : (\A i \in 1..e : x # s[i]) => V.next[x] = L.next[x]
    BY <2>1, <2>2
  <2> QED BY <2>1, <2>10, <2>11 DEF V, t
<1> QED BY <1>4, <1>5

Further(first, link, s, i) ==
    LET n == IF i = 1 THEN first
             ELSE IF Len(s) < i - 1 THEN NULL ELSE link[s[i - 1]]
    IN  IF n = NULL THEN s ELSE Append(s, n)

\* The walk of Follow along a chain of links visits the nodes of the chain: by
\* induction, as a least step at which the two differ.
LEMMA FollowIs ==
    ASSUME NEW first, NEW link, NEW s \in Seq(Nodes), Len(s) <= Capacity,
           s = <<>> => first = NULL,
           s # <<>> => first = s[1],
           \A i \in 1..Len(s) : link[s[i]] = IF i < Len(s) THEN s[i + 1] ELSE NULL
    PROVE  Follow(first, link) = s
<1> DEFINE I == 0..(Capacity + 1)
           Walk(f) == [i \in I |-> IF i = 0 THEN <<>> ELSE Further(first, link, f[i - 1], i)]
           f == CHOOSE g : g = Walk(g)
           upto == [i \in I |-> SubSeq(s, 1, IF i < Len(s) THEN i ELSE Len(s))]
<1>1. Follow(first, link) = f[Capacity + 1]
  BY DEF Follow, Further
<1>0. Capacity \in Nat /\ Len(s) \in Nat /\ \A i \in I : i \in Nat
  BY CacheAssumption
<1>2. \A i \in I : /\ upto[i] \in Seq(Nodes) /\ Len(upto[i]) = IF i < Len(s) THEN i ELSE Len(s)
                   /\ \A j \in 1..Len(upto[i]) : j \in 1..Len(s) /\ upto[i][j] = s[j]
  <2> TAKE i \in I
  <2> DEFINE m == IF i < Len(s) THEN i ELSE Len(s)
  <2>1. m \in 0..Len(s) /\ m \in Int
    BY <1>0
  <2>2. upto[i] = SubSeq(s, 1, m)
    OBVIOUS
  <2> HIDE DEF m, upto
  <2>3. SubSeq(s, 1, m) \in Seq(Nodes) /\ Len(SubSeq(s, 1, m)) = m /\ \A j \in 1..m : SubSeq(s, 1, m)[j] = s[j]
    BY <2>1, <1>0
  <2> QED BY <1>0, <2>1, <2>2, <2>3 DEF m
<1>3. ASSUME NEW i \in I, i # 0
      PROVE  upto[i] = Further(first, link, upto[i - 1], i)
  <2>0. i \in Nat /\ i >= 1 /\ i - 1 \in I
    BY <1>0, <1>3
  <2> DEFINE u == upto[i - 1]
             v == upto[i]
             n == IF i = 1 THEN first ELSE IF Len(u) < i - 1 THEN NULL ELSE link[u[i - 1]]
  <2>1. /\ u \in Seq(Nodes) /\ v \in Seq(Nodes)
        /\ Len(u) = (IF i - 1 < Len(s) THEN i - 1 ELSE Len(s)) /\ Len(v) = (IF i < Len(s) THEN i ELSE Len(s))
        /\ (\A j \in 1..Len(u) : j \in 1..Len(s) /\ u[j] = s[j])
        /\ (\A j \in 1..Len(v) : j \in 1..Len(s) /\ v[j] = s[j])
    BY <1>2, <2>0
  <2> HIDE DEF upto, u, v
  <2>2. CASE i <= Len(s)
    <3>1. Len(u) = i - 1 /\ Len(v) = i /\ i \in 1..Len(s) /\ s # <<>>
      BY <1>0, <2>0, <2>1, <2>2
    <3>2. n = s[i] /\ s[i] \in Nodes /\ n # NULL
      <4>1. CASE i = 1
        BY <3>1, <4>1, CacheAssumption
      <4>2. CASE i # 1
        <5>1. i - 1 \in 1..Len(u) /\ i - 1 \in 1..Len(s) /\ i - 1 < Len(s) /\ (i - 1) + 1 = i
          BY <1>0, <2>0, <2>2, <3>1, <4>2
        <5>2. link[u[i - 1]] = s[i]
          BY <2>1, <5>1
        <5> QED BY <3>1, <4>2, <5>1, <5>2, CacheAssumption
      <4> QED BY <4>1, <4>2
    <3>3. v = Append(u, s[i])
      <4>1. Append(u, s[i]) \in Seq(Nodes) /\ Len(Append(u, s[i])) = i
        BY <2>1, <3>1, <3>2
      <4>2. ASSUME NEW j \in 1..i  PROVE Append(u, s[i])[j] = v[j]
        BY <2>0, <2>1, <3>1, <3>2
      <4> QED BY <2>1, <3>1, <4>1, <4>2, SeqEqual
    <3> QED BY <3>2, <3>3 DEF Further, u, v
  <2>3. CASE i > Len(s)
    <3>1. Len(u) = Len(s) /\ Len(v) = Len(s)
      BY <1>0, <2>0, <2>1, <2>3
    <3>2. n = NULL
      <4>1. CASE i = 1
        BY <1>0, <2>3, <4>1
      <4>2. CASE i # 1 /\ i - 1 > Len(s)
        BY <3>1, <4>2
      <4>3. CASE i # 1 /\ i - 1 <= Len(s)
        <5>1. i - 1 = Len(s) /\ i - 1 \in 1..Len(s)
          BY <1>0, <2>0, <2>3, <4>3
        <5>2. u[i - 1] = s[i - 1] /\ link[s[i - 1]] = NULL
          BY <2>1, <3>1, <5>1
        <5> QED BY <3>1, <4>3, <5>1, <5>2
      <4> QED BY <1>0, <2>0, <4>1, <4>2, <4>3
    <3>3. v = u
      BY <2>1, <3>1, SeqEqual
    <3> QED BY <3>2, <3>3 DEF Further, u, v
  <2> QED BY <1>0, <2>0, <2>2, <2>3
<1>4. upto[0] = <<>> /\ 0 \in I /\ Capacity + 1 \in I
  <2>1. 0 \in I /\ Capacity + 1 \in I
    BY <1>0
  <2>2. Len(upto[0]) = 0 /\ upto[0] \in Seq(Nodes)
    BY <1>0, <1>2, <2>1
  <2> HIDE DEF upto
  <2> QED BY <2>1, <2>2
<1>5. upto = Walk(upto)
  <2>1. \A i \in I : upto[i] = IF i = 0 THEN <<>> ELSE Further(first, link, upto[i - 1], i)
    BY <1>3, <1>4
  <2>2. upto = [i \in I |-> upto[i]]
    OBVIOUS
  <2> HIDE DEF upto
  <2> QED BY <2>1, <2>2
<1>6. f = Walk(f)
  <2> HIDE DEF upto
  <2> QED BY <1>5
<1>7. \A i \in I : f[i] = upto[i]
  <2> HIDE DEF f, upto
  <2> DEFINE D == {i \in I : f[i] # upto[i]}
  <2> SUFFICES ASSUME D # {} PROVE FALSE
    OBVIOUS
  <2>1. PICK i \in D : \A j \in D : ~(<<j, i>> \in OpToRel(<, Nat))
    <3>1. D \in SUBSET Nat
      BY <1>0
    <3> HIDE DEF D
    <3> QED BY <3>1, NatLessThanWellFounded, WFMin
  <2>2. i \in I /\ i \in Nat /\ f[i] # upto[i]
    BY <1>0
  <2>3. i # 0
    BY <1>4, <1>6, <2>2
  <2>4. i - 1 \in I /\ i - 1 \in Nat /\ i - 1 < i
    BY <1>0, <2>2, <2>3
  <2>5. i - 1 \notin D
    BY <2>1, <2>2, <2>4 DEF OpToRel
  <2>6. f[i - 1] = upto[i - 1]
    BY <2>4, <2>5
  <2>7. f[i] = Further(first, link, f[i - 1], i)
    BY <1>6, <2>2, <2>3
  <2>8. upto[i] = Further(first, link, upto[i - 1], i)
    BY <1>3, <2>2, <2>3
  <2> QED BY <2>2, <2>6, <2>7, <2>8
<1>8. upto[Capacity + 1] = s
  <2>1. /\ upto[Capacity + 1] \in Seq(Nodes) /\ Len(upto[Capacity + 1]) = Len(s)
        /\ \A j \in 1..Len(s) : upto[Capacity + 1][j] = s[j]
    BY <1>0, <1>2, <1>4
  <2> HIDE DEF upto
  <2> QED BY <2>1, SeqEqual
<1> QED BY <1>1, <1>4, <1>7, <1>8

\* The first n numbers.
LEMMA UpTo ==
    ASSUME NEW n \in Nat
    PROVE  IsFiniteSet(1..n) /\ Cardinality(1..n) = n
<1>1. IsFiniteSet(1..n) /\ Cardinality(1..n) = IF 1 > n THEN 0 ELSE n - 1 + 1
  BY FS_Interval
<1> QED BY <1>1

\* The ids of a list.
IdsOf(L, s) == [i \in 1..Len(s) |-> L.key[s[i]]]

\* They are the ids of the map, and as many.
LEMMA IdsAre ==
    ASSUME NEW L, NEW s, Holds(L, s)
    PROVE  LET d == IdsOf(L, s)
           IN  /\ d \in Seq(Keys) /\ Len(d) = Len(s) /\ Different(d) /\ Lru!Cached(d) = DOMAIN L.hm
               /\ \A i \in 1..Len(s) : d[i] = L.key[s[i]]
               /\ IsFiniteSet(DOMAIN L.hm) /\ Cardinality(DOMAIN L.hm) = Len(s)
<1> DEFINE d == IdsOf(L, s)
           K == DOMAIN L.hm
<1>1. L \in Lists /\ Strung(L, s) /\ Keyed(L, s) /\ s \in Seq(Nodes) /\ Len(s) \in Nat
  BY DEF Holds, Strung
<1>2. K \subseteq Keys
  <2> DEFINE m == L.hm
  <2>1. m \in Maps
    BY <1>1 DEF Lists
  <2> HIDE DEF m
  <2>2. DOMAIN m \subseteq Keys
    BY <2>1, MapIs
  <2> QED BY <2>2 DEF m
<1>3. \A i \in 1..Len(s) : L.key[s[i]] \in K /\ L.hm[L.key[s[i]]] = s[i]
  BY <1>1 DEF Keyed
<1>4. /\ d \in [1..Len(s) -> K] /\ d \in Seq(Keys) /\ Len(d) = Len(s)
      /\ \A i \in 1..Len(s) : d[i] = L.key[s[i]]
  BY <1>1, <1>2, <1>3 DEF IdsOf
<1> HIDE DEF d
<1>5. \A k \in K : \E i \in 1..Len(s) : d[i] = k
  <2> TAKE k \in K
  <2>1. PICK i \in 1..Len(s) : L.hm[k] = s[i]
    BY <1>1 DEF Keyed
  <2>2. L.key[L.hm[k]] = k
    BY <1>1 DEF Keyed
  <2> QED BY <1>4, <2>1, <2>2
<1>6. ASSUME NEW i \in 1..Len(s), NEW j \in 1..Len(s), d[i] = d[j]  PROVE i = j
  <2>1. s[i] = s[j]
    BY <1>3, <1>4, <1>6
  <2> QED BY <1>1, <2>1 DEF Strung, Different
<1> HIDE DEF K
<1>7. Different(d) /\ Lru!Cached(d) = K
  BY <1>4, <1>5, <1>6 DEF Different, Lru!Cached
<1>8. d \in Surjection(1..Len(s), K) /\ d \in Injection(1..Len(s), K)
  BY <1>4, <1>5, <1>6 DEF Surjection, Injection, IsInjective
<1>9. IsFiniteSet(1..Len(s)) /\ Cardinality(1..Len(s)) = Len(s)
  BY <1>1, UpTo
<1>10. IsFiniteSet(K) /\ Cardinality(K) = Len(s)
  BY <1>8, <1>9, FS_Surjection
<1> QED BY <1>4, <1>7, <1>10 DEF d, K

\* The ids after a push, an eviction and a move.
LEMMA PushIds ==
    ASSUME NEW L, NEW s, Holds(L, s), NEW n \in Nodes, NEW k \in Keys,
           k \notin DOMAIN L.hm, Free(s, n)
    PROVE  IdsOf(Pushed(L, k, n), <<n>> \o s) = <<k>> \o IdsOf(L, s)
<1> DEFINE P == Pushed(L, k, n)
           t == <<n>> \o s
           d == IdsOf(L, s)
           b == IdsOf(P, t)
           c == <<k>> \o d
<1>1. Holds(P, t) /\ P.key = [L.key EXCEPT ![n] = k]
  BY PushHolds
<1> USE DEF Free
<1> HIDE DEF P
<1>2. L \in Lists /\ s \in Seq(Nodes)
  BY DEF Holds, Strung
<1>3. /\ t \in Seq(Nodes) /\ Len(t) = Len(s) + 1 /\ t[1] = n /\ Len(s) \in Nat
      /\ \A i \in 2..(Len(s) + 1) : t[i] = s[i - 1]
      /\ \A i \in 1..(Len(s) + 1) : i = 1 \/ (i \in 2..(Len(s) + 1) /\ i - 1 \in 1..Len(s))
  BY <1>2, InFront
<1> HIDE DEF t
<1>4. d \in Seq(Keys) /\ Len(d) = Len(s) /\ \A i \in 1..Len(s) : d[i] = L.key[s[i]]
  BY IdsAre
<1>5. b \in Seq(Keys) /\ Len(b) = Len(t) /\ \A i \in 1..Len(t) : b[i] = P.key[t[i]]
  <2>1. Holds(P, t)
    BY <1>1
  <2> QED BY <2>1, IdsAre
<1> HIDE DEF d, b
<1>6. c \in Seq(Keys) /\ Len(c) = Len(d) + 1 /\ c[1] = k /\ \A i \in 2..(Len(d) + 1) : c[i] = d[i - 1]
  BY <1>4
<1> HIDE DEF c
<1>7. ASSUME NEW i \in 1..Len(b)  PROVE b[i] = c[i]
  <2>0. i \in 1..(Len(s) + 1)
    BY <1>3, <1>5
  <2>1. CASE i = 1
    BY <1>1, <1>2, <1>3, <1>5, <1>6, <2>0, <2>1 DEF Lists
  <2>2. CASE i # 1
    <3> DEFINE j == i - 1
    <3>1. i \in 2..(Len(s) + 1) /\ j \in 1..Len(s) /\ t[i] = s[j]
      BY <1>3, <2>0, <2>2
    <3>2. c[i] = L.key[s[j]] /\ b[i] = P.key[s[j]] /\ s[j] # n /\ s[j] \in Nodes
      BY <1>2, <1>3, <1>4, <1>5, <1>6, <3>1
    <3> QED BY <1>1, <1>2, <3>2 DEF Lists
  <2> QED BY <2>1, <2>2
<1>8. b = c
  <2>1. Len(b) = Len(c)
    BY <1>3, <1>4, <1>5, <1>6
  <2> QED BY <1>5, <1>6, <1>7, <2>1, SeqEqual
<1> QED BY <1>8 DEF b, c, d, t, P

\* The ids without the last.
LEMMA EvictIds ==
    ASSUME NEW L, NEW s, Holds(L, s), Len(s) >= 1, NEW Z, Z.key = L.key,
           Holds(Z, SubSeq(s, 1, Len(s) - 1))
    PROVE  IdsOf(Z, SubSeq(s, 1, Len(s) - 1)) = Lru!Evict(IdsOf(L, s))
<1> DEFINE t == SubSeq(s, 1, Len(s) - 1)
           d == IdsOf(L, s)
           b == IdsOf(Z, t)
           c == SubSeq(d, 1, Len(d) - 1)
<1>1. s \in Seq(Nodes) /\ Len(s) \in Nat
  BY DEF Holds, Strung
<1>2. t \in Seq(Nodes) /\ Len(t) = Len(s) - 1 /\ \A i \in 1..Len(t) : i \in 1..Len(s) /\ t[i] = s[i]
  BY <1>1, Shorter
<1>0. Holds(Z, t)
  OBVIOUS
<1> HIDE DEF t
<1>3. d \in Seq(Keys) /\ Len(d) = Len(s) /\ \A i \in 1..Len(s) : d[i] = L.key[s[i]]
  BY IdsAre
<1>4. b \in Seq(Keys) /\ Len(b) = Len(t) /\ \A i \in 1..Len(t) : b[i] = Z.key[t[i]]
  BY <1>0, IdsAre
<1> HIDE DEF d, b
<1>5. c \in Seq(Keys) /\ Len(c) = Len(d) - 1 /\ \A i \in 1..Len(c) : i \in 1..Len(d) /\ c[i] = d[i]
  BY <1>3, Shorter
<1>6. Lru!Evict(d) = c
  <2>1. d # <<>>
    BY <1>1, <1>3
  <2> QED BY <2>1 DEF Lru!Evict
<1> HIDE DEF c
<1>7. ASSUME NEW i \in 1..Len(b)  PROVE b[i] = c[i]
  <2>1. i \in 1..Len(t) /\ i \in 1..Len(s) /\ i \in 1..Len(c)
    BY <1>1, <1>2, <1>3, <1>4, <1>5
  <2>2. b[i] = L.key[s[i]]
    BY <1>2, <1>4, <2>1
  <2>3. c[i] = L.key[s[i]]
    BY <1>3, <1>5, <2>1
  <2> QED BY <2>2, <2>3
<1>8. b = c
  <2>1. Len(b) = Len(c)
    BY <1>2, <1>3, <1>4, <1>5
  <2> QED BY <1>4, <1>5, <1>7, <2>1, SeqEqual
<1> QED BY <1>6, <1>8 DEF b, d, t

\* The ids with one moved to the front.
LEMMA MoveIds ==
    ASSUME NEW L, NEW s, Holds(L, s), NEW p \in 1..Len(s)
    PROVE  IdsOf(move2Head(L, s[p]), ToFront(s, p)) = Lru!Touch(IdsOf(L, s), L.key[s[p]])
<1> DEFINE V == move2Head(L, s[p])
           t == ToFront(s, p)
           d == IdsOf(L, s)
           b == IdsOf(V, t)
           k == L.key[s[p]]
           c == [i \in 1..Len(d) |-> IF i = 1 THEN k ELSE IF i <= p THEN d[i - 1] ELSE d[i]]
<1>1. Holds(V, t) /\ V.key = L.key
  BY MoveHolds
<1> HIDE DEF V
<1>2. s \in Seq(Nodes) /\ Len(s) \in Nat /\ p \in Nat
  BY DEF Holds, Strung
<1>3. /\ t \in Seq(Nodes) /\ Len(t) = Len(s) /\ t[1] = s[p]
      /\ (\A i \in 2..Len(s) : i <= p => t[i] = s[i - 1] /\ i - 1 \in 1..Len(s))
      /\ (\A i \in 1..Len(s) : i > p => t[i] = s[i])
  BY <1>2, FrontIs, ZenonT(40)
<1> HIDE DEF t
<1>4. d \in Seq(Keys) /\ Len(d) = Len(s) /\ Different(d) /\ \A i \in 1..Len(s) : d[i] = L.key[s[i]]
  BY IdsAre
<1>5. b \in Seq(Keys) /\ Len(b) = Len(t) /\ \A i \in 1..Len(t) : b[i] = V.key[t[i]]
  BY <1>1, IdsAre
<1>6. Lru!Touch(d, k) = c
  <2> HIDE DEF d
  <2>1. d[p] = k /\ p \in 1..Len(d)
    BY <1>4
  <2>2. \A i \in 1..Len(d) : d[i] = k => i = p
    BY <1>4, <2>1 DEF Different
  <2> HIDE DEF k
  <2>3. k \in Lru!Cached(d)
    BY <2>1 DEF Lru!Cached
  <2>4. (CHOOSE i \in 1..Len(d) : d[i] = k) = p
    BY <2>1, <2>2
  <2> QED BY <2>3, <2>4 DEF Lru!Touch
<1>7. c \in Seq(Keys) /\ Len(c) = Len(d)
      /\ \A i \in 1..Len(d) : c[i] = IF i = 1 THEN k ELSE IF i <= p THEN d[i - 1] ELSE d[i]
  <2> HIDE DEF d
  <2>1. \A i \in 1..Len(d) : (IF i = 1 THEN d[p] ELSE IF i <= p THEN d[i - 1] ELSE d[i]) \in Keys
    BY <1>2, <1>4
  <2>2. k = d[p]
    BY <1>4
  <2> HIDE DEF k
  <2> QED BY <1>4, <2>1, <2>2
<1> HIDE DEF d, b, c
<1>8. ASSUME NEW i \in 1..Len(s)  PROVE b[i] = c[i]
  <2>1. CASE i = 1
    BY <1>1, <1>3, <1>4, <1>5, <1>7, <2>1
  <2>2. CASE i # 1 /\ i <= p
    <3>1. i \in 2..Len(s) /\ i - 1 \in 1..Len(s) /\ i \in 1..Len(t) /\ i \in 1..Len(d)
      BY <1>2, <1>3, <1>4, <2>2
    <3>2. t[i] = s[i - 1]
      BY <1>3, <2>2, <3>1
    <3>3. b[i] = L.key[s[i - 1]]
      BY <1>1, <1>5, <3>1, <3>2
    <3>4. c[i] = d[i - 1]
      BY <1>7, <2>2, <3>1
    <3> QED BY <1>4, <3>1, <3>3, <3>4
  <2>3. CASE i > p
    <3>1. i # 1 /\ ~(i <= p)
      BY <1>2, <2>3
    <3> QED BY <1>1, <1>3, <1>4, <1>5, <1>7, <2>3, <3>1
  <2> QED BY <1>2, <2>1, <2>2, <2>3
<1>9. b = c
  BY <1>3, <1>4, <1>5, <1>7, <1>8, SeqEqual
<1> QED BY <1>6, <1>9 DEF V, t, d, b

\* A node from which a walk goes on within the list or ends.
Rests(L, s, m) == L.next[m] = NULL \/ ~Free(s, m)

\* What a change from list s to list u that may take node n leaves alone.
Kept(L, s, M, u, n) ==
    /\ M.freed = L.freed
    /\ \A m \in Nodes : m # n => M.key[m] = L.key[m] /\ (Rests(L, s, m) => Rests(M, u, m))

\* Two changes in a row.
LEMMA KeptTwice ==
    ASSUME NEW L, NEW s, NEW M, NEW u, NEW N, NEW v, NEW n, Kept(L, s, M, u, n), Kept(M, u, N, v, n)
    PROVE  Kept(L, s, N, v, n)
BY DEF Kept

\* No change leaves everything alone.
LEMMA KeptSame ==
    ASSUME NEW L, NEW s, NEW n
    PROVE  Kept(L, s, L, s, n)
BY DEF Kept

\* A push leaves the other nodes alone.
LEMMA PushKept ==
    ASSUME NEW L, NEW s, Holds(L, s), NEW n \in Nodes, NEW k \in Keys,
           k \notin DOMAIN L.hm, Free(s, n)
    PROVE  Kept(L, s, Pushed(L, k, n), <<n>> \o s, n)
<1> DEFINE P == Pushed(L, k, n)
           t == <<n>> \o s
<1>0. Holds(P, t) /\ P.key = [L.key EXCEPT ![n] = k] /\ P.freed = L.freed
  BY PushHolds
<1>1. Holds(P, t) /\ SameNext(L, P, n)
  BY PushHolds
<1>2. L.key \in [Nodes -> Keys \cup {NULL}] /\ s \in Seq(Nodes)
  BY DEF Holds, Strung, Lists
<1>3. /\ Len(t) = Len(s) + 1 /\ Len(s) \in Nat
      /\ \A i \in 2..(Len(s) + 1) : t[i] = s[i - 1]
  BY <1>2, InFront
<1> HIDE DEF P, t
<1>4. ASSUME NEW m, ~Free(s, m)  PROVE ~Free(t, m)
  <2>1. PICK i \in 1..Len(s) : s[i] = m
    BY <1>4 DEF Free
  <2>2. i + 1 \in 2..(Len(s) + 1) /\ i + 1 \in 1..Len(t) /\ (i + 1) - 1 = i
    BY <1>3
  <2>3. t[i + 1] = m
    BY <1>3, <2>1, <2>2
  <2> QED BY <2>2, <2>3 DEF Free
<1>5. Kept(L, s, P, t, n)
  BY <1>0, <1>1, <1>2, <1>4 DEF Kept, Rests, SameNext
<1> QED BY <1>5 DEF P, t

\* So does a move to the head.
LEMMA MoveKept ==
    ASSUME NEW L, NEW s, Holds(L, s), NEW p \in 1..Len(s), NEW n
    PROVE  Kept(L, s, move2Head(L, s[p]), ToFront(s, p), n)
<1> DEFINE V == move2Head(L, s[p])
           t == ToFront(s, p)
<1>1. /\ V.key = L.key /\ V.freed = L.freed
      /\ \A x \in Nodes : (\A i \in 1..Len(s) : x # s[i]) => V.next[x] = L.next[x]
  BY MoveHolds
<1>2. s \in Seq(Nodes)
  BY DEF Holds, Strung
<1>3. Len(t) = Len(s) /\ \A j \in 1..Len(s) : \E i \in 1..Len(s) : t[i] = s[j]
  BY <1>2, FrontIs
<1> HIDE DEF V, t
<1>4. ASSUME NEW m, ~Free(s, m)  PROVE ~Free(t, m)
  BY <1>3, <1>4 DEF Free
<1>5. ASSUME NEW m \in Nodes, Free(s, m)  PROVE V.next[m] = L.next[m]
  <2>1. \A i \in 1..Len(s) : m # s[i]
    BY <1>5 DEF Free
  <2> QED BY <1>1, <2>1
<1>6. Kept(L, s, V, t, n)
  BY <1>1, <1>4, <1>5 DEF Kept, Rests
<1> QED BY <1>6 DEF V, t

\* insert.
LEMMA InsertKeeps ==
    ASSUME NEW L, NEW s, Holds(L, s), NEW n \in Nodes, NEW k \in Keys, NEW known \in BOOLEAN, Free(s, n)
    PROVE  \E u : /\ Holds(insert(L, k, n, known), u) /\ Len(u) <= Len(s) + 1
                  /\ Kept(L, s, insert(L, k, n, known), u, n)
                  /\ IdsOf(insert(L, k, n, known), u) = Lru!InsertNew(IdsOf(L, s), k, known)
<1>0. s \in Seq(Nodes) /\ Len(s) \in Nat
  BY DEF Holds, Strung
<1>1. Lru!Cached(IdsOf(L, s)) = DOMAIN L.hm
  BY IdsAre
<1>2. CASE known \/ k \in DOMAIN L.hm
  <2>1. insert(L, k, n, known) = L
    BY <1>2 DEF insert
  <2>2. Lru!InsertNew(IdsOf(L, s), k, known) = IdsOf(L, s)
    BY <1>1, <1>2 DEF Lru!InsertNew
  <2>3. Kept(L, s, L, s, n)
    BY KeptSame
  <2>4. Len(s) <= Len(s) + 1
    BY <1>0
  <2> QED BY <2>1, <2>2, <2>3, <2>4
<1>3. CASE ~known /\ k \notin DOMAIN L.hm
  <2>1. insert(L, k, n, known) = Pushed(L, k, n)
    BY <1>3 DEF insert, Pushed
  <2>2. Lru!InsertNew(IdsOf(L, s), k, known) = <<k>> \o IdsOf(L, s)
    BY <1>1, <1>3 DEF Lru!InsertNew
  <2>3. Holds(Pushed(L, k, n), <<n>> \o s)
    BY <1>3, PushHolds
  <2>4. Kept(L, s, Pushed(L, k, n), <<n>> \o s, n)
    BY <1>3, PushKept
  <2>5. IdsOf(Pushed(L, k, n), <<n>> \o s) = <<k>> \o IdsOf(L, s)
    BY <1>3, PushIds
  <2>6. Len(<<n>> \o s) <= Len(s) + 1
    BY <1>0
  <2> QED BY <2>1, <2>2, <2>3, <2>4, <2>5, <2>6
<1> QED BY <1>2, <1>3

\* processHit.
LEMMA HitKeeps ==
    ASSUME NEW L, NEW s, Holds(L, s), NEW k \in DOMAIN L.hm, NEW n
    PROVE  \E u : /\ Holds(processHit(L, k), u) /\ Len(u) = Len(s)
                  /\ Kept(L, s, processHit(L, k), u, n) /\ processHit(L, k).hm = L.hm
                  /\ IdsOf(processHit(L, k), u) = Lru!Touch(IdsOf(L, s), k)
<1>0. s \in Seq(Nodes) /\ Len(s) \in Nat /\ Keyed(L, s)
  BY DEF Holds, Strung
<1>1. PICK p \in 1..Len(s) : L.hm[k] = s[p]
  BY <1>0 DEF Keyed
<1>2. L.key[s[p]] = k
  BY <1>0, <1>1 DEF Keyed
<1>3. processHit(L, k) = move2Head(L, s[p])
  BY <1>1 DEF processHit
<1>4. Holds(move2Head(L, s[p]), ToFront(s, p)) /\ move2Head(L, s[p]).hm = L.hm
  BY MoveHolds
<1>5. Kept(L, s, move2Head(L, s[p]), ToFront(s, p), n)
  BY MoveKept
<1>6. IdsOf(move2Head(L, s[p]), ToFront(s, p)) = Lru!Touch(IdsOf(L, s), k)
  BY <1>2, MoveIds
<1>7. Len(ToFront(s, p)) = Len(s)
  BY <1>0, FrontIs
<1> QED BY <1>3, <1>4, <1>5, <1>6, <1>7

\* evict, and the counter that add decrements.
LEMMA EvictKeeps ==
    ASSUME NEW L, NEW s, Holds(L, s), Len(s) >= 2, NEW n, Free(s, n)
    PROVE  \E Z : /\ {[E EXCEPT !.size = @ - 1] : E \in evict(L)} = {Z}
                  /\ Holds(Z, SubSeq(s, 1, Len(s) - 1)) /\ Free(SubSeq(s, 1, Len(s) - 1), n)
                  /\ Kept(L, s, Z, SubSeq(s, 1, Len(s) - 1), n)
                  /\ IdsOf(Z, SubSeq(s, 1, Len(s) - 1)) = Lru!Evict(IdsOf(L, s))
<1> DEFINE t == SubSeq(s, 1, Len(s) - 1)
<1>0. s \in Seq(Nodes) /\ Len(s) \in Nat /\ Len(s) >= 1 /\ Len(s) \in 1..Len(s)
  BY DEF Holds, Strung
<1>9. PICK G \in Lists : Evicted(L, s, G)
  BY EvictHolds
<1>1. /\ evict(L) = {G} /\ Holds([G EXCEPT !.size = @ - 1], t)
      /\ G.key = L.key /\ G.freed = L.freed
      /\ (\A m \in Nodes : G.next[m] = L.next[m] \/ G.next[m] = NULL)
      /\ G.next[s[Len(s)]] = NULL
  BY <1>9 DEF Evicted
<1> DEFINE Z == [G EXCEPT !.size = @ - 1]
<1>2. Holds(Z, t) /\ {[E EXCEPT !.size = @ - 1] : E \in evict(L)} = {Z}
  BY <1>1
<1>3. Z.key = L.key /\ Z.freed = L.freed /\ Z.next = G.next
  BY <1>1 DEF Lists
<1> HIDE DEF Z
<1>4. IdsOf(Z, t) = Lru!Evict(IdsOf(L, s))
  BY <1>0, <1>2, <1>3, EvictIds
<1>5. t \in Seq(Nodes) /\ Len(t) = Len(s) - 1 /\ \A i \in 1..Len(t) : i \in 1..Len(s) /\ t[i] = s[i]
  BY <1>0, Shorter
<1> HIDE DEF t
<1>6. Free(t, n)
  BY <1>5 DEF Free
<1>7. ASSUME NEW m \in Nodes, Rests(L, s, m)  PROVE Rests(Z, t, m)
  <2>1. CASE L.next[m] = NULL
    BY <1>1, <1>3, <2>1 DEF Rests
  <2>2. CASE ~Free(s, m)
    <3>1. PICK i \in 1..Len(s) : s[i] = m
      BY <2>2 DEF Free
    <3>2. CASE i = Len(s)
      BY <1>1, <1>3, <3>1, <3>2 DEF Rests
    <3>3. CASE i # Len(s)
      <4>1. i \in 1..Len(t) /\ t[i] = m
        BY <1>0, <1>5, <3>1, <3>3
      <4> QED BY <4>1 DEF Free, Rests
    <3> QED BY <3>2, <3>3
  <2> QED BY <1>7, <2>1, <2>2 DEF Rests
<1>8. Kept(L, s, Z, t, n)
  BY <1>3, <1>7 DEF Kept
<1> QED BY <1>2, <1>4, <1>6, <1>8 DEF t

\* Cache::add.
LEMMA AddKeeps ==
    ASSUME NEW L, NEW s, Holds(L, s), Len(s) <= Capacity, NEW n \in Nodes, Free(s, n),
           NEW k \in Keys, NEW known \in BOOLEAN, NEW M \in add(L, k, n, known)
    PROVE  \E u : /\ Holds(M, u) /\ Len(u) <= Capacity /\ Kept(L, s, M, u, n)
                  /\ IdsOf(M, u) = Lru!CacheAdd(IdsOf(L, s), k, known)
<1> DEFINE d == IdsOf(L, s)
<1>1. s \in Seq(Nodes) /\ Len(s) \in Nat /\ L.size = Len(s) /\ Capacity \in Nat /\ Capacity >= 2
  BY CacheAssumption DEF Holds, Strung
<1>2. Len(d) = Len(s) /\ Lru!Cached(d) = DOMAIN L.hm
  BY IdsAre
<1> HIDE DEF d
<1>3. CASE Len(s) = Capacity /\ k \notin DOMAIN L.hm
  <2> DEFINE t == SubSeq(s, 1, Len(s) - 1)
  <2>1. PICK Z : /\ {[E EXCEPT !.size = @ - 1] : E \in evict(L)} = {Z}
                 /\ Holds(Z, t) /\ Free(t, n) /\ Kept(L, s, Z, t, n)
                 /\ IdsOf(Z, t) = Lru!Evict(d)
    BY <1>1, <1>3, EvictKeeps DEF d
  <2>2. add(L, k, n, known) = {insert([E EXCEPT !.size = @ - 1], k, n, known) : E \in evict(L)}
    BY <1>1, <1>3 DEF add
  <2>3. M = insert(Z, k, n, known)
    <3>1. PICK E \in evict(L) : M = insert([E EXCEPT !.size = @ - 1], k, n, known)
      BY <2>2
    <3>2. [E EXCEPT !.size = @ - 1] = Z
      BY <2>1
    <3> QED BY <3>1, <3>2
  <2>4. Len(t) = Len(s) - 1
    BY <1>1, <1>3, Shorter
  <2> HIDE DEF t
  <2>5. PICK u : /\ Holds(insert(Z, k, n, known), u) /\ Len(u) <= Len(t) + 1
                 /\ Kept(Z, t, insert(Z, k, n, known), u, n)
                 /\ IdsOf(insert(Z, k, n, known), u) = Lru!InsertNew(IdsOf(Z, t), k, known)
    BY <2>1, InsertKeeps
  <2>6. Lru!CacheAdd(d, k, known) = Lru!InsertNew(Lru!Evict(d), k, known)
    BY <1>2, <1>3 DEF Lru!CacheAdd
  <2>7. Kept(L, s, insert(Z, k, n, known), u, n)
    BY <2>1, <2>5, KeptTwice
  <2>8. Len(u) <= Capacity
    BY <1>1, <1>3, <2>4, <2>5
  <2> QED BY <2>1, <2>3, <2>5, <2>6, <2>7, <2>8 DEF d
<1>4. CASE Len(s) = Capacity /\ k \in DOMAIN L.hm
  <2>1. add(L, k, n, known) = {insert(processHit(L, k), k, n, known)}
    BY <1>1, <1>4 DEF add
  <2>2. PICK u : /\ Holds(processHit(L, k), u) /\ Len(u) = Len(s)
                 /\ Kept(L, s, processHit(L, k), u, n) /\ processHit(L, k).hm = L.hm
                 /\ IdsOf(processHit(L, k), u) = Lru!Touch(d, k)
    BY <1>4, HitKeeps DEF d
  <2>3. insert(processHit(L, k), k, n, known) = processHit(L, k)
    BY <1>4, <2>2 DEF insert
  <2>4. Lru!CacheAdd(d, k, known) = Lru!Touch(d, k)
    BY <1>2, <1>4 DEF Lru!CacheAdd
  <2>5. M = processHit(L, k) /\ Len(u) <= Capacity
    BY <1>1, <1>4, <2>1, <2>2, <2>3
  <2> QED BY <2>2, <2>4, <2>5 DEF d
<1>5. CASE Len(s) # Capacity
  <2>1. add(L, k, n, known) = {insert(L, k, n, known)}
    BY <1>1, <1>5 DEF add
  <2>2. PICK u : /\ Holds(insert(L, k, n, known), u) /\ Len(u) <= Len(s) + 1
                 /\ Kept(L, s, insert(L, k, n, known), u, n)
                 /\ IdsOf(insert(L, k, n, known), u) = Lru!InsertNew(d, k, known)
    BY InsertKeeps DEF d
  <2>3. Lru!CacheAdd(d, k, known) = Lru!InsertNew(d, k, known)
    BY <1>2, <1>5 DEF Lru!CacheAdd
  <2>4. u \in Seq(Nodes)
    BY <2>2 DEF Holds, Strung
  <2>5. M = insert(L, k, n, known) /\ Len(u) <= Capacity
    BY <1>1, <1>5, <2>1, <2>2, <2>4
  <2> QED BY <2>2, <2>3, <2>5 DEF d
<1> QED BY <1>3, <1>4, <1>5

\* The walk along next finds the list.
LEMMA FollowHolds ==
    ASSUME NEW L, NEW s, Holds(L, s), Len(s) <= Capacity
    PROVE  Follow(L.head, L.next) = s
<1>1. /\ s \in Seq(Nodes) /\ (s = <<>> => L.head = NULL) /\ (s # <<>> => L.head = s[1])
      /\ \A i \in 1..Len(s) : L.next[s[i]] = IF i < Len(s) THEN s[i + 1] ELSE NULL
  BY DEF Holds, Strung
<1> QED BY <1>1, FollowIs

\* The cache, with s for its list: a thread that walks stands on a node that
\* leads into the list or nowhere, and has seen every id that is cached now.
CacheAt(s) ==
    /\ Holds(List, s) /\ Len(s) <= Capacity /\ freed = {}
    /\ current \in [Threads -> Nodes \cup {NULL, Idle}]
    /\ witness \in [Threads -> SUBSET Keys]
    /\ \A t \in Threads : current[t] # Idle =>
         /\ DOMAIN hm \subseteq witness[t]
         /\ current[t] # NULL => key[current[t]] \in witness[t] /\ Rests(List, s, current[t])

CacheInv == \E s : CacheAt(s)

\* The list as variables and as a record.
LEMMA ListIs ==
    /\ List.head = head /\ List.tail = tail /\ List.next = next /\ List.prev = prev
    /\ List.key = key /\ List.hm = hm /\ List.size = size /\ List.freed = freed
BY DEF List

\* What Becomes makes of the variables.
LEMMA ListBecomes ==
    ASSUME NEW L \in Lists, Becomes(L)
    PROVE  List' = L
BY DEF Becomes, List, Lists

\* The invariant gives the properties.
LEMMA CacheInvSafe == CacheInv => CacheTypeOK /\ Linked /\ WalkSound
<1> SUFFICES ASSUME CacheInv PROVE CacheTypeOK /\ Linked /\ WalkSound
  OBVIOUS
<1>1. PICK s : CacheAt(s)
  BY DEF CacheInv
<1>2. /\ Holds(List, s) /\ List \in Lists /\ s \in Seq(Nodes) /\ Len(s) \in Nat /\ Len(s) <= Capacity
      /\ Strung(List, s) /\ Keyed(List, s) /\ size = Len(s) /\ freed = {}
  <2>1. Holds(List, s) /\ Len(s) <= Capacity /\ freed = {}
    BY <1>1 DEF CacheAt
  <2>2. List \in Lists /\ Strung(List, s) /\ Keyed(List, s) /\ List.size = Len(s)
    BY <2>1 DEF Holds
  <2>3. s \in Seq(Nodes)
    BY <2>2 DEF Strung
  <2>4. size = Len(s)
    BY <2>2, ListIs
  <2>5. Len(s) \in Nat
    BY <2>3
  <2> QED BY <2>1, <2>2, <2>3, <2>4, <2>5
<1>3. Forward = s
  BY <1>2, FollowHolds, ListIs DEF Forward
<1>4. DOMAIN hm \subseteq Keys /\ \A k \in DOMAIN hm : hm[k] \in Nodes
  <2>1. hm \in Maps
    BY <1>2, ListIs DEF Lists
  <2> QED BY <2>1, MapIs
<1>5. CacheTypeOK
  <2>1. Capacity \in Nat
    BY CacheAssumption
  <2>2. /\ head \in Nodes \cup {NULL} /\ tail \in Nodes \cup {NULL}
        /\ next \in [Nodes -> Nodes \cup {NULL}] /\ prev \in [Nodes -> Nodes \cup {NULL}]
        /\ key \in [Nodes -> Keys \cup {NULL}]
    BY <1>2, ListIs DEF Lists
  <2>3. size \in -1..Capacity
    BY <1>2, <2>1
  <2> QED BY <1>1, <1>2, <1>4, <2>2, <2>3 DEF CacheTypeOK, CacheAt
<1>6. Linked
  <2>1. Cardinality(DOMAIN hm) = Len(s)
    BY <1>2, IdsAre, ListIs
  <2>2. /\ \A i \in 1..Len(s) : key[s[i]] \in DOMAIN hm /\ hm[key[s[i]]] = s[i]
        /\ \A k \in DOMAIN hm : key[hm[k]] = k /\ \E i \in 1..Len(s) : hm[k] = s[i]
    BY <1>2, ListIs DEF Keyed
  <2>3. {s[i] : i \in 1..Len(s)} = {hm[k] : k \in DOMAIN hm}
    BY <2>2
  <2>4. /\ (s = <<>> => tail = NULL) /\ (s # <<>> => tail = s[Len(s)])
        /\ \A i \in 1..Len(s) : prev[s[i]] = IF i = 1 THEN NULL ELSE s[i - 1]
    BY <1>2, ListIs DEF Strung
  <2>5. tail = IF s = <<>> THEN NULL ELSE s[Len(s)]
    BY <2>4
  <2>6. size = Len(s) /\ size <= Capacity /\ \A k \in DOMAIN hm : key[hm[k]] = k
    BY <1>2, <2>2
  <2>7. \A i \in 1..Len(Forward) : prev[Forward[i]] = IF i = 1 THEN NULL ELSE Forward[i - 1]
    BY <1>3, <2>4
  <2>8. {Forward[i] : i \in 1..Len(Forward)} = {hm[k] : k \in DOMAIN hm}
    BY <1>3, <2>3
  <2>9. /\ size = Len(Forward) /\ size <= Capacity /\ Cardinality(DOMAIN hm) = Len(Forward)
        /\ (\A k \in DOMAIN hm : key[hm[k]] = k)
        /\ tail = IF Forward = <<>> THEN NULL ELSE Forward[Len(Forward)]
    BY <1>3, <2>1, <2>5, <2>6
  <2> QED BY <2>7, <2>8, <2>9 DEF Linked
<1>7. WalkSound
  BY <1>1, <1>2 DEF WalkSound, CacheAt
<1> QED BY <1>5, <1>6, <1>7

\* The ids a reader of the list would see.
LEMMA IdsNow ==
    ASSUME NEW s, Holds(List, s), Len(s) <= Capacity
    PROVE  Ids = IdsOf(List, s)
<1>1. Forward = s
  BY FollowHolds, ListIs DEF Forward
<1> QED BY <1>1, ListIs DEF Ids, IdsOf

\* The same after a step.
LEMMA IdsNext ==
    ASSUME NEW s, Holds(List', s), Len(s) <= Capacity
    PROVE  Ids' = IdsOf(List', s)
<1>0. List'.head = head' /\ List'.next = next' /\ List'.key = key'
  BY DEF List
<1>1. Forward' = s
  BY <1>0, FollowHolds DEF Forward
<1> QED BY <1>0, <1>1 DEF Ids, IdsOf

\* There is always a node to allocate.
LEMMA NodeSupply ==
    ASSUME NEW s, CacheAt(s), NEW t \in Threads, current[t] = Idle
    PROVE  NewNode \in Nodes /\ Free(s, NewNode) /\ \A u \in Threads : current[u] # NewNode
<1> DEFINE A == {s[i] : i \in 1..Len(s)}
           T == Threads \ {t}
           B == {current[u] : u \in T}
<1>1. /\ Holds(List, s) /\ Len(s) <= Capacity /\ s \in Seq(Nodes) /\ Len(s) \in Nat /\ Keyed(List, s)
      /\ Capacity \in Nat /\ IsFiniteSet(Threads) /\ Idle \notin Nodes
      /\ (IsFiniteSet(Nodes) => Cardinality(Nodes) >= Capacity + Cardinality(Threads))
  BY CacheAssumption DEF CacheAt, Holds, Strung
<1>2. IsFiniteSet(A) /\ Cardinality(A) <= Len(s)
  <2> DEFINE f == [i \in 1..Len(s) |-> s[i]]
  <2>1. f \in Surjection(1..Len(s), A)
    BY DEF Surjection
  <2>2. IsFiniteSet(1..Len(s)) /\ Cardinality(1..Len(s)) = Len(s)
    <3>1. Len(s) \in Nat
      BY <1>1
    <3> QED BY <3>1, UpTo
  <2> HIDE DEF A, f
  <2> QED BY <2>1, <2>2, FS_Surjection
<1>3. IsFiniteSet(T) /\ Cardinality(T) = Cardinality(Threads) - 1
  BY <1>1, FS_RemoveElement
<1>4. IsFiniteSet(B) /\ Cardinality(B) <= Cardinality(T)
  <2> DEFINE f == [u \in T |-> current[u]]
  <2>1. f \in Surjection(T, B)
    BY DEF Surjection
  <2> HIDE DEF T, B, f
  <2> QED BY <1>3, <2>1, FS_Surjection
<1> HIDE DEF A, B, T
<1>5. IsFiniteSet(A \cup B) /\ Cardinality(A \cup B) <= Cardinality(A) + Cardinality(B)
  <2>1. IsFiniteSet(A \cap B)
    BY <1>2, FS_Intersection
  <2>2. Cardinality(A) \in Nat /\ Cardinality(B) \in Nat /\ Cardinality(A \cap B) \in Nat
    BY <1>2, <1>4, <2>1, FS_CardinalityType
  <2>3. /\ IsFiniteSet(A \cup B)
        /\ Cardinality(A \cup B) = Cardinality(A) + Cardinality(B) - Cardinality(A \cap B)
    BY <1>2, <1>4, FS_Union
  <2> QED BY <2>2, <2>3
<1>6. ~(Nodes \subseteq A \cup B)
  <2> SUFFICES ASSUME Nodes \subseteq A \cup B PROVE FALSE
    OBVIOUS
  <2>1. IsFiniteSet(Nodes) /\ Cardinality(Nodes) <= Cardinality(A \cup B)
    BY <1>5, FS_Subset
  <2>2. /\ Cardinality(A) \in Nat /\ Cardinality(B) \in Nat /\ Cardinality(T) \in Nat
        /\ Cardinality(Threads) \in Nat /\ Cardinality(Nodes) \in Nat /\ Cardinality(A \cup B) \in Nat
    BY <1>1, <1>2, <1>3, <1>4, <1>5, <2>1, FS_CardinalityType
  <2>3. Cardinality(Nodes) >= Capacity + Cardinality(Threads)
    BY <1>1, <2>1
  <2> QED BY <1>1, <1>2, <1>3, <1>4, <1>5, <2>1, <2>2, <2>3
<1>7. PICK n \in Nodes : n \notin A /\ n \notin B
  BY <1>6
<1>8. \A k \in DOMAIN hm : hm[k] \in A
  BY <1>1, ListIs DEF Keyed, A
<1>9. n \notin {hm[k] : k \in DOMAIN hm} /\ n \notin {current[u] : u \in Threads}
  BY <1>1, <1>7, <1>8 DEF B, T
<1>10. /\ NewNode \in Nodes /\ NewNode \notin {hm[k] : k \in DOMAIN hm}
       /\ NewNode \notin {current[u] : u \in Threads}
  BY <1>9 DEF NewNode
<1>11. \A i \in 1..Len(s) : key[s[i]] \in DOMAIN hm /\ hm[key[s[i]]] = s[i]
  BY <1>1, ListIs DEF Keyed
<1> QED BY <1>10, <1>11 DEF Free

\* The empty cache.
LEMMA CacheInvInit == CacheInit => CacheInv /\ Ids = <<>>
<1> SUFFICES ASSUME CacheInit PROVE CacheInv /\ Ids = <<>>
  OBVIOUS
<1> DEFINE s == <<>>
<1>1. s \in Seq(Nodes) /\ Len(s) = 0 /\ Different(s) /\ 1..0 = {}
  BY DEF Different
<1>2. List \in Lists
  <2>1. hm \in [{} -> Nodes]
    BY DEF CacheInit
  <2>2. hm \in Maps
    BY <2>1, IsMap
  <2>3. /\ head = NULL /\ tail = NULL /\ size = 0 /\ freed = {}
        /\ next \in [Nodes -> Nodes \cup {NULL}] /\ prev \in [Nodes -> Nodes \cup {NULL}]
        /\ key \in [Nodes -> Keys \cup {NULL}]
    BY DEF CacheInit
  <2> QED BY <2>2, <2>3 DEF List, Lists
<1>3. List.head = NULL /\ List.tail = NULL /\ List.size = 0 /\ DOMAIN List.hm = {}
  <2>1. head = NULL /\ tail = NULL /\ size = 0 /\ DOMAIN hm = {}
    BY DEF CacheInit
  <2> QED BY <2>1, ListIs
<1> HIDE DEF s
<1>4. Strung(List, s) /\ Keyed(List, s)
  BY <1>1, <1>3 DEF Strung, Keyed
<1>5. Holds(List, s) /\ Len(s) <= Capacity
  BY <1>1, <1>2, <1>3, <1>4, CacheAssumption DEF Holds
<1>6. /\ freed = {} /\ current \in [Threads -> Nodes \cup {NULL, Idle}]
      /\ witness \in [Threads -> SUBSET Keys] /\ \A t \in Threads : current[t] = Idle
  BY DEF CacheInit
<1>7. CacheInv
  BY <1>5, <1>6 DEF CacheInv, CacheAt
<1>8. Ids = IdsOf(List, s)
  BY <1>5, IdsNow
<1>9. IdsOf(List, s) \in Seq(Keys) /\ Len(IdsOf(List, s)) = 0
  BY <1>1, <1>5, IdsAre
<1> QED BY <1>7, <1>8, <1>9

\* add is a step of the bounded list, also under the walks of other threads.
LEMMA AddStep ==
    ASSUME CacheInv, NEW t \in Threads, NEW k \in Keys, NEW known \in BOOLEAN, Add(t, k, known)
    PROVE  CacheInv' /\ Ids' = Lru!CacheAdd(Ids, k, known)
<1>1. PICK s : CacheAt(s)
  BY DEF CacheInv
<1> DEFINE n == NewNode
<1>2. current[t] = Idle /\ current' = current
  BY DEF Add
<1>3. n \in Nodes /\ Free(s, n) /\ \A u \in Threads : current[u] # n
  BY <1>1, <1>2, NodeSupply
<1>4. PICK L \in add(List, k, n, known) : Becomes(L)
  BY DEF Add
<1> HIDE DEF n
<1>5. Holds(List, s) /\ Len(s) <= Capacity /\ freed = {}
  BY <1>1 DEF CacheAt
<1>6. PICK u : /\ Holds(L, u) /\ Len(u) <= Capacity /\ Kept(List, s, L, u, n)
               /\ IdsOf(L, u) = Lru!CacheAdd(IdsOf(List, s), k, known)
  BY <1>3, <1>5, AddKeeps
<1>7. L \in Lists /\ List' = L
  <2>1. L \in Lists
    BY <1>6 DEF Holds
  <2> QED BY <1>4, <2>1, ListBecomes
<1>8. Ids' = Lru!CacheAdd(Ids, k, known)
  BY <1>5, <1>6, <1>7, IdsNow, IdsNext
<1>9. freed' = {} /\ hm' = L.hm /\ key' = L.key /\ DOMAIN hm' \subseteq Keys
  <2>1. freed' = L.freed /\ hm' = L.hm /\ key' = L.key
    BY <1>4 DEF Becomes
  <2>2. L.freed = freed
    BY <1>6, ListIs DEF Kept
  <2>3. hm' \in Maps
    BY <1>7, <2>1 DEF Lists
  <2> QED BY <1>5, <2>1, <2>2, <2>3, MapIs
<1>10. /\ current \in [Threads -> Nodes \cup {NULL, Idle}] /\ witness \in [Threads -> SUBSET Keys]
       /\ witness' = [v \in Threads |-> IF current[v] = Idle THEN {} ELSE witness[v] \cup DOMAIN hm']
  BY <1>1 DEF CacheAt, Add
<1>11. witness' \in [Threads -> SUBSET Keys]
  BY <1>9, <1>10
<1>12. ASSUME NEW v \in Threads, current[v] # Idle
       PROVE  /\ DOMAIN hm' \subseteq witness'[v]
              /\ current[v] # NULL => key'[current[v]] \in witness'[v] /\ Rests(List', u, current[v])
  <2>1. witness'[v] = witness[v] \cup DOMAIN hm'
    BY <1>10, <1>12
  <2>2. CASE current[v] # NULL
    <3>1. /\ current[v] \in Nodes /\ current[v] # n
          /\ key[current[v]] \in witness[v] /\ Rests(List, s, current[v])
      BY <1>1, <1>3, <1>10, <1>12, <2>2 DEF CacheAt
    <3>2. L.key[current[v]] = key[current[v]] /\ Rests(L, u, current[v])
      BY <1>6, <3>1, ListIs DEF Kept
    <3> QED BY <1>7, <1>9, <2>1, <3>1, <3>2
  <2> QED BY <2>1, <2>2
<1>13. CacheAt(u)'
  BY <1>2, <1>6, <1>7, <1>9, <1>10, <1>11, <1>12 DEF CacheAt
<1> QED BY <1>8, <1>13 DEF CacheInv

\* A step that leaves the list alone.
LEMMA SameList ==
    ASSUME UNCHANGED listVars
    PROVE  List' = List /\ hm' = hm /\ key' = key /\ freed' = freed /\ Ids' = Ids
<1>1. /\ head' = head /\ tail' = tail /\ next' = next /\ prev' = prev /\ key' = key
      /\ hm' = hm /\ size' = size /\ freed' = freed
  BY DEF listVars
<1> QED BY <1>1 DEF List, Ids, Forward

\* A walk that begins at the head.
LEMMA WalkStartStep ==
    ASSUME CacheInv, NEW t \in Threads, WalkStart(t)
    PROVE  CacheInv' /\ Ids' = Ids
<1>1. PICK s : CacheAt(s)
  BY DEF CacheInv
<1>2. List' = List /\ hm' = hm /\ key' = key /\ freed' = freed /\ Ids' = Ids
  BY SameList DEF WalkStart
<1>3. /\ Holds(List, s) /\ Len(s) <= Capacity /\ freed = {}
      /\ current \in [Threads -> Nodes \cup {NULL, Idle}] /\ witness \in [Threads -> SUBSET Keys]
  BY <1>1 DEF CacheAt
<1>4. Strung(List, s) /\ Keyed(List, s) /\ s \in Seq(Nodes) /\ hm \in Maps
  BY <1>3, ListIs DEF Holds, Strung, Lists
<1>5. head # NULL
  BY DEF WalkStart
<1>6. s # <<>> /\ head = s[1]
  BY <1>4, <1>5, ListIs DEF Strung
<1>7. 1 \in 1..Len(s) /\ head \in Nodes
  BY <1>4, <1>6, NodesOf
<1>8. key[head] \in DOMAIN hm /\ ~Free(s, head)
  BY <1>4, <1>6, <1>7, ListIs DEF Keyed, Free
<1>9. /\ current' = [current EXCEPT ![t] = head] /\ witness' = [witness EXCEPT ![t] = DOMAIN hm]
      /\ DOMAIN hm \subseteq Keys
  BY <1>4, MapIs DEF WalkStart
<1>10. /\ current' \in [Threads -> Nodes \cup {NULL, Idle}] /\ witness' \in [Threads -> SUBSET Keys]
       /\ current'[t] = head /\ witness'[t] = DOMAIN hm
       /\ \A v \in Threads : v # t => current'[v] = current[v] /\ witness'[v] = witness[v]
  BY <1>3, <1>7, <1>9
<1>11. ASSUME NEW v \in Threads, current'[v] # Idle
       PROVE  /\ DOMAIN hm \subseteq witness'[v]
              /\ current'[v] # NULL => key[current'[v]] \in witness'[v] /\ Rests(List, s, current'[v])
  <2>1. CASE v = t
    BY <1>8, <1>10, <2>1 DEF Rests
  <2>2. CASE v # t
    BY <1>1, <1>10, <1>11, <2>2 DEF CacheAt
  <2> QED BY <2>1, <2>2
<1>12. CacheAt(s)'
  BY <1>2, <1>3, <1>10, <1>11 DEF CacheAt
<1> QED BY <1>2, <1>12 DEF CacheInv

\* A walk that is over.
LEMMA WalkEndStep ==
    ASSUME CacheInv, NEW t \in Threads, WalkEnd(t)
    PROVE  CacheInv' /\ Ids' = Ids
<1>1. PICK s : CacheAt(s)
  BY DEF CacheInv
<1>2. List' = List /\ hm' = hm /\ key' = key /\ freed' = freed /\ Ids' = Ids
  BY SameList DEF WalkEnd
<1>3. /\ Holds(List, s) /\ Len(s) <= Capacity /\ freed = {}
      /\ current \in [Threads -> Nodes \cup {NULL, Idle}] /\ witness \in [Threads -> SUBSET Keys]
  BY <1>1 DEF CacheAt
<1>4. current' = [current EXCEPT ![t] = Idle] /\ witness' = [witness EXCEPT ![t] = {}]
  BY DEF WalkEnd
<1>5. /\ current' \in [Threads -> Nodes \cup {NULL, Idle}] /\ witness' \in [Threads -> SUBSET Keys]
      /\ current'[t] = Idle
      /\ \A v \in Threads : v # t => current'[v] = current[v] /\ witness'[v] = witness[v]
  BY <1>3, <1>4
<1>6. ASSUME NEW v \in Threads, current'[v] # Idle
      PROVE  /\ DOMAIN hm \subseteq witness'[v]
             /\ current'[v] # NULL => key[current'[v]] \in witness'[v] /\ Rests(List, s, current'[v])
  BY <1>1, <1>5, <1>6 DEF CacheAt
<1>7. CacheAt(s)'
  BY <1>2, <1>3, <1>5, <1>6 DEF CacheAt
<1> QED BY <1>2, <1>7 DEF CacheInv

\* A walk that goes on, and the lookup of the id it has read.
LEMMA WalkNextStep ==
    ASSUME CacheInv, NEW t \in Threads, NEW better \in BOOLEAN, WalkNext(t, better)
    PROVE  CacheInv' /\ (Ids' = Ids \/ \E k \in Keys : Ids' = Lru!Touch(Ids, k))
<1> DEFINE n == current[t]
<1>1. PICK s : CacheAt(s)
  BY DEF CacheInv
<1>2. /\ Holds(List, s) /\ Len(s) <= Capacity /\ freed = {}
      /\ current \in [Threads -> Nodes \cup {NULL, Idle}] /\ witness \in [Threads -> SUBSET Keys]
  BY <1>1 DEF CacheAt
<1>3. Strung(List, s) /\ Keyed(List, s) /\ s \in Seq(Nodes) /\ hm \in Maps /\ List \in Lists
  BY <1>2, ListIs DEF Holds, Strung, Lists
<1>4. /\ n \notin {Idle, NULL} /\ current' = [current EXCEPT ![t] = next[n]] /\ witness' = witness
      /\ IF better /\ key[n] \in DOMAIN hm THEN Becomes(processHit(List, key[n])) ELSE UNCHANGED listVars
  BY DEF WalkNext
<1>5. /\ n \in Nodes /\ key[n] \in witness[t] /\ DOMAIN hm \subseteq witness[t]
      /\ (next[n] = NULL \/ ~Free(s, n))
  BY <1>1, <1>2, <1>4, ListIs DEF CacheAt, Rests
<1>6. next[n] = NULL \/ (next[n] \in Nodes /\ key[next[n]] \in DOMAIN hm /\ ~Free(s, next[n]))
  <2> SUFFICES ASSUME next[n] # NULL
               PROVE  next[n] \in Nodes /\ key[next[n]] \in DOMAIN hm /\ ~Free(s, next[n])
    OBVIOUS
  <2>1. PICK i \in 1..Len(s) : s[i] = n
    BY <1>5 DEF Free
  <2>2. next[s[i]] = IF i < Len(s) THEN s[i + 1] ELSE NULL
    BY <1>3, ListIs DEF Strung
  <2>3. i < Len(s) /\ next[n] = s[i + 1]
    BY <2>1, <2>2
  <2>4. i + 1 \in 1..Len(s)
    BY <1>3, <2>3
  <2>5. s[i + 1] \in Nodes /\ key[s[i + 1]] \in DOMAIN hm
    BY <1>3, <2>4, ListIs DEF Keyed
  <2> QED BY <2>3, <2>4, <2>5 DEF Free
<1>7. PICK u : /\ Holds(List', u) /\ Len(u) <= Capacity /\ Kept(List, s, List', u, NULL) /\ hm' = hm
               /\ (Ids' = Ids \/ \E k \in Keys : Ids' = Lru!Touch(Ids, k))
  <2>1. CASE better /\ key[n] \in DOMAIN hm
    <3> DEFINE k == key[n]
    <3>1. k \in DOMAIN List.hm /\ k \in Keys
      BY <1>3, <2>1, ListIs, MapIs
    <3> HIDE DEF k
    <3>2. PICK u : /\ Holds(processHit(List, k), u) /\ Len(u) = Len(s)
                   /\ Kept(List, s, processHit(List, k), u, NULL) /\ processHit(List, k).hm = List.hm
                   /\ IdsOf(processHit(List, k), u) = Lru!Touch(IdsOf(List, s), k)
      BY <1>2, <3>1, HitKeeps
    <3>3. Becomes(processHit(List, k)) /\ processHit(List, k) \in Lists
      BY <1>4, <2>1, <3>2 DEF k, Holds
    <3>4. List' = processHit(List, k)
      BY <3>3, ListBecomes
    <3>5. hm' = hm
      BY <3>2, <3>3, ListIs DEF Becomes
    <3>6. Ids' = Lru!Touch(Ids, k)
      BY <1>2, <3>2, <3>4, IdsNow, IdsNext
    <3> QED BY <1>2, <3>1, <3>2, <3>4, <3>5, <3>6
  <2>2. CASE ~(better /\ key[n] \in DOMAIN hm)
    <3>1. List' = List /\ hm' = hm /\ Ids' = Ids
      BY <1>4, <2>2, SameList
    <3>2. Kept(List, s, List, s, NULL)
      BY KeptSame
    <3> QED BY <1>2, <3>1, <3>2
  <2> QED BY <2>1, <2>2
<1>8. freed' = {} /\ \A m \in Nodes : key'[m] = key[m] /\ (Rests(List, s, m) => Rests(List', u, m))
  <2>1. List'.freed = freed' /\ List'.key = key' /\ NULL \notin Nodes
    BY CacheAssumption DEF List
  <2> QED BY <1>2, <1>7, <2>1, ListIs DEF Kept
<1>9. /\ current' \in [Threads -> Nodes \cup {NULL, Idle}] /\ current'[t] = next[n]
      /\ \A v \in Threads : v # t => current'[v] = current[v]
  BY <1>2, <1>4, <1>6
<1>10. ASSUME NEW v \in Threads, current'[v] # Idle
       PROVE  /\ DOMAIN hm \subseteq witness[v]
              /\ current'[v] # NULL => key'[current'[v]] \in witness[v] /\ Rests(List', u, current'[v])
  <2>1. CASE v = t
    <3>1. current'[v] # NULL => Rests(List, s, current'[v]) /\ current'[v] \in Nodes
      BY <1>6, <1>9, <2>1 DEF Rests
    <3> QED BY <1>5, <1>6, <1>8, <1>9, <2>1, <3>1
  <2>2. CASE v # t
    <3>1. current'[v] = current[v] /\ (current[v] # NULL => current[v] \in Nodes)
      BY <1>2, <1>9, <1>10, <2>2
    <3>2. /\ DOMAIN hm \subseteq witness[v]
          /\ current[v] # NULL => key[current[v]] \in witness[v] /\ Rests(List, s, current[v])
      BY <1>1, <1>10, <3>1 DEF CacheAt
    <3> QED BY <1>8, <3>1, <3>2
  <2> QED BY <2>1, <2>2
<1>11. CacheAt(u)'
  BY <1>2, <1>4, <1>7, <1>8, <1>9, <1>10 DEF CacheAt
<1> QED BY <1>7, <1>11 DEF CacheInv

\* Every step of the peer's stores keeps the cache's invariant and is a step of
\* the bounded list, or none.
LEMMA CacheStep == CacheInv /\ [Next]_storeVars => CacheInv' /\ [Lru!LruNext]_Ids
<1> SUFFICES ASSUME CacheInv, [Next]_storeVars PROVE CacheInv' /\ [Lru!LruNext]_Ids
  OBVIOUS
<1>1. CASE CacheNext
  <2>1. PICK t \in Threads :
          \/ \E k \in Keys, known \in BOOLEAN : Add(t, k, known)
          \/ WalkStart(t)
          \/ \E better \in BOOLEAN : WalkNext(t, better)
          \/ WalkEnd(t)
    BY <1>1 DEF CacheNext
  <2>2. ASSUME NEW k \in Keys, NEW known \in BOOLEAN, Add(t, k, known)  PROVE CacheInv' /\ [Lru!LruNext]_Ids
    <3>1. CacheInv' /\ Ids' = Lru!CacheAdd(Ids, k, known)
      BY <2>2, AddStep
    <3> QED BY <3>1 DEF Lru!LruNext
  <2>3. CASE WalkStart(t)
    BY <2>3, WalkStartStep
  <2>4. ASSUME NEW better \in BOOLEAN, WalkNext(t, better)  PROVE CacheInv' /\ [Lru!LruNext]_Ids
    <3>1. CacheInv' /\ (Ids' = Ids \/ \E k \in Keys : Ids' = Lru!Touch(Ids, k))
      BY <2>4, WalkNextStep
    <3> QED BY <3>1 DEF Lru!LruNext
  <2>5. CASE WalkEnd(t)
    BY <2>5, WalkEndStep
  <2> QED BY <2>1, <2>2, <2>3, <2>4, <2>5
<1>2. CASE UNCHANGED cacheVars
  <2>1. UNCHANGED listVars /\ current' = current /\ witness' = witness
    BY <1>2 DEF cacheVars, listVars
  <2>2. List' = List /\ hm' = hm /\ key' = key /\ freed' = freed /\ Ids' = Ids
    BY <2>1, SameList
  <2>3. PICK s : CacheAt(s)
    BY DEF CacheInv
  <2>4. CacheAt(s)'
    BY <2>1, <2>2, <2>3 DEF CacheAt
  <2> QED BY <2>2, <2>4 DEF CacheInv
<1>3. CacheNext \/ UNCHANGED cacheVars
  BY DEF Next, storeVars
<1> QED BY <1>1, <1>2, <1>3

\* For any ids, any capacity of two or more and any number of threads: the links,
\* the map and the counter of the cache agree after every call, a thread that
\* walks the list without cache_lock stands on a live node and reads only ids that
\* were cached during its walk, and add and lookup are the steps of a bounded list
\* in order of use (cache.h, cache_replace_lru.h, cache_iterator.h,
\* double_linked_list.h).
THEOREM CacheCorrect == Spec => CacheRight
<1>1. Init => CacheInv /\ Lru!LruInit
  BY CacheInvInit DEF Init, Lru!LruInit
<1>2. CacheInv /\ [Next]_storeVars => CacheInv' /\ [Lru!LruNext]_Ids
  BY CacheStep
<1>3. CacheInv => CacheTypeOK /\ Linked /\ WalkSound
  BY CacheInvSafe
<1> QED BY <1>1, <1>2, <1>3, PTL DEF Spec, CacheRight, ImplementsLru, Lru!LruSpec

=============================================================================
