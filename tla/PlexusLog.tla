----------------------------- MODULE PlexusLog -----------------------------
(***************************************************************************)
(* One measurement log of a Plexus peer (plnode/logging/log.h): rows go to *)
(* a file through stdio; every CheckPointRowCount rows, and when the       *)
(* monitor forces it, the file is closed, appended to the log server over  *)
(* ssh, moved into a tar archive and started anew.  The exit status of the *)
(* shell commands is ignored.  The process may die between any two of these*)
(* steps; the peer is then started and initialised again with the same run *)
(* sequence number, opens the same file with "a", and counts its rows and  *)
(* its segments from the beginning.                                        *)
(***************************************************************************)
EXTENDS Naturals, Sequences, FiniteSets

CONSTANTS CheckPointRowCount,  \* check_point_row of the configuration
          Rows,                \* bound on the rows written, all runs together
          MaxCrashes           \* bound on the crashes

ASSUME LogAssumption ==
    CheckPointRowCount \in Nat \ {0} /\ Rows \in Nat /\ MaxCrashes \in Nat

VARIABLES file,      \* the rows of log_file_name on the disk
          buffer,    \* rows in the FILE's buffer
          segment,   \* rows of <log_file_name>_<n>, the file being archived
          archive,   \* rows in the tar file
          remote,    \* rows at the log server, with repetitions
          step,      \* where write/flush stands: "open", "upload", "mv", "tar", "rm", "down"
          current_row_count, current_segment_no,
          written,   \* rows handed to write so far
          refused,   \* rows whose upload failed
          crashes

logVars == <<file, buffer, segment, archive, remote, step,
             current_row_count, current_segment_no, written, refused, crashes>>

Elems(s) == {s[i] : i \in 1..Len(s)}

\* Log::Log and open("a") from initLogs.
LogInit ==
    /\ file = <<>> /\ buffer = <<>> /\ segment = <<>>
    /\ archive = {} /\ remote = <<>>
    /\ step = "open"
    /\ current_row_count = 0 /\ current_segment_no = 1
    /\ written = 0 /\ refused = {} /\ crashes = 0

\* fflush and fclose: the buffered rows reach the disk.
CloseFile ==
    /\ file' = file \o buffer
    /\ buffer' = <<>>
    /\ step' = "upload"

\* Log::write: the row goes to the buffer and the check point may be reached.
\* stdio may write the buffer out by itself at any time.
Write ==
    /\ step = "open" /\ written < Rows
    /\ written' = written + 1
    /\ current_row_count' = current_row_count + 1
    /\ IF current_row_count + 1 = CheckPointRowCount
       THEN /\ file' = file \o Append(buffer, written + 1)
            /\ buffer' = <<>>
            /\ step' = "upload"
       ELSE /\ \/ buffer' = Append(buffer, written + 1) /\ UNCHANGED file
               \/ buffer' = <<>> /\ file' = file \o Append(buffer, written + 1)
            /\ UNCHANGED step
    /\ UNCHANGED <<segment, archive, remote, current_segment_no, refused, crashes>>

\* Log::flush, for MSG_PEER_FORCE_LOG.
ForceFlush ==
    /\ step = "open" /\ (buffer # <<>> \/ file # <<>>)
    /\ CloseFile
    /\ UNCHANGED <<segment, archive, remote, current_row_count,
                   current_segment_no, written, refused, crashes>>

\* Log::sshUploadLog: cat file | ssh "cat >> file".  It appends or it fails.
Upload ==
    /\ step = "upload"
    /\ \/ remote' = remote \o file /\ UNCHANGED refused
       \/ refused' = refused \cup Elems(file) /\ UNCHANGED remote
    /\ step' = "mv"
    /\ UNCHANGED <<file, buffer, segment, archive, current_row_count,
                   current_segment_no, written, crashes>>

\* Log::archiveCurrentLog, first command: mv replaces a segment a crash left.
Rename ==
    /\ step = "mv"
    /\ segment' = file /\ file' = <<>>
    /\ step' = "tar"
    /\ UNCHANGED <<buffer, archive, remote, current_row_count,
                   current_segment_no, written, refused, crashes>>

\* Second command: tar -cf for the first segment, tar -rf for the others.
Tar ==
    /\ step = "tar"
    /\ archive' = IF current_segment_no <= 1 THEN Elems(segment)
                  ELSE archive \cup Elems(segment)
    /\ step' = "rm"
    /\ UNCHANGED <<file, buffer, segment, remote, current_row_count,
                   current_segment_no, written, refused, crashes>>

\* Log::open: the row count starts again.
Open ==
    /\ current_row_count' = 0
    /\ step' = "open"

\* Third command, current_segment_no++, and open("w+").
Remove ==
    /\ step = "rm"
    /\ segment' = <<>>
    /\ current_segment_no' = current_segment_no + 1
    /\ file' = <<>> /\ Open
    /\ UNCHANGED <<buffer, archive, remote, written, refused, crashes>>

\* The process dies; what stdio still buffered is gone.
Crash ==
    /\ step # "down" /\ crashes < MaxCrashes
    /\ crashes' = crashes + 1
    /\ buffer' = <<>>
    /\ step' = "down"
    /\ UNCHANGED <<file, segment, archive, remote, current_row_count,
                   current_segment_no, written, refused>>

\* Variant: the file is opened with "w".
RestartTruncating ==
    /\ step = "down"
    /\ file' = <<>>
    /\ current_segment_no' = 1 /\ Open
    /\ UNCHANGED <<buffer, segment, archive, remote, written, refused, crashes>>

\* A new process: initLogs makes a new Log and opens the file with "a".
Restart ==
    /\ step = "down"
    /\ current_segment_no' = 1 /\ Open
    /\ UNCHANGED <<file, buffer, segment, archive, remote, written, refused, crashes>>

LogNext == Write \/ ForceFlush \/ Upload \/ Rename \/ Tar \/ Remove \/ Crash \/ Restart

LogTypeOK ==
    /\ Elems(file) \cup Elems(buffer) \cup Elems(segment) \cup archive
         \cup Elems(remote) \cup refused \subseteq 1..Rows
    /\ step \in {"open", "upload", "mv", "tar", "rm", "down"}
    /\ current_row_count \in 0..CheckPointRowCount
    /\ current_segment_no \in Nat /\ written \in 0..Rows /\ crashes \in 0..MaxCrashes

\* A row that reached the disk leaves the log file only for the log server: it
\* is in the file, or at the server, or its upload failed, whatever the step
\* the process died in (log.h write, flush, sshUploadLog, archiveCurrentLog).
OnDiskOrUploaded ==
    [][\A r \in Elems(file) : r \in Elems(file') \cup Elems(remote') \cup refused']_logVars

\* Without a crash the archive keeps every row of the closed segments, in
\* particular those whose upload failed; a crash may lose those, because the
\* new process writes its first segment with tar -cf (archiveCurrentLog).
ArchiveComplete ==
    crashes = 0 =>
        refused \subseteq archive \cup Elems(segment) \cup Elems(file)
=============================================================================
