------------------------------ MODULE LogFile -------------------------------
(***************************************************************************)
(* The rotating log of the process, internal/config/logfile.go: Write,     *)
(* rotate and Close system call by system call, with calls that fail and a *)
(* process that dies between them and is started again.                    *)
(*                                                                         *)
(* A record is its number and its length; a file is there or not, has a    *)
(* sequence of records, and between them so many bytes of writes that      *)
(* failed.  Such a write leaves nothing behind, or a fragment of length    *)
(* one.                                                                    *)
(***************************************************************************)
EXTENDS Integers, SequencesExt

CONSTANTS
    MaxSize,     \* w.maxSize
    Lengths,     \* lengths of a record
    MaxRecords,  \* bound on the records written
    Fails,       \* the calls that may fail
    MaxFaults,   \* bound on calls that fail
    MaxRestarts  \* bound on restarts

LogAssumption ==
    /\ MaxSize \in Nat \ {0} /\ Lengths \subseteq Nat \ {0}
    /\ MaxRecords \in Nat /\ MaxFaults \in Nat /\ MaxRestarts \in Nat
    /\ Fails \subseteq {"close", "unlink", "rename", "open", "write"}

Absent == [there |-> FALSE, records |-> <<>>, torn |-> 0]
Empty == [there |-> TRUE, records |-> <<>>, torn |-> 0]
NoRecord == [id |-> 0, length |-> 0]

VARIABLES
    log, backup,  \* the files at w.name and w.name + ".1"
    file,         \* w.file: "open", "closed" (by a Close that failed) or "nil"
    attached,     \* an open file is the one at w.name
    size,         \* w.size
    at,           \* next call of Write: "idle", "close", "unlink", "rename",
                  \* "open", "rename back", "reopen", "write", or no process: "dead"
    record,       \* the record of that Write
    accepted,     \* records whose Write succeeded, in order
    removed,      \* somebody else removed the log
    stranded,     \* a rotation has failed and could not rename the backup back
    records, faults, restarts

vars == <<log, backup, file, attached, size, at, record, accepted, removed, stranded,
          records, faults, restarts>>

disk == <<log, backup>>
history == <<accepted, removed, stranded>>
budgets == <<records, faults, restarts>>

Bytes(f) ==
    LET upTo[i \in 0..Len(f.records)] ==
            IF i = 0 THEN f.torn ELSE upTo[i - 1] + f.records[i].length
    IN  upTo[Len(f.records)]

Exists(f) == f.there

Opened_NoCreate(f) == f

\* O_CREAT
Opened(f) == IF Exists(f) THEN f ELSE Empty

-----------------------------------------------------------------------------
Fault(call) == call \in Fails /\ faults < MaxFaults /\ faults' = faults + 1
NoFault == faults' = faults

\* newLogFileWriter and openAt(O_APPEND): at the start of a process.
StartSize_Zero == 0

StartSize == Bytes(Opened(log))

OpenLogFile ==
    /\ at = "dead"
    /\ log' = Opened(log) /\ size' = StartSize /\ file' = "open" /\ attached' = TRUE /\ at' = "idle"
    /\ UNCHANGED <<backup, record, history, budgets>>

NeedsRotation(r) == size > 0 /\ size + r.length > MaxSize

\* Write, which holds w.mu until it returns.
Write ==
    /\ at = "idle" /\ records < MaxRecords
    /\ \E n \in Lengths : record' = [id |-> records + 1, length |-> n]
    /\ records' = records + 1
    /\ at' = CASE file = "nil" -> "idle"
               [] file # "nil" /\ NeedsRotation(record') -> "close"
               [] OTHER -> "write"
    /\ UNCHANGED <<disk, file, attached, size, history, faults, restarts>>

\* Closing fails, for good, when the file was closed by a Close that failed.
CloseOld ==
    /\ at = "close"
    /\ \/ file = "open" /\ file' = "nil" /\ at' = "unlink" /\ NoFault
       \/ file = "open" /\ file' = "closed" /\ at' = "idle" /\ Fault("close")
       \/ file = "closed" /\ at' = "idle" /\ UNCHANGED file /\ NoFault
    /\ UNCHANGED <<disk, attached, size, record, history, records, restarts>>

\* The result is ignored.
UnlinkBackup ==
    /\ at = "unlink" /\ at' = "rename"
    /\ \/ backup' = Absent /\ NoFault
       \/ UNCHANGED backup /\ Fault("unlink")
    /\ UNCHANGED <<log, file, attached, size, record, history, records, restarts>>

RenameFails_Truncates == at' = "open"

RenameFails == at' = "reopen"

\* A log that is not there is no error.
Rename ==
    /\ at = "rename"
    /\ \/ Exists(log) /\ backup' = log /\ log' = Absent /\ at' = "open" /\ NoFault
       \/ ~Exists(log) /\ at' = "open" /\ UNCHANGED disk /\ NoFault
       \/ RenameFails /\ UNCHANGED disk /\ Fault("rename")
    /\ UNCHANGED <<file, attached, size, record, history, records, restarts>>

\* O_TRUNC
OpenNew ==
    /\ at = "open"
    /\ \/ /\ log' = Empty /\ size' = 0 /\ file' = "open" /\ attached' = TRUE /\ at' = "write"
          /\ NoFault
       \/ at' = "rename back" /\ UNCHANGED <<log, size, file, attached>> /\ Fault("open")
    /\ UNCHANGED <<backup, record, history, records, restarts>>

RenameBack ==
    /\ at = "rename back" /\ at' = "reopen"
    /\ \/ Exists(backup) /\ log' = backup /\ backup' = Absent /\ NoFault
       \/ ~Exists(backup) /\ UNCHANGED disk /\ NoFault
       \/ UNCHANGED disk /\ Fault("rename")
    /\ stranded' = (stranded \/ ~log'.there)
    /\ UNCHANGED <<file, attached, size, record, accepted, removed, records, restarts>>

\* O_APPEND; the Write returns the error of the rotation, whatever comes of it.
Reopen ==
    /\ at = "reopen" /\ at' = "idle"
    /\ \/ log' = Opened(log) /\ file' = "open" /\ attached' = TRUE /\ NoFault
       \/ UNCHANGED <<log, file, attached>> /\ Fault("open")
    /\ UNCHANGED <<backup, size, record, history, records, restarts>>

\* w.file.Write; a short write leaves a fragment.
Grow(whole, torn) ==
    /\ log' = IF attached
              THEN [there |-> TRUE, records |-> log.records \o whole, torn |-> log.torn + torn]
              ELSE log
    /\ size' = size + Bytes([there |-> TRUE, records |-> whole, torn |-> torn])

WriteRecord ==
    /\ at = "write" /\ at' = "idle"
    /\ \/ /\ file = "open" /\ Grow(<<record>>, 0) /\ NoFault
          /\ accepted' = IF attached THEN accepted \o <<record>> ELSE accepted
       \/ /\ file = "open" /\ (Grow(<<>>, 0) \/ Grow(<<>>, 1))
          /\ UNCHANGED accepted /\ Fault("write")
       \/ file = "closed" /\ UNCHANGED <<log, size, accepted>> /\ NoFault
    /\ UNCHANGED <<backup, file, attached, record, removed, stranded, records, restarts>>

\* The process dies, or Close.
Crash ==
    /\ at # "dead" /\ restarts < MaxRestarts
    /\ at' = "dead" /\ restarts' = restarts + 1 /\ file' = "nil" /\ attached' = FALSE
    /\ UNCHANGED <<disk, size, record, history, records, faults>>

\* Somebody removes the log; the process writes on to a file without a name.
RemoveLog ==
    /\ ~removed /\ Exists(log) /\ faults < MaxFaults
    /\ removed' = TRUE /\ log' = Absent /\ attached' = FALSE /\ NoFault
    /\ UNCHANGED <<backup, file, size, at, record, accepted, stranded, records, restarts>>

Init ==
    /\ log = Absent /\ backup = Absent /\ file = "nil" /\ attached = FALSE /\ size = 0
    /\ at = "dead" /\ record = NoRecord /\ accepted = <<>> /\ removed = FALSE
    /\ stranded = FALSE
    /\ records = 0 /\ faults = 0 /\ restarts = 0

Next ==
    \/ OpenLogFile \/ Write \/ CloseOld \/ UnlinkBackup \/ Rename \/ OpenNew \/ RenameBack
    \/ Reopen \/ WriteRecord \/ Crash \/ RemoveLog

Spec == Init /\ [][Next]_vars

-----------------------------------------------------------------------------
TypeOK ==
    /\ file \in {"open", "closed", "nil"} /\ size \in Nat
    /\ at \in {"idle", "close", "unlink", "rename", "open", "rename back", "reopen", "write", "dead"}
    /\ at \in {"unlink", "rename", "open", "rename back", "reopen", "dead"} => file = "nil"
    /\ file = "open" /\ attached => Exists(log)

\* The files stay below their limit, over restarts and rotations that fail,
\* until somebody removes the log: no file grows past maxSize unless a single
\* record is longer (README, "Logs": "10 MB plus one backup").
SizeBounded ==
    ~removed => \A f \in {log, backup} : Bytes(f) <= MaxSize \/ (Len(f.records) = 1 /\ f.torn = 0)

\* What the two files hold, read one after the other, without fragments.
OnDisk == backup.records \o log.records

\* Until somebody removes the log, the two files together hold the records that
\* were accepted last, in their order and with none missing between them; and
\* unless they have filled up, until another record may not fit in one file, they
\* hold them all: a rotation that fails or is cut short loses a backup, never the
\* log.  The exception is a rotation that finds no way back, neither to open the
\* new log nor to rename the old one back: w.size then stands for the old log, and
\* the next record rotates again and has the backup replaced.
LastRecordsKept ==
    ~removed =>
        /\ IsSuffix(OnDisk, accepted)
        /\ \/ stranded
           \/ OnDisk = accepted
           \/ \E n \in Lengths : Bytes(backup) + Bytes(log) + n > MaxSize

=============================================================================
