------------------------------ MODULE LogRotation ------------------------------
(***************************************************************************)
(* LogRotatingStream and FileLogSink: the log is written to file 0; when   *)
(* it is full, and when the program starts, the oldest file is deleted and *)
(* each other file is renamed to the next index, one after the other.  The *)
(* log is a stream of bytes, numbered as they are logged; those not yet    *)
(* flushed are in the buffer of the stdio stream.                          *)
(*                                                                         *)
(* Messages are logged one at a time: rtc::LogMessage holds a lock.        *)
(***************************************************************************)
EXTENDS Naturals, Sequences, FiniteSets, Functions

CONSTANTS
  NumFiles,     \* kMaxLogFileNums
  MaxFileSize,  \* kLogFileSizeLimit
  MaxBytes,     \* bound: bytes logged
  MaxCrashes,   \* bound: crashes of the program
  NoFile        \* contents of a file that does not exist

ASSUME NumFilesAssumption == NumFiles \in Nat \ {0, 1}
ASSUME NoFileAssumption == NoFile \notin Seq(Nat)
ASSUME LogBoundsAssumption == MaxFileSize \in Nat \ {0} /\ {MaxBytes, MaxCrashes} \subseteq Nat

VARIABLES
  stored,   \* contents of each file
  buffered, \* what was written to file_ and not yet to file 0
  opened,   \* file_.is_open()
  written,  \* current_bytes_written_
  turn,     \* the next step of RotateFiles
  logged,   \* bytes logged so far
  lost,     \* bytes that a crash took before they reached a file
  failed,   \* a rename has failed
  crashes

logVars == <<stored, buffered, opened, written, turn, logged, lost, failed, crashes>>

Oldest == NumFiles - 1
NoLog(i) == stored[i] = NoFile
TextOf(i) == IF NoLog(i) THEN <<>> ELSE stored[i]

(* RotateFiles begins with the deletion; at turn i file i - 1 is renamed to *)
(* file i, and at turn 0 file 0 is opened.                                  *)
AtRest == NumFiles + 1
Turns == 0..AtRest

(* The program starts: FileLogSink::Init opens the stream, which rotates.   *)
LogInit ==
  /\ stored = [i \in 0..Oldest |-> NoFile]
  /\ buffered = <<>> /\ opened = FALSE /\ written = 0
  /\ turn = NumFiles
  /\ logged = 0 /\ lost = {} /\ failed = FALSE /\ crashes = 0

-----------------------------------------------------------------------------
(* CloseCurrentFile writes out what is buffered.                            *)
Closed(pending) == TextOf(0) \o pending

(* One byte of a message, as long as the stream is open; after the byte     *)
(* that fills the file the rotation begins.                                 *)
Write ==
  /\ turn = AtRest /\ opened /\ logged < MaxBytes
  /\ logged' = logged + 1
  /\ IF written + 1 < MaxFileSize
     THEN /\ buffered' = Append(buffered, logged')
          /\ written' = written + 1
          /\ UNCHANGED <<stored, opened, turn>>
     ELSE /\ stored' = [stored EXCEPT ![0] = Closed(Append(buffered, logged'))]
          /\ buffered' = <<>> /\ opened' = FALSE /\ written' = 0
          /\ turn' = NumFiles
  /\ UNCHANGED <<lost, failed, crashes>>

(* The buffer is full, or buffering is disabled.                            *)
Flush ==
  /\ opened /\ buffered # <<>>
  /\ stored' = [stored EXCEPT ![0] = @ \o buffered]
  /\ buffered' = <<>>
  /\ UNCHANGED <<opened, written, turn, logged, lost, failed, crashes>>

(* A deletion or a renaming that fails is reported, and the rotation goes   *)
(* on.                                                                      *)
Delete ==
  /\ turn = NumFiles
  /\ \/ stored' = [stored EXCEPT ![Oldest] = NoFile]
     \/ UNCHANGED stored
  /\ turn' = Oldest
  /\ UNCHANGED <<buffered, opened, written, logged, lost, failed, crashes>>

(* Bug: the files are renamed from the newest on.                           *)
TargetAscending(t) == NumFiles - t

(* From the oldest on.                                                      *)
Target(t) == t

Move ==
  /\ turn \in 1..Oldest
  /\ LET to == Target(turn) IN
       \/ /\ stored' = IF NoLog(to - 1) THEN stored
                       ELSE [stored EXCEPT ![to] = stored[to - 1], ![to - 1] = NoFile]
          /\ UNCHANGED failed
       \/ /\ ~NoLog(to - 1)
          /\ failed' = TRUE
          /\ UNCHANGED stored
  /\ turn' = turn - 1
  /\ UNCHANGED <<buffered, opened, written, logged, lost, crashes>>

(* OpenCurrentFile; if it fails nothing is logged any more.                 *)
OpenFile ==
  /\ turn = 0
  /\ \/ stored' = [stored EXCEPT ![0] = <<>>] /\ opened' = TRUE
     \/ UNCHANGED <<stored, opened>>
  /\ turn' = AtRest
  /\ UNCHANGED <<buffered, written, logged, lost, failed, crashes>>

(* The program dies, at any point of a rotation too, and is started again   *)
(* by rws.service.                                                          *)
CrashAndRestart ==
  /\ crashes < MaxCrashes
  /\ crashes' = crashes + 1
  /\ lost' = lost \cup Range(buffered)
  /\ buffered' = <<>> /\ opened' = FALSE /\ written' = 0
  /\ turn' = NumFiles
  /\ UNCHANGED <<stored, logged, failed>>

LogNext == Write \/ Flush \/ Delete \/ Move \/ OpenFile \/ CrashAndRestart

LogSpec == LogInit /\ [][LogNext]_logVars

LogTypeOK ==
  /\ stored \in [0..Oldest -> {NoFile} \cup Seq(1..MaxBytes)]
  /\ buffered \in Seq(1..MaxBytes)
  /\ written \in 0..(MaxFileSize - 1) /\ turn \in Turns
  /\ logged \in 0..MaxBytes /\ lost \subseteq 1..MaxBytes
  /\ crashes \in 0..MaxCrashes
  /\ opened \in BOOLEAN /\ failed \in BOOLEAN

-----------------------------------------------------------------------------
(* Properties *)

Logged == (UNION {Range(TextOf(i)) : i \in 0..Oldest}) \cup Range(buffered)

(* Read from the oldest file to the newest, the log is in the order it was  *)
(* written in, and no file is larger than the limit,                        *)
InOrder ==
  \A i \in 0..Oldest :
    /\ Len(TextOf(i)) <= MaxFileSize
    /\ \A m \in DOMAIN TextOf(i), n \in DOMAIN TextOf(i) :
         m < n => stored[i][m] < stored[i][n]
    /\ \A j \in 0..(i - 1) :
         \A old \in Range(TextOf(i)), new \in Range(TextOf(j)) : old < new

(* and as long as the program runs all files but one are filled.            *)
Filled ==
  crashes = 0 /\ logged >= Oldest * MaxFileSize =>
    Cardinality(Logged) >= Oldest * MaxFileSize

(* Unless a rename has failed, a rotation drops what is in the oldest file  *)
(* and nothing else, wherever crashes interrupt it: what a crash takes had  *)
(* not reached a file (log_rotating_stream.cc:154-180).                     *)
LogKeepsLatest ==
  [][/\ InOrder'
     /\ ~failed' => /\ Filled'
                    /\ Logged \ Logged' \subseteq Range(TextOf(Oldest)) \cup lost']_logVars
=============================================================================
