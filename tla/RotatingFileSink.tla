-------------------------- MODULE RotatingFileSink --------------------------
(***************************************************************************)
(* The rotating log file (common/logger/src/RotatingFileSink.cpp over      *)
(* FileSink.cpp): the files it leaves on the disk while messages are       *)
(* written, rotate() is called, renames fail and the process dies and      *)
(* starts again.                                                           *)
(*                                                                         *)
(* Logger writes to a sink under its own mutex (Logger.cpp:144), so all    *)
(* logging threads are one thread here, the writer; others call the public *)
(* rotate() at any moment.  A message is one line, lines are numbered in   *)
(* the order they were written, and the disk is what it says of a line:    *)
(* the index of the file that holds it (0 is basePath, getFileName() gives *)
(* every index a name of its own) or that it is gone.  Every line has its  *)
(* length in bytes, of which the size of a file is the sum, and reaches    *)
(* the operating system at once (std::endl), so a crash loses none.  compressFile() does nothing: no    *)
(* build file defines HAVE_ZLIB.  write() means its lock to be unlocked    *)
(* around rotate(), which the lock_guard it declares cannot be; the module *)
(* follows the calls as they are written.                                  *)
(***************************************************************************)
EXTENDS FiniteSets, FiniteSetsExt, Integers

CONSTANTS Rotators,    \* threads that call rotate()
          Policy,      \* rotationPolicy: "size", "time", "size_time" or "manual"
          MaxSize,     \* maxSize, in bytes
          Size,        \* Size[n]: the bytes of the n-th line, with its newline
          Limits,      \* the values max_files may be configured to
          Appending,   \* append: open for appending, not truncating
          MaxLines,    \* bound: lines written
          MaxManual,   \* bound: calls of rotate() by the rotators
          MaxCrashes,  \* bound: crashes
          NoThread     \* the owner of a free mutex

Writer  == "writer"
Threads == Rotators \cup {Writer}

ASSUME ThreadsAssumption == Writer \notin Rotators /\ NoThread \notin Threads
ASSUME LimitsAssumption  == Limits \subseteq Nat \ {0} /\ Limits # {}
ASSUME SinkAssumption    ==
  /\ Policy \in {"size", "time", "size_time", "manual"}
  /\ MaxSize \in Nat \ {0} /\ Appending \in BOOLEAN
ASSUME BoundsAssumption  == MaxLines \in Nat /\ MaxManual \in Nat /\ MaxCrashes \in Nat
ASSUME SizeAssumption    == Size \in [1 .. MaxLines -> Nat \ {0}]

Gone  == -1
Lines == 1 .. MaxLines

VARIABLES
  limit,      \* maxFiles
  named,      \* basePath is set, which only init() does
  open,       \* file.is_open()
  mutex,      \* owner of FileSink::mutex
  rotation,   \* owner of rotationMutex
  pc,         \* where each thread is
  idx,        \* the loop variable of performRotation() and cleanupOldFiles()
  exists,     \* indices of the files on the disk
  where,      \* the file of each line, or Gone
  written,    \* lines written so far
  manual, crashes,
  rotations,  \* history: rotations begun
  born,       \* history: rotations begun when each line was written
  damaged     \* history: a rename failed, max_files was lowered or a file truncated

process == <<limit, named, open>>
locks   == <<mutex, rotation>>
disk    == <<exists, where>>
bounds  == <<written, manual, crashes>>
history == <<rotations, born, damaged>>
vars    == <<process, locks, pc, idx, disk, bounds, history>>

Goto(t, l) == pc' = [pc EXCEPT ![t] = l]

InFile(i)  == {n \in Lines : where[n] = i}
Earlier(n) == {m \in Lines : m < n /\ where[m] = where[n]}
Kept(n)   == where[n] # Gone

\* file_size() and its comparison with maxSize.
SizeOf(lines) == MapThenSumSet(LAMBDA n : Size[n], lines)
Full(lines)   == SizeOf(lines) >= MaxSize

Alive     == pc[Writer] # "dead"

Init ==
  /\ limit \in Limits /\ named = FALSE /\ open = FALSE
  /\ mutex = NoThread /\ rotation = NoThread
  /\ pc = [t \in Threads |-> "dead"] /\ idx = 0
  /\ exists = {} /\ where = [n \in Lines |-> Gone]
  /\ written = 0 /\ manual = 0 /\ crashes = 0
  /\ rotations = 0 /\ born = [n \in Lines |-> 0] /\ damaged = FALSE

\* Mutant of openFile(): the mode is always std::ios::trunc.
OpenFileTruncating(ok, harm) ==
  IF open \/ ~ok
    THEN UNCHANGED <<open, disk>> /\ damaged' = (damaged \/ harm)
    ELSE /\ open' = TRUE
         /\ exists' = exists \cup {0}
         /\ where' = [n \in Lines |-> IF where[n] = 0 THEN Gone ELSE where[n]]
         /\ damaged' = (damaged \/ harm)

(***************************************************************************)
(* openFile(): a file that is not open is opened, for appending or         *)
(* truncated, and that may fail.                                           *)
(***************************************************************************)
OpenFile(ok, harm) ==
  IF open \/ ~ok
    THEN UNCHANGED <<open, disk>> /\ damaged' = (damaged \/ harm)
    ELSE /\ open' = TRUE
         /\ exists' = exists \cup {0}
         /\ where' = IF Appending THEN where
                     ELSE [n \in Lines |-> IF where[n] = 0 THEN Gone ELSE where[n]]
         /\ damaged' = (damaged \/ harm \/ (~Appending /\ InFile(0) # {}))

---------------------------------------------------------------------------
Lowered(l) == l < limit /\ exists # {}

(***************************************************************************)
(* A process starts with a sink that Logger::createSink() configured: the  *)
(* index init() looks for is not used, since FileSink::init() sets         *)
(* filePath to file_path again and opens that.  The result is ignored.     *)
(***************************************************************************)
StartConfigured ==
  /\ ~Alive
  /\ \E l \in Limits, ok \in BOOLEAN :
       /\ limit' = l
       /\ OpenFile(ok, Lowered(l))
  /\ named' = TRUE
  /\ pc' = [t \in Threads |-> "idle"]
  /\ UNCHANGED <<locks, idx, bounds, rotations, born>>

(***************************************************************************)
(* Or with one the program made with setFilePath() and the other setters,  *)
(* without init(), as the example of the rotating file does: basePath is   *)
(* empty and nothing opens the file.                                       *)
(***************************************************************************)
StartWithSetters ==
  /\ ~Alive
  /\ \E l \in Limits : limit' = l /\ damaged' = (damaged \/ Lowered(l))
  /\ named' = FALSE
  /\ pc' = [t \in Threads |-> "idle"]
  /\ UNCHANGED <<open, locks, idx, disk, bounds, rotations, born>>

(* The process dies, or ends: only the disk is left. *)
Crash ==
  /\ Alive /\ crashes < MaxCrashes /\ crashes' = crashes + 1
  /\ open' = FALSE /\ mutex' = NoThread /\ rotation' = NoThread
  /\ pc' = [t \in Threads |-> "dead"] /\ idx' = 0
  /\ UNCHANGED <<limit, named, disk, written, manual, history>>

---------------------------------------------------------------------------
(***************************************************************************)
(* write(), up to the decision to rotate.  late says that rotationTime has *)
(* passed.  The size is asked of the path after the path has been seen to  *)
(* exist; if it has been renamed since, file_size() throws and Logger      *)
(* drops the message (Logger.cpp:149).                                     *)
(***************************************************************************)
ShouldRotate(full, late) ==
  \/ Policy \in {"size", "size_time"} /\ full
  \/ Policy \in {"time", "size_time"} /\ late

Decide(full) ==
  \E late \in BOOLEAN :
    IF ShouldRotate(full, late)
      THEN mutex' = NoThread /\ Goto(Writer, "rotate")
      ELSE mutex' = Writer /\ Goto(Writer, "put")

WriteBegin ==
  /\ pc[Writer] = "idle" /\ written < MaxLines /\ mutex = NoThread
  /\ IF Policy \in {"size", "size_time"} /\ 0 \in exists
       THEN mutex' = Writer /\ Goto(Writer, "measure")
       ELSE Decide(FALSE)
  /\ UNCHANGED <<process, rotation, idx, disk, bounds, history>>

\* Mutant of shouldRotate(): size > maxSize.
MeasureLoosely ==
  /\ pc[Writer] = "measure"
  /\ IF 0 \in exists
       THEN Decide(SizeOf(InFile(0)) > MaxSize)
       ELSE mutex' = NoThread /\ Goto(Writer, "idle")
  /\ UNCHANGED <<process, rotation, idx, disk, bounds, history>>

Measure ==
  /\ pc[Writer] = "measure"
  /\ IF 0 \in exists
       THEN Decide(Full(InFile(0)))
       ELSE mutex' = NoThread /\ Goto(Writer, "idle")
  /\ UNCHANGED <<process, rotation, idx, disk, bounds, history>>

(* lock.lock() once rotate() has returned. *)
WriteRelock ==
  /\ pc[Writer] = "relock" /\ mutex = NoThread
  /\ mutex' = Writer /\ Goto(Writer, "put")
  /\ UNCHANGED <<process, rotation, idx, disk, bounds, history>>

(***************************************************************************)
(* The rest of write().  ensureFileOpen() calls openFile() when the file   *)
(* is not open, and openFile() locks the mutex that write() holds: the     *)
(* writer hangs with it.                                                   *)
(***************************************************************************)
Put ==
  /\ pc[Writer] = "put"
  /\ IF open
       THEN /\ written' = written + 1
            /\ where' = [where EXCEPT ![written + 1] = 0]
            /\ born' = [born EXCEPT ![written + 1] = rotations]
            /\ mutex' = NoThread /\ Goto(Writer, "idle")
       ELSE /\ Goto(Writer, "hung")
            /\ UNCHANGED <<written, where, born, mutex>>
  /\ UNCHANGED <<process, rotation, idx, exists, manual, crashes, rotations, damaged>>

---------------------------------------------------------------------------
(* rotate(), by the writer or by a rotator, under rotationMutex. *)
RotateCall(t) ==
  /\ rotation = NoThread /\ rotation' = t
  /\ \/ t = Writer /\ pc[t] = "rotate" /\ UNCHANGED manual
     \/ t # Writer /\ pc[t] = "idle" /\ manual < MaxManual /\ manual' = manual + 1
  /\ Goto(t, "close")
  /\ UNCHANGED <<process, mutex, idx, disk, written, crashes, history>>

(* Where performRotation() goes with loop variable i. *)
ShiftFrom(t, i) ==
  IF i > 0 THEN idx' = i /\ Goto(t, "shift") ELSE idx' = limit /\ Goto(t, "clean")

\* Mutant of rotate(): the file is not closed before it is renamed.
RotateKeepOpen(t) ==
  /\ pc[t] = "close" /\ mutex = NoThread
  /\ rotations' = rotations + 1
  /\ ShiftFrom(t, limit - 1)
  /\ UNCHANGED <<process, locks, disk, bounds, born, damaged>>

\* Mutant of performRotation(): the loop begins one file too low.
RotateCloseLow(t) ==
  /\ pc[t] = "close" /\ mutex = NoThread
  /\ open' = FALSE
  /\ rotations' = rotations + 1
  /\ ShiftFrom(t, limit - 2)
  /\ UNCHANGED <<limit, named, locks, disk, bounds, born, damaged>>

(* flush() and closeFile(), each of which locks the mutex. *)
RotateClose(t) ==
  /\ pc[t] = "close" /\ mutex = NoThread
  /\ open' = FALSE
  /\ rotations' = rotations + 1
  /\ ShiftFrom(t, limit - 1)
  /\ UNCHANGED <<limit, named, locks, disk, bounds, born, damaged>>

\* Mutant of performRotation(): the file renamed is always the current one.
RenameBase(i) ==
  /\ exists' = (exists \ {0}) \cup {i}
  /\ where' = [n \in Lines |-> IF where[n] = 0 THEN i
                               ELSE IF where[n] = i THEN Gone ELSE where[n]]

(* rename(i - 1, i): what file i held is gone. *)
Rename(i) ==
  /\ exists' = (exists \ {i - 1}) \cup {i}
  /\ where' = [n \in Lines |-> IF where[n] = i - 1 THEN i
                               ELSE IF where[n] = i THEN Gone ELSE where[n]]

(***************************************************************************)
(* One round of the loop that moves the files up.  An exception of         *)
(* rename() is caught and the loop goes on; without a basePath there are   *)
(* no such files.                                                          *)
(***************************************************************************)
RotateShift(t) ==
  /\ pc[t] = "shift"
  /\ \/ named /\ idx - 1 \in exists /\ Rename(idx) /\ UNCHANGED damaged
     \/ named /\ idx - 1 \in exists /\ damaged' = TRUE /\ UNCHANGED disk
     \/ ~(named /\ idx - 1 \in exists) /\ UNCHANGED <<disk, damaged>>
  /\ ShiftFrom(t, idx - 1)
  /\ UNCHANGED <<process, locks, bounds, rotations, born>>

Remove(i) ==
  /\ exists' = exists \ {i}
  /\ where' = [n \in Lines |-> IF where[n] = i THEN Gone ELSE where[n]]

(* One round of cleanupOldFiles(), which looks from maxFiles to twice that. *)
RotateClean(t) ==
  /\ pc[t] = "clean"
  /\ \/ named /\ idx \in exists /\ Remove(idx)
     \/ UNCHANGED disk
  /\ IF idx + 1 < 2 * limit THEN idx' = idx + 1 /\ UNCHANGED pc
                            ELSE idx' = 0 /\ Goto(t, "open")
  /\ UNCHANGED <<process, locks, bounds, history>>

RotateOpen(t) ==
  /\ pc[t] = "open" /\ mutex = NoThread
  /\ \E ok \in BOOLEAN : OpenFile(named /\ ok, FALSE)
  /\ rotation' = NoThread
  /\ Goto(t, IF t = Writer THEN "relock" ELSE "idle")
  /\ UNCHANGED <<limit, named, mutex, idx, bounds, rotations, born>>

---------------------------------------------------------------------------
Write == WriteBegin \/ Measure \/ WriteRelock \/ Put

Rotate(t) ==
  RotateCall(t) \/ RotateClose(t) \/ RotateShift(t) \/ RotateClean(t) \/ RotateOpen(t)

Next ==
  \/ StartConfigured \/ StartWithSetters \/ Crash
  \/ Write
  \/ \E t \in Threads : Rotate(t)

Spec == Init /\ [][Next]_vars

---------------------------------------------------------------------------
InRotation == {"close", "shift", "clean", "open"}

(* The type invariant; a file that holds a line exists. *)
TypeOK ==
  /\ limit \in Limits /\ named \in BOOLEAN /\ open \in BOOLEAN /\ damaged \in BOOLEAN
  /\ mutex \in {Writer, NoThread} /\ rotation \in Threads \cup {NoThread}
  /\ pc \in [Threads -> {"dead", "idle", "measure", "rotate", "relock", "put", "hung"}
                        \cup InRotation]
  /\ idx \in Nat /\ exists \subseteq Nat
  /\ where \in [Lines -> exists \cup {Gone}]
  /\ written \in 0 .. MaxLines /\ manual \in Nat /\ crashes \in Nat
  /\ rotations \in Nat /\ born \in [Lines -> Nat]

(***************************************************************************)
(* Reading the files from the highest index to the lowest gives the lines  *)
(* in the order they were written, whatever fails: renames, removals and   *)
(* openings, crashes between two renames, a max_files changed between two  *)
(* runs, two rotations by different threads (RotatingFileSink.cpp:116-160).*)
(***************************************************************************)
OldestFirst ==
  \A m, n \in Lines : m < n /\ Kept(m) /\ Kept(n) => where[m] >= where[n]

(***************************************************************************)
(* If nothing has failed, the files hold the latest lines and every one of *)
(* them: the log has no hole, at no moment of a rotation and not after a   *)
(* crash in the middle of one (RotatingFileSink.cpp:116-136).              *)
(***************************************************************************)
OnlyOldestLost ==
  ~damaged => \A m, n \in Lines : m < n /\ n <= written /\ Kept(m) => Kept(n)

(***************************************************************************)
(* If nothing has failed, a line is deleted only by the rotation that      *)
(* makes max_files rotations since it was written, interrupted ones        *)
(* included: "Maximum number of files to keep" keeps that many             *)
(* (RotatingFileSink.cpp:118-124).                                         *)
(***************************************************************************)
OnlyAgedLinesGo ==
  [][~damaged' => \A n \in Lines : Kept(n) /\ where'[n] = Gone
                                     => rotations - born[n] >= limit]_vars

(***************************************************************************)
(* Under a policy that looks at the size, and if nothing has failed, a     *)
(* line follows others in a file only if those are less than maxSize       *)
(* bytes: a file outgrows maxSize by its last line at most, although the   *)
(* size is measured on the path, lines go to the stream, and another       *)
(* thread may rotate in between (RotatingFileSink.cpp:91-96, 191-201).     *)
(* The last line may be of any length, so "Maximum file size in bytes"     *)
(* (RotatingFileSink.h:32) is no bound of a file.  With max_files 1        *)
(* nothing is ever renamed and the file grows without bound.               *)
(***************************************************************************)
SizesBounded ==
  Policy \in {"size", "size_time"} /\ 1 \notin Limits /\ ~damaged
    => \A n \in Lines : Kept(n) /\ Earlier(n) # {} => ~Full(Earlier(n))

(***************************************************************************)
(* A message is written or dropped: write() never hangs.  The code's own   *)
(* example logs to a rotating file ("Log messages - will auto-rotate",     *)
(* Rotating_File_Logging.txt:20), and write() tests the result of opening  *)
(* the file again (RotatingFileSink.cpp:197).                              *)
(***************************************************************************)
LoggingNeverHangs == pc[Writer] # "hung"

=============================================================================
