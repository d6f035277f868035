----------------------- MODULE RotatingFileSinkProofs -----------------------
(***************************************************************************)
(* The files of RotatingFileSink for any number of rotating threads, any   *)
(* limits, any number of lines, failures and crashes.  The argument has    *)
(* two layers: the program counters say that one thread rotates at a time  *)
(* and that the stream is closed while it renames; from that, every        *)
(* renaming moves each line one file up at most, and overwrites only a     *)
(* file that has already been moved or is the last.                        *)
(*                                                                         *)
(* The last section carries the proofs of the message manager, the client  *)
(* and the network sink over to MCMessagesAndLogs, which runs them beside  *)
(* the files.                                                              *)
(***************************************************************************)
EXTENDS MCMessagesAndLogs, FiniteSetTheorems, TLAPS

\* One thread rotates at a time, with the file closed from the first renaming
\* on; a dead process has no live thread; the loop variable is in its range;
\* and the writer is in write() only below the bound.
Control ==
  /\ \A t \in Threads : pc[t] \in InRotation => rotation = t
  /\ pc[Writer] = "dead" => \A t \in Threads : pc[t] = "dead"
  /\ pc[Writer] \notin {"dead", "idle", "hung"} => written < MaxLines
  /\ open => 0 \in exists
  /\ \A t \in Threads : pc[t] \in {"shift", "clean", "open"} => ~open
  /\ \A t \in Threads : pc[t] = "shift" => idx \in 1 .. limit - 1
  /\ \A t \in Threads : pc[t] = "clean" => idx >= limit

\* Lines not yet written are in no file.
Unwritten == \A n \in Lines : n > written => ~Kept(n)

\* Every line is in one of the files kept, and each rotation since it was
\* written has moved it by one at most.
Placed ==
  \A n \in Lines : Kept(n) => where[n] < limit /\ where[n] + born[n] <= rotations

\* In the loop, the files up to idx are still to be moved in this rotation, and
\* file idx is empty already unless it is the last.
Shifting ==
  \A t \in Threads : named /\ pc[t] = "shift" =>
    \A n \in Lines : Kept(n) =>
      /\ where[n] <= idx => where[n] + born[n] < rotations
      /\ where[n] = idx => idx = limit - 1

IInv ==
  /\ TypeOK /\ Control /\ Unwritten /\ OldestFirst /\ OnlyOldestLost
  /\ ~damaged => Placed /\ Shifting

-----------------------------------------------------------------------------

\* What is assumed of the constants.
LEMMA Names ==
  /\ Writer \in Threads /\ NoThread \notin Threads
  /\ Limits \subseteq Nat \ {0} /\ Limits # {}
  /\ MaxLines \in Nat /\ Appending \in BOOLEAN
BY ThreadsAssumption, LimitsAssumption, SinkAssumption, BoundsAssumption DEF Threads

\* A file that has just been opened is in the invariant.
LEMMA InitInv == Init => IInv
<1> SUFFICES ASSUME Init PROVE IInv
  OBVIOUS
<1> USE Names DEF Init, Kept, Gone
<1>1. TypeOK
  <2>1. pc \in [Threads -> {"dead"}] /\ where \in [Lines -> {Gone}] /\ born \in [Lines -> Nat]
    OBVIOUS
  <2>2. written \in 0 .. MaxLines
    BY SMT
  <2> QED BY <2>1, <2>2 DEF TypeOK
<1>2. Control
  BY DEF Control, InRotation
<1>3. Unwritten /\ OldestFirst /\ OnlyOldestLost /\ Placed /\ Shifting
  BY DEF Unwritten, OldestFirst, OnlyOldestLost, Placed, Shifting
<1> QED BY <1>1, <1>2, <1>3 DEF IInv

\* What openFile() does to the files: nothing, or it creates file 0 and may
\* forget the lines in it, which counts as damage.
LEMMA OpenFacts ==
  ASSUME TypeOK, NEW ok \in BOOLEAN, NEW harm \in BOOLEAN, OpenFile(ok, harm)
  PROVE  /\ open' \in BOOLEAN /\ damaged' \in BOOLEAN
         /\ exists' \in {exists, exists \cup {0}}
         /\ where' \in [Lines -> exists' \cup {Gone}]
         /\ open' => open \/ 0 \in exists'
         /\ \A n \in Lines : where'[n] # Gone => where'[n] = where[n]
         /\ ~damaged' => ~damaged /\ ~harm /\ where' = where
         /\ open => open'
<1> USE DEF TypeOK, OpenFile, disk
<1>1. CASE open \/ ~ok
  BY <1>1
<1>2. CASE ~(open \/ ~ok) /\ Appending
  BY <1>2
<1>3. CASE ~(open \/ ~ok) /\ ~Appending
  <2>1. where' = [n \in Lines |-> IF where[n] = 0 THEN Gone ELSE where[n]]
    BY <1>3
  <2>2. ASSUME ~damaged' PROVE ~damaged /\ ~harm /\ where' = where
    <3>1. InFile(0) = {} /\ ~damaged /\ ~harm
      BY <1>3, <2>2
    <3>2. \A n \in Lines : where[n] # 0
      BY <3>1 DEF InFile
    <3> QED BY <2>1, <3>1, <3>2
  <2>3. open' \in BOOLEAN /\ damaged' \in BOOLEAN /\ exists' = exists \cup {0}
    BY <1>3
  <2>4. where' \in [Lines -> exists' \cup {Gone}]
    BY <2>1, <2>3
  <2>5. \A n \in Lines : where'[n] # Gone => where'[n] = where[n]
    BY <2>1
  <2> QED BY <1>3, <2>2, <2>3, <2>4, <2>5
<1> QED BY <1>1, <1>2, <1>3, Names

\* The types the arithmetic needs.
LEMMA Numbers == TypeOK => limit \in Nat \ {0} /\ where \in [Lines -> Int] /\ idx \in Nat
<1> SUFFICES ASSUME TypeOK PROVE limit \in Nat \ {0} /\ where \in [Lines -> Int] /\ idx \in Nat
  OBVIOUS
<1>1. limit \in Nat \ {0} /\ idx \in Nat /\ exists \cup {Gone} \subseteq Int
  BY Names DEF TypeOK, Gone
<1>2. where \in [Lines -> exists \cup {Gone}]
  BY DEF TypeOK
<1> QED BY <1>1, <1>2, Zenon

\* A line that is not gone is in a file that exists.
LEMMA Places == TypeOK => \A n \in Lines : where[n] = Gone \/ (where[n] \in exists /\ where[n] >= 0)
<1> SUFFICES ASSUME TypeOK, NEW n \in Lines
             PROVE  where[n] = Gone \/ (where[n] \in exists /\ where[n] >= 0)
  OBVIOUS
<1>1. where[n] \in exists \cup {Gone} /\ exists \subseteq Nat
  BY DEF TypeOK
<1>2. CASE where[n] \in exists
  <2>1. where[n] \in Nat
    BY <1>1, <1>2
  <2> QED BY <1>2, <2>1
<1> QED BY <1>1, <1>2

\* The types of the numbers after a step.
LEMMA NumbersNext == TypeOK' => limit' \in Nat \ {0} /\ where' \in [Lines -> Int]
<1> SUFFICES ASSUME TypeOK' PROVE limit' \in Nat \ {0} /\ where' \in [Lines -> Int]
  OBVIOUS
<1>1. limit' \in Nat \ {0} /\ exists' \cup {Gone} \subseteq Int
  BY Names DEF TypeOK, Gone
<1>2. where' \in [Lines -> exists' \cup {Gone}]
  BY DEF TypeOK
<1> QED BY <1>1, <1>2, Zenon

\* A step that moves no line, makes no file longer and begins no rotation keeps
\* what the invariant says of the lines.
LEMMA Forgetting ==
  ASSUME IInv, TypeOK', written' = written, rotations' = rotations, born' = born,
         \A n \in Lines : where'[n] # Gone => where'[n] = where[n],
         ~damaged' => ~damaged /\ where' = where,
         ~damaged' => limit' >= limit \/ \A n \in Lines : where[n] = Gone,
         \A t \in Threads : pc'[t] = "shift" =>
             pc[t] = "shift" /\ idx' = idx /\ limit' = limit /\ named' = named
  PROVE  /\ Unwritten' /\ OldestFirst' /\ OnlyOldestLost'
         /\ ~damaged' => Placed' /\ Shifting'
<1>0. limit \in Nat /\ limit' \in Nat /\ where \in [Lines -> Int]
  BY Numbers, NumbersNext DEF IInv
<1> USE DEF IInv, TypeOK, Kept, Gone, Lines
<1>1. Unwritten'
  BY DEF Unwritten
<1>2. OldestFirst'
  BY DEF OldestFirst
<1>3. OnlyOldestLost'
  BY DEF OnlyOldestLost
<1>4. ASSUME ~damaged' PROVE Placed' /\ Shifting'
  <2>1. Placed /\ Shifting /\ where' = where
    BY <1>4
  <2>3. ASSUME NEW n \in Lines, where[n] # Gone
        PROVE  where[n] < limit' /\ where[n] + born[n] <= rotations
    <3>1. where[n] < limit /\ where[n] + born[n] <= rotations
      BY <2>1, <2>3 DEF Placed
    <3>2. limit' >= limit
      BY <1>4, <2>3
    <3> QED BY <1>0, <3>1, <3>2
  <2>4. Placed'
    BY <2>1, <2>3 DEF Placed
  <2>5. Shifting'
    BY <2>1, <1>4 DEF Shifting
  <2> QED BY <2>4, <2>5
<1> QED BY <1>1, <1>2, <1>3, <1>4

-----------------------------------------------------------------------------
\* The steps in which a file is renamed or removed, as facts about the files.
LEMMA RenameFacts ==
  ASSUME TypeOK, idx >= 1, idx - 1 \in exists, Rename(idx)
  PROVE  /\ exists' \subseteq Nat /\ where' \in [Lines -> exists' \cup {Gone}]
         /\ \A n \in Lines :
              where'[n] = IF where[n] = idx - 1 THEN idx
                          ELSE IF where[n] = idx THEN Gone ELSE where[n]
BY DEF TypeOK, Rename, Gone

\* What removing a file does to the files and the lines.
LEMMA RemoveFacts ==
  ASSUME TypeOK, Remove(idx)
  PROVE  /\ exists' \subseteq Nat /\ where' \in [Lines -> exists' \cup {Gone}]
         /\ \A n \in Lines : where'[n] = IF where[n] = idx THEN Gone ELSE where[n]
BY DEF TypeOK, Remove

\* Every step keeps the types.
LEMMA TypeStep == TypeOK /\ Control /\ [Next]_vars => TypeOK'
<1> SUFFICES ASSUME TypeOK, Control, [Next]_vars PROVE TypeOK'
  OBVIOUS
<1> USE DEF Goto, process, locks, disk, bounds, history, Alive
<1>1. CASE StartConfigured
  <2>1. PICK l \in Limits, ok \in BOOLEAN : limit' = l /\ OpenFile(ok, Lowered(l))
    BY <1>1 DEF StartConfigured
  <2>2. Lowered(l) \in BOOLEAN
    BY DEF Lowered
  <2>3. /\ open' \in BOOLEAN /\ damaged' \in BOOLEAN
        /\ exists' \in {exists, exists \cup {0}} /\ where' \in [Lines -> exists' \cup {Gone}]
    BY <2>1, <2>2, OpenFacts
  <2>4. pc' \in [Threads -> {"idle"}]
    BY <1>1 DEF StartConfigured
  <2> QED BY <1>1, <2>1, <2>3, <2>4 DEF StartConfigured, TypeOK
<1>2. CASE StartWithSetters
  <2>1. damaged' \in BOOLEAN
    BY <1>2 DEF StartWithSetters, Lowered, TypeOK
  <2>2. pc' \in [Threads -> {"idle"}]
    BY <1>2 DEF StartWithSetters
  <2> QED BY <1>2, <2>1, <2>2 DEF StartWithSetters, TypeOK
<1>3. CASE Crash
  <2>1. pc' \in [Threads -> {"dead"}]
    BY <1>3 DEF Crash
  <2>2. /\ idx' = 0 /\ open' \in BOOLEAN /\ mutex' = NoThread /\ rotation' = NoThread
        /\ crashes' = crashes + 1
        /\ UNCHANGED <<limit, named, exists, where, written, manual, rotations, born, damaged>>
    BY <1>3 DEF Crash
  <2> QED BY <2>1, <2>2 DEF TypeOK
<1>4. CASE WriteBegin
  BY <1>4, Names DEF WriteBegin, Decide, TypeOK
<1>5. CASE Measure
  BY <1>5, Names DEF Measure, Decide, TypeOK
<1>6. CASE WriteRelock
  BY <1>6, Names DEF WriteRelock, TypeOK
<1>7. CASE Put
  <2>1. CASE open
    <3>1. 0 \in exists
      BY <2>1 DEF Control
    <3>2. where' \in [Lines -> exists \cup {Gone}] /\ born' \in [Lines -> Nat]
      BY <1>7, <2>1, <3>1 DEF Put, TypeOK
    <3>3. written' = written + 1 /\ written < MaxLines
      BY <1>7, <2>1 DEF Put, Control
    <3>4. written' \in 0 .. MaxLines
      BY <3>3, Names DEF TypeOK
    <3>5. pc' \in [Threads -> {"dead", "idle", "measure", "rotate", "relock", "put", "hung"}
                              \cup InRotation]
      BY <1>7, <2>1 DEF Put, TypeOK
    <3>6. mutex' = NoThread /\ UNCHANGED <<limit, named, open, rotation, idx, exists,
                                          manual, crashes, rotations, damaged>>
      BY <1>7, <2>1 DEF Put
    <3> QED BY <3>2, <3>4, <3>5, <3>6 DEF TypeOK
  <2>2. CASE ~open
    BY <1>7, <2>2, Names DEF Put, TypeOK
  <2> QED BY <2>1, <2>2
<1>8. ASSUME NEW t \in Threads, RotateCall(t) PROVE TypeOK'
  BY <1>8 DEF RotateCall, InRotation, TypeOK
<1>9. ASSUME NEW t \in Threads, RotateClose(t) PROVE TypeOK'
  <2>1. idx' \in Nat /\ (Goto(t, "shift") \/ Goto(t, "clean"))
    BY <1>9, Numbers DEF RotateClose, ShiftFrom
  <2>2. pc' \in [Threads -> {"dead", "idle", "measure", "rotate", "relock", "put", "hung"}
                            \cup InRotation]
    BY <2>1 DEF InRotation, TypeOK
  <2>3. /\ open' \in BOOLEAN /\ rotations' = rotations + 1
        /\ UNCHANGED <<limit, named, mutex, rotation, exists, where, written, manual,
                       crashes, born, damaged>>
    BY <1>9 DEF RotateClose
  <2> QED BY <2>1, <2>2, <2>3 DEF TypeOK
<1>10. ASSUME NEW t \in Threads, RotateShift(t) PROVE TypeOK'
  <2>1. idx \in 1 .. limit - 1 /\ limit \in Nat
    BY <1>10, Numbers DEF RotateShift, Control
  <2>2. exists' \subseteq Nat /\ where' \in [Lines -> exists' \cup {Gone}]
    <3>1. CASE UNCHANGED disk
      BY <3>1 DEF TypeOK
    <3>2. CASE idx - 1 \in exists /\ Rename(idx)
      <4>1. idx >= 1
        BY <2>1
      <4> QED BY <3>2, <4>1, RenameFacts
    <3> QED BY <1>10, <3>1, <3>2 DEF RotateShift
  <2>3. damaged' \in BOOLEAN
    BY <1>10 DEF RotateShift, TypeOK
  <2>4. idx' \in Nat /\ (Goto(t, "shift") \/ Goto(t, "clean"))
    BY <1>10, <2>1 DEF RotateShift, ShiftFrom
  <2>5. pc' \in [Threads -> {"dead", "idle", "measure", "rotate", "relock", "put", "hung"}
                            \cup InRotation]
    BY <2>4 DEF InRotation, TypeOK
  <2>6. UNCHANGED <<limit, named, open, mutex, rotation, written, manual, crashes,
                    rotations, born>>
    BY <1>10 DEF RotateShift
  <2> QED BY <2>2, <2>3, <2>4, <2>5, <2>6 DEF TypeOK
<1>11. ASSUME NEW t \in Threads, RotateClean(t) PROVE TypeOK'
  <2>1. exists' \subseteq Nat /\ where' \in [Lines -> exists' \cup {Gone}]
    <3>1. CASE UNCHANGED disk
      BY <3>1 DEF TypeOK
    <3>2. CASE Remove(idx)
      BY <3>2, RemoveFacts
    <3> QED BY <1>11, <3>1, <3>2 DEF RotateClean
  <2> QED BY <1>11, <2>1 DEF RotateClean, InRotation, TypeOK
<1>12. ASSUME NEW t \in Threads, RotateOpen(t) PROVE TypeOK'
  <2>1. PICK ok \in BOOLEAN : OpenFile(named /\ ok, FALSE)
    BY <1>12 DEF RotateOpen
  <2>2. (named /\ ok) \in BOOLEAN
    OBVIOUS
  <2>3. /\ open' \in BOOLEAN /\ damaged' \in BOOLEAN
        /\ exists' \in {exists, exists \cup {0}} /\ where' \in [Lines -> exists' \cup {Gone}]
    BY <2>1, <2>2, OpenFacts
  <2>4. pc' \in [Threads -> {"dead", "idle", "measure", "rotate", "relock", "put", "hung"}
                            \cup InRotation]
    BY <1>12 DEF RotateOpen, TypeOK
  <2> QED BY <1>12, <2>3, <2>4 DEF RotateOpen, TypeOK
<1>13. CASE UNCHANGED vars
  BY <1>13 DEF vars, TypeOK
<1> QED
  BY <1>1, <1>2, <1>3, <1>4, <1>5, <1>6, <1>7, <1>8, <1>9, <1>10, <1>11, <1>12, <1>13
  DEF Next, Write, Rotate

\* Every step keeps what the step counters say about the lock and the files.
LEMMA ControlStep == TypeOK /\ Control /\ [Next]_vars => Control'
<1> SUFFICES ASSUME TypeOK, Control, [Next]_vars PROVE Control'
  OBVIOUS
<1> USE Names DEF Goto, process, locks, disk, bounds, history, Alive, InRotation, Control
<1>0. pc \in [Threads -> {"dead", "idle", "measure", "rotate", "relock", "put", "hung"}
                         \cup InRotation]
  BY DEF TypeOK
<1>1. CASE StartConfigured
  <2>1. PICK l \in Limits, ok \in BOOLEAN : limit' = l /\ OpenFile(ok, Lowered(l))
    BY <1>1 DEF StartConfigured
  <2>2. Lowered(l) \in BOOLEAN
    BY DEF Lowered
  <2>3. open' => 0 \in exists'
    BY <2>1, <2>2, OpenFacts
  <2>4. \A t \in Threads : pc'[t] = "idle"
    BY <1>1 DEF StartConfigured
  <2> QED BY <2>3, <2>4
<1>2. CASE StartWithSetters
  BY <1>2 DEF StartWithSetters
<1>3. CASE Crash
  BY <1>3 DEF Crash
<1>4. CASE Write
  <2>1. CASE WriteBegin
    BY <1>0, <2>1 DEF WriteBegin, Decide
  <2>2. CASE Measure
    BY <1>0, <2>2 DEF Measure, Decide
  <2>3. CASE WriteRelock
    BY <1>0, <2>3 DEF WriteRelock
  <2>4. CASE Put
    BY <1>0, <2>4 DEF Put
  <2> QED BY <1>4, <2>1, <2>2, <2>3, <2>4 DEF Write
<1>5. ASSUME NEW t \in Threads, RotateCall(t) PROVE Control'
  BY <1>0, <1>5 DEF RotateCall
<1>6. ASSUME NEW t \in Threads, RotateClose(t) PROVE Control'
  <2>1. limit \in Nat \ {0}
    BY Numbers
  <2> QED BY <1>0, <1>6, <2>1 DEF RotateClose, ShiftFrom
<1>7. ASSUME NEW t \in Threads, RotateShift(t) PROVE Control'
  <2>1. limit \in Nat /\ idx \in 1 .. limit - 1 /\ ~open
    BY <1>7, Numbers DEF RotateShift
  <2> QED BY <1>0, <1>7, <2>1 DEF RotateShift, ShiftFrom
<1>8. ASSUME NEW t \in Threads, RotateClean(t) PROVE Control'
  <2>1. limit \in Nat /\ idx \in Nat /\ ~open
    BY <1>8, Numbers DEF RotateClean
  <2> QED BY <1>0, <1>8, <2>1 DEF RotateClean
<1>9. ASSUME NEW t \in Threads, RotateOpen(t) PROVE Control'
  <2>1. PICK ok \in BOOLEAN : OpenFile(named /\ ok, FALSE)
    BY <1>9 DEF RotateOpen
  <2>2. (named /\ ok) \in BOOLEAN
    OBVIOUS
  <2>3. open' => open \/ 0 \in exists'
    BY <2>1, <2>2, OpenFacts
  <2>4. ~open
    BY <1>9 DEF RotateOpen
  <2> QED BY <1>0, <1>9, <2>3, <2>4 DEF RotateOpen
<1>10. CASE UNCHANGED vars
  BY <1>10 DEF vars
<1> QED
  BY <1>1, <1>2, <1>3, <1>4, <1>5, <1>6, <1>7, <1>8, <1>9, <1>10
  DEF Next, Rotate

-----------------------------------------------------------------------------
\* What the invariant says of the lines.
LineInv ==
  /\ Unwritten /\ OldestFirst /\ OnlyOldestLost
  /\ ~damaged => Placed /\ Shifting

\* A written line enters file 0, below every other, while nobody is in the loop.
LEMMA PutStep == IInv /\ TypeOK' /\ Put => LineInv'
<1> SUFFICES ASSUME IInv, TypeOK', Put PROVE LineInv'
  OBVIOUS
<1>1. CASE ~open
  <2>1. \A t \in Threads : pc'[t] = "shift" => pc[t] = "shift"
    BY <1>1 DEF Put, Goto, IInv, TypeOK
  <2>2. UNCHANGED <<where, born, written, rotations, damaged, limit, named, idx>>
    BY <1>1 DEF Put, process
  <2> QED BY <2>1, <2>2, Forgetting, Numbers DEF IInv, LineInv
<1>2. CASE open
  <2> DEFINE w == written + 1
  <2>0. limit \in Nat \ {0} /\ where \in [Lines -> Int] /\ born \in [Lines -> Nat]
        /\ rotations \in Nat /\ written \in Nat /\ w \in Lines
    <3>1. pc[Writer] = "put" /\ written < MaxLines /\ written \in 0 .. MaxLines
      BY DEF Put, IInv, Control, TypeOK
    <3>2. limit \in Nat \ {0} /\ where \in [Lines -> Int]
      BY Numbers DEF IInv
    <3>3. born \in [Lines -> Nat] /\ rotations \in Nat
      BY DEF IInv, TypeOK
    <3>4. written \in Nat /\ w \in Lines
      BY <3>1, Names DEF Lines
    <3> QED BY <3>2, <3>3, <3>4
  <2>1. /\ where' = [where EXCEPT ![w] = 0] /\ born' = [born EXCEPT ![w] = rotations]
        /\ written' = w /\ UNCHANGED <<rotations, damaged, limit>>
    BY <1>2 DEF Put, process
  <2>2. /\ \A n \in Lines : where'[n] = IF n = w THEN 0 ELSE where[n]
        /\ \A n \in Lines : born'[n] = IF n = w THEN rotations ELSE born[n]
    BY <2>0, <2>1
  <2>3. \A n \in Lines : n \in Int /\ (n > written => where[n] = Gone)
    BY Names DEF IInv, Unwritten, Kept, Lines
  <2>4. \A n \in Lines : where[n] = Gone \/ where[n] >= 0
    BY Places DEF IInv
  <2>5. \A t \in Threads : pc'[t] # "shift"
    BY <1>2, Names DEF Put, Goto, IInv, Control, TypeOK
  <2> HIDE DEF w
  <2>6. w = written + 1
    BY DEF w
  <2>7. Unwritten'
    BY <2>0, <2>1, <2>2, <2>3, <2>6 DEF Unwritten, Kept
  <2>8. OldestFirst'
    BY <2>0, <2>2, <2>3, <2>4, <2>6 DEF IInv, OldestFirst, Kept, Gone
  <2>9. OnlyOldestLost'
    BY <2>0, <2>1, <2>2, <2>3, <2>6 DEF IInv, OnlyOldestLost, Kept, Gone
  <2>10. ~damaged' => Placed'
    BY <2>0, <2>1, <2>2 DEF IInv, Placed, Kept
  <2>11. Shifting'
    BY <2>5 DEF Shifting
  <2> QED BY <2>7, <2>8, <2>9, <2>10, <2>11 DEF LineInv
<1> QED BY <1>1, <1>2

\* A rotation begins: every line has one more to account for.
LEMMA CloseStep ==
  ASSUME IInv, TypeOK', NEW t \in Threads, RotateClose(t)
  PROVE  LineInv'
<1>0. /\ limit \in Nat \ {0} /\ where \in [Lines -> Int] /\ born \in [Lines -> Nat]
      /\ rotations \in Nat
  BY Numbers DEF IInv, TypeOK
<1>1. UNCHANGED <<where, born, written, damaged, limit, named>> /\ rotations' = rotations + 1
  BY DEF RotateClose, disk, bounds
<1>2. \A u \in Threads : pc'[u] = "shift" => idx' = limit - 1
  <2>1. pc \in [Threads -> {"dead", "idle", "measure", "rotate", "relock", "put", "hung"}
                            \cup InRotation]
    BY DEF IInv, TypeOK
  <2>2. \A u \in Threads : pc[u] = "shift" => u = t
    BY Names DEF IInv, Control, RotateClose, InRotation
  <2>3. pc[t] = "close"
    BY DEF RotateClose
  <2> QED BY <1>0, <2>1, <2>2, <2>3 DEF RotateClose, ShiftFrom, Goto
<1>3. Unwritten' /\ OldestFirst' /\ OnlyOldestLost'
  BY <1>1 DEF IInv, Unwritten, OldestFirst, OnlyOldestLost, Kept
<1>4. ~damaged' => Placed' /\ Shifting'
  BY <1>0, <1>1, <1>2 DEF IInv, Placed, Shifting, Kept
<1> QED BY <1>3, <1>4 DEF LineInv

\* One renaming.  Without damage file idx is empty or the last, so the lines
\* that go are the oldest and have seen limit rotations.
LEMMA RenameStep ==
  ASSUME IInv, TypeOK', NEW t \in Threads, RotateShift(t), Rename(idx),
         named, idx - 1 \in exists, UNCHANGED damaged
  PROVE  /\ LineInv'
         /\ ~damaged => \A n \in Lines : Kept(n) /\ where'[n] = Gone
                                           => rotations - born[n] >= limit
<1>0. /\ limit \in Nat \ {0} /\ where \in [Lines -> Int] /\ born \in [Lines -> Nat]
      /\ rotations \in Nat /\ idx \in 1 .. limit - 1
  BY Numbers DEF IInv, TypeOK, Control, RotateShift
<1>1. UNCHANGED <<born, written, damaged, limit, named, rotations>>
  BY DEF RotateShift, process, bounds
<1>2. \A n \in Lines : where'[n] = IF where[n] = idx - 1 THEN idx
                                   ELSE IF where[n] = idx THEN Gone ELSE where[n]
  BY <1>0, RenameFacts DEF IInv
<1>3. \A n \in Lines : where[n] = Gone \/ where[n] >= 0
  BY Places DEF IInv
<1>4. pc[t] = "shift"
  BY DEF RotateShift
<1>5. \A u \in Threads : pc'[u] = "shift" => idx' = idx - 1
  <2>1. pc \in [Threads -> {"dead", "idle", "measure", "rotate", "relock", "put", "hung"}
                            \cup InRotation]
    BY DEF IInv, TypeOK
  <2>2. \A u \in Threads : pc[u] = "shift" => u = t
    BY <1>4, Names DEF IInv, Control, InRotation
  <2> QED BY <1>0, <2>1, <2>2 DEF RotateShift, ShiftFrom, Goto
<1>6. Unwritten'
  BY <1>0, <1>1, <1>2 DEF IInv, Unwritten, Kept, Gone
<1>7. OldestFirst'
  BY <1>0, <1>2, <1>3 DEF IInv, OldestFirst, Kept, Gone
<1>8. ASSUME ~damaged PROVE OnlyOldestLost' /\ Placed' /\ Shifting'
  <2>1. \A n \in Lines : Kept(n) =>
          /\ where[n] < limit /\ where[n] + born[n] <= rotations
          /\ where[n] <= idx => where[n] + born[n] < rotations
          /\ where[n] = idx => idx = limit - 1
    BY <1>4, <1>8 DEF IInv, Placed, Shifting
  <2>2. OnlyOldestLost'
    BY <1>0, <1>1, <1>2, <1>3, <1>8, <2>1
    DEF IInv, OnlyOldestLost, OldestFirst, Kept, Gone, Lines
  <2>3. Placed'
    BY <1>0, <1>1, <1>2, <1>3, <2>1 DEF Placed, Kept, Gone
  <2>4. Shifting'
    BY <1>0, <1>1, <1>2, <1>3, <1>5, <2>1 DEF Shifting, Kept, Gone
  <2> QED BY <2>2, <2>3, <2>4
<1>9. ASSUME ~damaged, NEW n \in Lines, Kept(n), where'[n] = Gone
      PROVE  rotations - born[n] >= limit
  <2>1. where[n] = idx
    BY <1>0, <1>2, <1>9 DEF Kept, Gone
  <2>2. where[n] + born[n] < rotations /\ idx = limit - 1
    BY <1>0, <1>4, <1>9, <2>1 DEF IInv, Shifting
  <2> QED BY <1>0, <2>1, <2>2
<1>10. OnlyOldestLost' /\ (~damaged' => Placed' /\ Shifting')
  BY <1>1, <1>8 DEF OnlyOldestLost
<1> QED BY <1>6, <1>7, <1>9, <1>10 DEF LineInv

\* A round of the loop that renames nothing: there was no such file, or renaming
\* failed and counts as damage.
LEMMA SkipStep ==
  ASSUME IInv, TypeOK', NEW t \in Threads, RotateShift(t), UNCHANGED disk
  PROVE  LineInv'
<1>0. /\ limit \in Nat \ {0} /\ where \in [Lines -> Int] /\ born \in [Lines -> Nat]
      /\ rotations \in Nat /\ idx \in 1 .. limit - 1
  BY Numbers DEF IInv, TypeOK, Control, RotateShift
<1>1. UNCHANGED <<where, born, written, limit, named, rotations>>
  BY DEF RotateShift, process, bounds, disk
<1>2. pc[t] = "shift" /\ \A u \in Threads : pc'[u] = "shift" => idx' = idx - 1
  <2>1. pc \in [Threads -> {"dead", "idle", "measure", "rotate", "relock", "put", "hung"}
                            \cup InRotation]
    BY DEF IInv, TypeOK
  <2>2. pc[t] = "shift" /\ \A u \in Threads : pc[u] = "shift" => u = t
    BY Names DEF IInv, Control, InRotation, RotateShift
  <2> QED BY <1>0, <2>1, <2>2 DEF RotateShift, ShiftFrom, Goto
<1>3. Unwritten' /\ OldestFirst'
  BY <1>1 DEF IInv, Unwritten, OldestFirst, Kept
<1>4. ASSUME ~damaged' PROVE OnlyOldestLost' /\ Placed' /\ Shifting'
  <2>1. ~damaged /\ (named => idx - 1 \notin exists)
    <3>1. CASE named /\ idx - 1 \in exists /\ Rename(idx)
      <4>1. exists' = exists /\ exists' = (exists \ {idx - 1}) \cup {idx}
        BY <3>1 DEF Rename, disk
      <4> QED BY <1>0, <3>1, <4>1
    <3> QED BY <1>4, <3>1 DEF RotateShift, IInv, TypeOK
  <2>2. named => \A n \in Lines : Kept(n) => where[n] # idx - 1
    BY <2>1, Places DEF IInv, Kept
  <2>3. OnlyOldestLost' /\ Placed'
    BY <1>1, <2>1 DEF IInv, OnlyOldestLost, Placed, Kept
  <2>4. Shifting'
    BY <1>0, <1>1, <1>2, <2>1, <2>2 DEF IInv, Shifting, Kept
  <2> QED BY <2>3, <2>4
<1>5. OnlyOldestLost'
  BY <1>4 DEF OnlyOldestLost
<1> QED BY <1>3, <1>4, <1>5 DEF LineInv

\* What a step may lose: without damage, only the lines that have seen limit
\* rotations.
AgedGo ==
  ~damaged' => \A n \in Lines : Kept(n) /\ where'[n] = Gone => rotations - born[n] >= limit

\* The steps that change no file index keep what is said of the lines.
LEMMA QuietStep ==
  ASSUME IInv, TypeOK', UNCHANGED <<written, rotations, born>>,
         \A n \in Lines : where'[n] # Gone => where'[n] = where[n],
         ~damaged' => ~damaged /\ where' = where,
         ~damaged' => limit' >= limit \/ \A n \in Lines : where[n] = Gone,
         \A t \in Threads : pc'[t] = "shift" =>
             pc[t] = "shift" /\ idx' = idx /\ limit' = limit /\ named' = named
  PROVE  LineInv' /\ AgedGo
<1>1. LineInv'
  BY Forgetting DEF LineInv
<1>2. AgedGo
  BY DEF AgedGo, Kept
<1> QED BY <1>1, <1>2

\* Every step keeps the lines in order, and those that go have seen limit rotations.
LEMMA LineStep == IInv /\ TypeOK' /\ [Next]_vars => LineInv' /\ AgedGo
<1> SUFFICES ASSUME IInv, TypeOK', [Next]_vars PROVE LineInv' /\ AgedGo
  OBVIOUS
<1>0. /\ pc \in [Threads -> {"dead", "idle", "measure", "rotate", "relock", "put", "hung"}
                            \cup InRotation]
      /\ limit \in Nat \ {0} /\ limit' \in Nat
  BY Numbers, NumbersNext DEF IInv, TypeOK
<1>1. ASSUME NEW l \in Limits, Lowered(l) = FALSE
      PROVE  l >= limit \/ \A n \in Lines : where[n] = Gone
  <2>1. CASE exists = {}
    BY <2>1, Places DEF IInv
  <2>2. CASE exists # {}
    <3>1. ~(l < limit) /\ l \in Nat
      BY <1>1, <2>2, Names DEF Lowered
    <3> QED BY <1>0, <3>1
  <2> QED BY <2>1, <2>2
<1>2. CASE StartConfigured
  <2>1. PICK l \in Limits, ok \in BOOLEAN : limit' = l /\ OpenFile(ok, Lowered(l))
    BY <1>2 DEF StartConfigured
  <2>2. Lowered(l) \in BOOLEAN
    BY DEF Lowered
  <2>3. /\ \A n \in Lines : where'[n] # Gone => where'[n] = where[n]
        /\ ~damaged' => ~damaged /\ ~Lowered(l) /\ where' = where
    BY <2>1, <2>2, OpenFacts DEF IInv
  <2>4. ~damaged' => limit' >= limit \/ \A n \in Lines : where[n] = Gone
    BY <1>1, <2>1, <2>2, <2>3
  <2>5. (\A t \in Threads : pc'[t] = "idle") /\ UNCHANGED <<written, rotations, born>>
    BY <1>2 DEF StartConfigured, bounds
  <2> QED BY <2>3, <2>4, <2>5, QuietStep
<1>3. CASE StartWithSetters
  <2>1. PICK l \in Limits : limit' = l /\ damaged' = (damaged \/ Lowered(l))
    BY <1>3 DEF StartWithSetters
  <2>2. Lowered(l) \in BOOLEAN
    BY DEF Lowered
  <2>3. ~damaged' => ~damaged /\ (limit' >= limit \/ \A n \in Lines : where[n] = Gone)
    BY <1>1, <2>1, <2>2
  <2>4. (\A t \in Threads : pc'[t] = "idle") /\ UNCHANGED <<where, written, rotations, born>>
    BY <1>3 DEF StartWithSetters, bounds, disk
  <2> QED BY <2>3, <2>4, QuietStep
<1>4. CASE Crash
  <2>1. (\A t \in Threads : pc'[t] = "dead") /\ damaged' = damaged /\ limit' = limit
        /\ UNCHANGED <<where, written, rotations, born>>
    BY <1>4 DEF Crash, disk, history
  <2> QED BY <1>0, <2>1, QuietStep
<1>5. CASE WriteBegin \/ Measure \/ WriteRelock
  <2>1. \A t \in Threads : pc'[t] = "shift" => pc[t] = "shift"
    BY <1>0, <1>5 DEF WriteBegin, Measure, WriteRelock, Decide, Goto
  <2>2. UNCHANGED <<where, written, rotations, born, damaged, limit, named, idx>>
    BY <1>5 DEF WriteBegin, Measure, WriteRelock, process, disk, bounds, history
  <2> QED BY <1>0, <2>1, <2>2, QuietStep
<1>6. CASE Put
  <2>1. LineInv'
    BY <1>6, PutStep
  <2>2. \A n \in Lines : where'[n] = Gone => where[n] = Gone
    BY <1>6 DEF Put, Gone, IInv, TypeOK
  <2> QED BY <2>1, <2>2 DEF AgedGo, Kept
<1>7. ASSUME NEW t \in Threads, RotateCall(t) PROVE LineInv' /\ AgedGo
  <2>1. \A u \in Threads : pc'[u] = "shift" => pc[u] = "shift"
    BY <1>0, <1>7 DEF RotateCall, Goto
  <2>2. UNCHANGED <<where, written, rotations, born, damaged, limit, named, idx>>
    BY <1>7 DEF RotateCall, process, disk, history
  <2> QED BY <1>0, <2>1, <2>2, QuietStep
<1>8. ASSUME NEW t \in Threads, RotateClose(t) PROVE LineInv' /\ AgedGo
  <2>1. where' = where
    BY <1>8 DEF RotateClose, disk
  <2> QED BY <1>8, <2>1, CloseStep DEF AgedGo, Kept
<1>9. ASSUME NEW t \in Threads, RotateShift(t) PROVE LineInv' /\ AgedGo
  <2>1. CASE UNCHANGED disk
    <3>1. where' = where
      BY <2>1 DEF disk
    <3> QED BY <1>9, <2>1, <3>1, SkipStep DEF AgedGo, Kept
  <2>2. CASE named /\ idx - 1 \in exists /\ Rename(idx) /\ UNCHANGED damaged
    BY <1>9, <2>2, RenameStep DEF AgedGo
  <2> QED BY <1>9, <2>1, <2>2 DEF RotateShift
<1>10. ASSUME NEW t \in Threads, RotateClean(t) PROVE LineInv' /\ AgedGo
  <2>1. \A n \in Lines : where'[n] # Gone => where'[n] = where[n]
    <3>1. CASE UNCHANGED disk
      BY <3>1 DEF disk
    <3>2. CASE Remove(idx)
      BY <3>2, RemoveFacts DEF IInv
    <3> QED BY <1>10, <3>1, <3>2 DEF RotateClean
  <2>2. UNCHANGED <<written, rotations, born, damaged, limit, named>>
    BY <1>10 DEF RotateClean, process, bounds, history
  <2>3. \A u \in Threads : pc[u] \in InRotation => u = t
    BY <1>10 DEF IInv, Control, RotateClean, InRotation
  <2>4. \A u \in Threads : pc'[u] # "shift"
    BY <1>0, <1>10, <2>3 DEF RotateClean, Goto, InRotation
  <2>5. ASSUME ~damaged PROVE where' = where
    <3>1. CASE UNCHANGED disk
      BY <3>1 DEF disk
    <3>2. CASE Remove(idx)
      <4>1. idx >= limit /\ idx \in Nat
        BY <1>10, Numbers DEF IInv, Control, RotateClean
      <4>2. \A n \in Lines : where[n] # idx
        BY <1>0, <2>5, <4>1, Numbers DEF IInv, Placed, Kept, Gone
      <4>3. where' = [n \in Lines |-> where[n]] /\ where \in [Lines -> Int]
        BY <3>2, <4>2, Numbers DEF Remove, IInv
      <4> QED BY <4>3
    <3> QED BY <1>10, <3>1, <3>2 DEF RotateClean
  <2> QED BY <1>0, <2>1, <2>2, <2>4, <2>5, QuietStep
<1>11. ASSUME NEW t \in Threads, RotateOpen(t) PROVE LineInv' /\ AgedGo
  <2>1. PICK ok \in BOOLEAN : OpenFile(named /\ ok, FALSE)
    BY <1>11 DEF RotateOpen
  <2>2. (named /\ ok) \in BOOLEAN
    OBVIOUS
  <2>3. /\ \A n \in Lines : where'[n] # Gone => where'[n] = where[n]
        /\ ~damaged' => ~damaged /\ where' = where
    BY <2>1, <2>2, OpenFacts DEF IInv
  <2>4. \A u \in Threads : pc'[u] = "shift" => pc[u] = "shift"
    BY <1>0, <1>11 DEF RotateOpen, Goto
  <2>5. UNCHANGED <<written, rotations, born, limit, named, idx>>
    BY <1>11 DEF RotateOpen, bounds
  <2> QED BY <1>0, <2>3, <2>4, <2>5, QuietStep
<1>12. CASE UNCHANGED vars
  <2>1. UNCHANGED <<where, written, rotations, born, damaged, limit, named, idx, pc>>
    BY <1>12 DEF vars, process, disk, bounds, history
  <2> QED BY <1>0, <2>1, QuietStep
<1> QED
  BY <1>2, <1>3, <1>4, <1>5, <1>6, <1>7, <1>8, <1>9, <1>10, <1>11, <1>12
  DEF Next, Write, Rotate

\* Every step keeps the invariant.
LEMMA Step == IInv /\ [Next]_vars => IInv' /\ AgedGo
<1> SUFFICES ASSUME IInv, [Next]_vars PROVE IInv' /\ AgedGo
  OBVIOUS
<1>1. TypeOK'
  BY TypeStep DEF IInv
<1>2. Control'
  BY ControlStep DEF IInv
<1>3. LineInv' /\ AgedGo
  BY <1>1, LineStep
<1> QED BY <1>1, <1>2, <1>3 DEF IInv, LineInv

\* The invariant holds of every behaviour.
LEMMA Invariance == Spec => []IInv
<1>1. IInv /\ [Next]_vars => IInv'
  BY Step
<1> QED BY InitInv, <1>1, PTL DEF Spec

-----------------------------------------------------------------------------
\* Every state has the types of its variables, and a file that holds a line
\* exists.
THEOREM TypeCorrect == Spec => []TypeOK
BY Invariance, PTL DEF IInv

\* The files read from the highest index down are in the order of writing,
\* whatever fails, crashes or is configured.
THEOREM Ordered == Spec => []OldestFirst
BY Invariance, PTL DEF IInv

\* Without a failed renaming, a lowered limit or a truncation, the log has no
\* hole, in the middle of a rotation and after a crash in it too.
THEOREM NoHole == Spec => []OnlyOldestLost
BY Invariance, PTL DEF IInv

\* And no line goes before max_files rotations have begun since it was written.
THEOREM AgedLinesGo == Spec => OnlyAgedLinesGo
<1>1. IInv /\ [Next]_vars => [AgedGo]_vars
  BY Step
<1>2. [AgedGo]_vars =>
        [~damaged' => \A n \in Lines : Kept(n) /\ where'[n] = Gone
                                         => rotations - born[n] >= limit]_vars
  BY DEF AgedGo
<1> QED BY Invariance, <1>1, <1>2, PTL DEF Spec, OnlyAgedLinesGo
-----------------------------------------------------------------------------
(***************************************************************************)
(* Sizes.  Only the writer makes a file longer, and only file 0, so that   *)
(* what has to be known of the other threads is that they leave it empty   *)
(* when they open it again.                                                *)
(***************************************************************************)
BySize == Policy \in {"size", "size_time"} /\ 1 \notin Limits

\* Only a sink with a path opens a file.
Unnamed == (~named \/ pc[Writer] = "dead") => ~open

\* Whatever has happened between the writer's test of the size and its writing,
\* there is room in the file its stream is open for.
Room == pc[Writer] \in {"relock", "put"} /\ open /\ InFile(0) # {} => ~Full(InFile(0))

\* A rotation that is through with the loop has left nothing in file 0.
Emptied == \A t \in Threads : named /\ pc[t] \in {"clean", "open"} => InFile(0) = {}

\* In every file, the lines before another one are less than the limit.
Before(lines, n) == {m \in lines : m < n}
Fits(lines) == \A n \in lines : Before(lines, n) # {} => ~Full(Before(lines, n))
Sized == \A i \in Nat : Fits(InFile(i))

SizeInv == Unnamed /\ (BySize /\ ~damaged => Room /\ Emptied /\ Sized)

\* A step that changes no file keeps the sizes; what is to be shown is that the writer
\* does not come to write into a full file, and no rotation to its end.
LEMMA SameFiles ==
  ASSUME SizeInv, UNCHANGED where, ~damaged' => ~damaged, Unnamed',
         BySize /\ ~damaged => Room' /\ Emptied'
  PROVE  SizeInv'
BY DEF SizeInv, Sized, InFile

\* At the start no file is above its limit.
LEMMA InitSize == Init => SizeInv
<1> SUFFICES ASSUME Init PROVE SizeInv
  OBVIOUS
<1>1. pc[Writer] = "dead" /\ ~open /\ \A t \in Threads : pc[t] = "dead"
  BY Names DEF Init
<1>2. \A i \in Nat : InFile(i) = {}
  BY DEF Init, InFile, Gone
<1> QED BY <1>1, <1>2 DEF SizeInv, Unnamed, Room, Emptied, Sized, Fits

\* A line is written into a file with room for it.
LEMMA SizePut == IInv /\ SizeInv /\ Put => SizeInv'
<1> SUFFICES ASSUME IInv, SizeInv, Put PROVE SizeInv'
  OBVIOUS
<1>0. /\ pc[Writer] = "put" /\ UNCHANGED <<damaged, named, open>>
      /\ pc \in [Threads -> {"dead", "idle", "measure", "rotate", "relock", "put", "hung"}
                            \cup InRotation]
  BY DEF Put, process, IInv, TypeOK
<1>1. pc'[Writer] \in {"idle", "hung"} /\ \A t \in Threads : t # Writer => pc'[t] = pc[t]
  BY <1>0, Names DEF Put, Goto
<1>2. Unnamed' /\ Room'
  BY <1>0, <1>1, Names DEF SizeInv, Unnamed, Room
<1>3. CASE ~open
  <2>1. where' = where
    BY <1>3 DEF Put
  <2>2. BySize /\ ~damaged => Emptied'
    BY <1>0, <1>1, <2>1, Names DEF SizeInv, Emptied, InFile
  <2> QED BY <1>0, <1>2, <2>1, <2>2, SameFiles
<1>4. CASE open
  <2> DEFINE w == written + 1
  <2>1. w \in Lines /\ where[w] = Gone /\ where \in [Lines -> Int]
    <3>1. written < MaxLines /\ written \in 0 .. MaxLines
      BY <1>0 DEF IInv, Control, TypeOK
    <3>2. w \in Lines /\ w > written
      BY <3>1, Names DEF Lines
    <3> QED BY <3>2, Numbers DEF IInv, Unwritten, Kept
  <2>2. \A n \in Lines : where'[n] = IF n = w THEN 0 ELSE where[n]
    BY <1>4, <2>1 DEF Put
  <2>3. InFile(0)' = InFile(0) \cup {w} /\ w \notin InFile(0)
    BY <2>1, <2>2 DEF InFile, Gone
  <2>4. \A i \in Nat \ {0} : InFile(i)' = InFile(i)
    BY <2>1, <2>2 DEF InFile, Gone
  <2>7. w \in Nat /\ \A n \in Lines : where[n] = 0 => n < w
    <3>1. written \in Nat /\ \A n \in Lines : n > written => where[n] = Gone
      BY <1>0, Names DEF IInv, TypeOK, Unwritten, Kept
    <3> QED BY <3>1, Names DEF Lines, Gone
  <2> HIDE DEF w
  <2>5. \A t \in Threads : pc'[t] \notin {"clean", "open"}
    BY <1>1, <1>4 DEF IInv, Control
  <2>6. ASSUME BySize, ~damaged PROVE Sized'
    <3>1. (InFile(0) # {} => ~Full(InFile(0))) /\ Sized
      BY <1>0, <1>4, <2>6 DEF SizeInv, Room
    <3>2. InFile(0) \in SUBSET Nat /\ Fits(InFile(0))
      BY <3>1, Names DEF InFile, Lines, Sized
    <3>3. \A m \in InFile(0) : m < w
      BY <2>7, <3>2 DEF InFile
    <3>4. Before(InFile(0)', w) = InFile(0)
      BY <2>3, <2>7, <3>2, <3>3 DEF Before
    <3>5. \A n \in InFile(0) : Before(InFile(0)', n) = Before(InFile(0), n)
      BY <2>3, <2>7, <3>2, <3>3 DEF Before
    <3>6. Fits(InFile(0)')
      BY <2>3, <3>1, <3>2, <3>4, <3>5 DEF Fits
    <3> QED BY <2>4, <3>1, <3>6 DEF Sized
  <2> QED BY <1>0, <1>2, <2>5, <2>6 DEF SizeInv, Emptied
<1> QED BY <1>3, <1>4

\* openFile() leaves the files as they are, or it has done damage.
LEMMA SizeOpen ==
  ASSUME IInv, SizeInv, NEW t \in Threads, RotateOpen(t)
  PROVE  SizeInv'
<1>1. PICK ok \in BOOLEAN : OpenFile(named /\ ok, FALSE)
  BY DEF RotateOpen
<1>2. (named /\ ok) \in BOOLEAN
  OBVIOUS
<1>3. ~damaged' => ~damaged /\ where' = where
  BY <1>1, <1>2, OpenFacts DEF IInv
<1>4. /\ pc[t] = "open" /\ ~open /\ UNCHANGED named
      /\ pc' = [pc EXCEPT ![t] = IF t = Writer THEN "relock" ELSE "idle"]
      /\ pc \in [Threads -> {"dead", "idle", "measure", "rotate", "relock", "put", "hung"}
                            \cup InRotation]
  BY DEF RotateOpen, Goto, IInv, TypeOK, Control
<1>5. open' => named
  BY <1>1, <1>4 DEF OpenFile
<1>6. pc'[Writer] # "dead"
  <2>1. pc[Writer] # "dead"
    BY <1>4, Names DEF IInv, Control
  <2> QED BY <1>4, <2>1, Names
<1>7. Unnamed'
  BY <1>4, <1>5, <1>6 DEF Unnamed
<1>8. ASSUME BySize, ~damaged' PROVE Room' /\ Emptied' /\ Sized'
  <2>1. named => InFile(0) = {}
    BY <1>3, <1>4, <1>8 DEF SizeInv, Emptied
  <2>2. UNCHANGED where /\ Emptied /\ Sized
    BY <1>3, <1>8 DEF SizeInv
  <2>3. Emptied' /\ Sized'
    BY <1>4, <2>2 DEF Emptied, Sized, InFile
  <2>4. open' => InFile(0)' = {}
    BY <1>5, <2>1, <2>2 DEF InFile
  <2> QED BY <2>3, <2>4 DEF Room
<1> QED BY <1>7, <1>8 DEF SizeInv

\* A renaming moves a file of an allowed size, and the last one empties file 0.
LEMMA SizeShift ==
  ASSUME IInv, SizeInv, NEW t \in Threads, RotateShift(t)
  PROVE  SizeInv'
<1>0. /\ idx \in 1 .. limit - 1 /\ limit \in Nat \ {0} /\ pc[t] = "shift" /\ ~open
      /\ pc \in [Threads -> {"dead", "idle", "measure", "rotate", "relock", "put", "hung"}
                            \cup InRotation]
  BY Numbers DEF IInv, TypeOK, Control, RotateShift
<1>1. UNCHANGED <<open, named>> /\ \A u \in Threads : u # t => pc'[u] = pc[u]
  BY <1>0 DEF RotateShift, process, ShiftFrom, Goto
<1>2. pc'[t] \in {"shift", "clean"} /\ (pc'[t] = "clean" => idx = 1)
  BY <1>0 DEF RotateShift, ShiftFrom, Goto
<1>3. \A u \in Threads : pc'[u] \in {"clean", "open"} => u = t
  BY <1>0, <1>1, Names DEF IInv, Control, InRotation
<1>4. Unnamed' /\ Room'
  BY <1>0, <1>1 DEF Unnamed, Room
<1>5. CASE named /\ idx - 1 \in exists /\ Rename(idx) /\ UNCHANGED damaged
  <2>1. /\ \A n \in Lines : where'[n] = IF where[n] = idx - 1 THEN idx
                                        ELSE IF where[n] = idx THEN Gone ELSE where[n]
        /\ where \in [Lines -> Int]
    BY <1>0, <1>5, RenameFacts, Numbers DEF IInv
  <2>2. \A i \in Nat : InFile(i)' = IF i = idx THEN InFile(idx - 1)
                                   ELSE IF i = idx - 1 THEN {} ELSE InFile(i)
    <3> SUFFICES ASSUME NEW i \in Nat
                 PROVE  InFile(i)' = IF i = idx THEN InFile(idx - 1)
                                     ELSE IF i = idx - 1 THEN {} ELSE InFile(i)
      OBVIOUS
    <3>1. \A n \in Lines : where'[n] = i <=> IF i = idx THEN where[n] = idx - 1
                                            ELSE IF i = idx - 1 THEN FALSE ELSE where[n] = i
      BY <1>0, <2>1 DEF Gone
    <3> QED BY <3>1 DEF InFile
  <2>3. ASSUME BySize, ~damaged PROVE Sized' /\ Emptied'
    <3>1. Sized /\ idx - 1 \in Nat
      BY <1>0, <2>3 DEF SizeInv
    <3>2. Sized'
      <4> SUFFICES ASSUME NEW i \in Nat PROVE Fits(InFile(i)')
        BY DEF Sized
      <4>1. Fits({})
        BY DEF Fits
      <4> QED BY <2>2, <3>1, <4>1 DEF Sized
    <3>3. Emptied'
      BY <1>2, <1>3, <2>2 DEF Emptied
    <3> QED BY <3>2, <3>3
  <2> QED BY <1>4, <1>5, <2>3 DEF SizeInv
<1>6. CASE UNCHANGED where /\ damaged' = TRUE
  BY <1>4, <1>6 DEF SizeInv
<1>7. CASE ~(named /\ idx - 1 \in exists) /\ UNCHANGED <<where, damaged>>
  <2>1. Emptied'
    <3> SUFFICES ASSUME NEW u \in Threads, named', pc'[u] \in {"clean", "open"}
                 PROVE  InFile(0)' = {}
      BY DEF Emptied
    <3>1. idx = 1 /\ named /\ 0 \notin exists
      BY <1>0, <1>1, <1>2, <1>3, <1>7
    <3> QED BY <1>7, <3>1, Places DEF IInv, InFile, Gone
  <2> QED BY <1>4, <1>7, <2>1, SameFiles
<1> QED BY <1>5, <1>6, <1>7 DEF RotateShift, disk

\* Removing a file makes none longer.
LEMMA SizeClean ==
  ASSUME IInv, SizeInv, NEW t \in Threads, RotateClean(t)
  PROVE  SizeInv'
<1>0. /\ pc[t] = "clean" /\ ~open /\ UNCHANGED <<open, named, damaged>>
      /\ pc \in [Threads -> {"dead", "idle", "measure", "rotate", "relock", "put", "hung"}
                            \cup InRotation]
  BY DEF RotateClean, process, history, IInv, TypeOK, Control
<1>1. idx \in Nat /\ where \in [Lines -> Int]
  BY Numbers DEF IInv, TypeOK
<1>2. \A i \in Nat : InFile(i)' \in {InFile(i), {}}
  <2>1. CASE UNCHANGED disk
    BY <2>1 DEF disk, InFile
  <2>2. CASE Remove(idx)
    <3>1. \A n \in Lines : where'[n] = IF where[n] = idx THEN Gone ELSE where[n]
      BY <2>2 DEF Remove
    <3> SUFFICES ASSUME NEW i \in Nat PROVE InFile(i)' = IF i = idx THEN {} ELSE InFile(i)
      OBVIOUS
    <3>2. \A n \in Lines : where'[n] = i <=> where[n] = i /\ i # idx
      BY <1>1, <3>1 DEF Gone
    <3> QED BY <3>2 DEF InFile
  <2> QED BY <2>1, <2>2 DEF RotateClean
<1>3. Unnamed' /\ Room'
  BY <1>0 DEF Unnamed, Room
<1>4. ASSUME BySize, ~damaged PROVE Emptied' /\ Sized'
  <2>1. Emptied /\ Sized
    BY <1>4 DEF SizeInv
  <2>2. named => InFile(0) = {}
    BY <1>0, <2>1 DEF Emptied
  <2>3. pc'[t] \in {"clean", "open"} /\ \A u \in Threads : u # t => pc'[u] = pc[u]
    BY <1>0 DEF RotateClean, Goto
  <2>4. Emptied'
    BY <1>0, <1>2, <2>2, <2>3 DEF Emptied
  <2>5. Fits({})
    BY DEF Fits
  <2>6. Sized'
    BY <1>2, <2>1, <2>5 DEF Sized
  <2> QED BY <2>4, <2>6
<1> QED BY <1>0, <1>3, <1>4 DEF SizeInv

\* Every step keeps the sizes.
LEMMA SizeStep == IInv /\ SizeInv /\ [Next]_vars => SizeInv'
<1> SUFFICES ASSUME IInv, SizeInv, [Next]_vars PROVE SizeInv'
  OBVIOUS
<1>0. /\ pc \in [Threads -> {"dead", "idle", "measure", "rotate", "relock", "put", "hung"}
                            \cup InRotation]
      /\ limit \in Nat \ {0} /\ MaxSize \in Nat \ {0}
  BY Numbers, SinkAssumption DEF IInv, TypeOK
<1>1. CASE StartConfigured
  <2>1. PICK l \in Limits, ok \in BOOLEAN : limit' = l /\ OpenFile(ok, Lowered(l))
    BY <1>1 DEF StartConfigured
  <2>2. Lowered(l) \in BOOLEAN
    BY DEF Lowered
  <2>3. ~damaged' => ~damaged /\ where' = where
    BY <2>1, <2>2, OpenFacts DEF IInv
  <2>4. named' = TRUE /\ \A t \in Threads : pc'[t] = "idle"
    BY <1>1 DEF StartConfigured
  <2>5. Unnamed' /\ Room' /\ Emptied'
    BY <2>4, Names DEF Unnamed, Room, Emptied
  <2> QED BY <2>3, <2>5 DEF SizeInv, Sized, InFile
<1>2. CASE StartWithSetters
  <2>1. ~damaged' => ~damaged
    BY <1>2 DEF StartWithSetters, Lowered, IInv, TypeOK
  <2>2. UNCHANGED <<where, open>> /\ \A t \in Threads : pc'[t] = "idle"
    BY <1>2 DEF StartWithSetters, disk
  <2>3. ~open
    BY <1>2 DEF StartWithSetters, Alive, SizeInv, Unnamed
  <2> QED BY <2>1, <2>2, <2>3, Names, SameFiles DEF Unnamed, Room, Emptied
<1>3. CASE Crash
  <2>1. UNCHANGED <<where, damaged>> /\ ~open' /\ \A t \in Threads : pc'[t] = "dead"
    BY <1>3 DEF Crash, disk, history
  <2> QED BY <2>1, Names, SameFiles DEF Unnamed, Room, Emptied
<1>4. CASE WriteBegin
  <2>1. /\ UNCHANGED <<where, damaged, open, named, exists>> /\ pc[Writer] = "idle"
        /\ \A t \in Threads : t # Writer => pc'[t] = pc[t]
        /\ pc'[Writer] \in {"measure", "rotate", "put"}
    BY <1>0, <1>4, Names DEF WriteBegin, Decide, Goto, process, disk, history
  <2>2. Unnamed'
    BY <2>1 DEF SizeInv, Unnamed
  <2>3. BySize /\ pc'[Writer] = "put" => 0 \notin exists
    BY <1>0, <1>4, Names DEF WriteBegin, Goto, BySize
  <2>4. 0 \notin exists => InFile(0)' = {}
    BY <2>1, Places DEF IInv, InFile, Gone
  <2>5. BySize => Room'
    BY <1>0, <2>1, <2>3, <2>4 DEF Room
  <2>6. BySize /\ ~damaged => Emptied'
    BY <2>1, Names DEF SizeInv, Emptied, InFile
  <2> QED BY <2>1, <2>2, <2>5, <2>6, SameFiles
<1>5. CASE Measure
  <2>1. /\ UNCHANGED <<where, damaged, open, named>> /\ pc[Writer] = "measure"
        /\ \A t \in Threads : t # Writer => pc'[t] = pc[t]
        /\ pc'[Writer] \in {"idle", "rotate", "put"}
    BY <1>0, <1>5, Names DEF Measure, Decide, Goto, process, disk, history
  <2>2. Unnamed'
    BY <2>1 DEF SizeInv, Unnamed
  <2>3. BySize /\ pc'[Writer] = "put" => ~Full(InFile(0))
    BY <1>0, <1>5, Names DEF Measure, Decide, ShouldRotate, Goto, BySize
  <2>4. BySize => Room'
    <3>1. InFile(0)' = InFile(0)
      BY <2>1 DEF InFile
    <3> QED BY <1>0, <2>1, <2>3, <3>1 DEF Room
  <2>5. BySize /\ ~damaged => Emptied'
    BY <2>1, Names DEF SizeInv, Emptied, InFile
  <2> QED BY <2>1, <2>2, <2>4, <2>5, SameFiles
<1>6. CASE WriteRelock
  <2>1. /\ UNCHANGED <<where, damaged, open, named>> /\ pc[Writer] = "relock"
        /\ \A t \in Threads : t # Writer => pc'[t] = pc[t]
        /\ pc'[Writer] = "put"
    BY <1>0, <1>6, Names DEF WriteRelock, Goto, process, disk, history
  <2> QED BY <2>1, Names, SameFiles DEF SizeInv, Unnamed, Room, Emptied, InFile
<1>7. CASE Put
  BY <1>7, SizePut
<1>8. ASSUME NEW t \in Threads, RotateCall(t) PROVE SizeInv'
  <2>1. /\ UNCHANGED <<where, damaged, open, named>> /\ pc[t] \in {"rotate", "idle"}
        /\ \A u \in Threads : u # t => pc'[u] = pc[u]
        /\ pc'[t] = "close"
    BY <1>0, <1>8 DEF RotateCall, Goto, process, disk, history
  <2> QED BY <2>1, Names, SameFiles DEF SizeInv, Unnamed, Room, Emptied, InFile
<1>9. ASSUME NEW t \in Threads, RotateClose(t) PROVE SizeInv'
  <2>1. /\ UNCHANGED <<where, damaged, named>> /\ ~open' /\ pc[t] = "close"
        /\ \A u \in Threads : u # t => pc'[u] = pc[u]
        /\ pc'[t] \in {"shift", "clean"} /\ (pc'[t] = "clean" => limit = 1)
    BY <1>0, <1>9 DEF RotateClose, ShiftFrom, Goto, disk
  <2>2. \A u \in Threads : pc[u] \in InRotation => u = t
    BY <2>1 DEF IInv, Control, InRotation
  <2>3. BySize => Emptied'
    BY <2>1, <2>2 DEF BySize, Emptied, InRotation, IInv, TypeOK
  <2> QED BY <2>1, <2>3, SameFiles DEF Unnamed, Room
<1>10. ASSUME NEW t \in Threads, RotateShift(t) PROVE SizeInv'
  BY <1>10, SizeShift
<1>11. ASSUME NEW t \in Threads, RotateClean(t) PROVE SizeInv'
  BY <1>11, SizeClean
<1>12. ASSUME NEW t \in Threads, RotateOpen(t) PROVE SizeInv'
  BY <1>12, SizeOpen
<1>13. CASE UNCHANGED vars
  <2>1. UNCHANGED <<where, damaged, open, named, pc>>
    BY <1>13 DEF vars, process, disk, history
  <2> QED BY <2>1, SameFiles DEF SizeInv, Unnamed, Room, Emptied, InFile
<1> QED
  BY <1>1, <1>2, <1>3, <1>4, <1>5, <1>6, <1>7, <1>8, <1>9, <1>10, <1>11, <1>12, <1>13
  DEF Next, Write, Rotate

\* Under a policy that looks at the size, with room for a second file, and without
\* damage, a file outgrows its limit in bytes by its last line at most, whatever the
\* lengths of the lines and whoever rotates between the test of the size and the writing.
THEOREM SizesStayBounded == Spec => []SizesBounded
<1>1. SizeInv /\ IInv => SizesBounded
  <2> SUFFICES ASSUME SizeInv, IInv, BySize, ~damaged, NEW n \in Lines, Kept(n)
               PROVE  Earlier(n) # {} => ~Full(Earlier(n))
    BY DEF SizesBounded, BySize
  <2>1. where[n] \in Nat /\ n \in InFile(where[n])
    BY DEF IInv, TypeOK, Kept, InFile, Gone
  <2>2. Fits(InFile(where[n]))
    BY <2>1 DEF SizeInv, Sized
  <2>3. Earlier(n) = Before(InFile(where[n]), n)
    BY DEF Earlier, Before, InFile
  <2> QED BY <2>1, <2>2, <2>3 DEF Fits
<1> QED BY Invariance, InitSize, SizeStep, <1>1, PTL DEF Spec

-----------------------------------------------------------------------------
(* The host: a behaviour of MCSpec is one of the log files and of each of  *)
(* the components beside them, of which all but one only stutter.  The     *)
(* invariants of the components are those of their own proofs.             *)

ManagerP == INSTANCE IpcManagerProofs WITH pc <- ipcPc

ClientP == INSTANCE IpcClientProofs WITH
    running <- clientRunning, open <- clientOpen, pending <- clientPending,
    pc <- clientPc, promise <- clientPromise, worker <- clientWorker,
    current <- clientCurrent, owner <- clientOwner

SinkP == INSTANCE NetworkSinkProofs WITH
    begun <- sinkBegun, written <- sinkWritten, delivered <- sinkDelivered

\* A behaviour of the host is one of every component it holds.
THEOREM Composition == MCSpec => Spec /\ Manager!Spec /\ Client!Spec /\ Sink!Spec
<1>1. MCInit => Init /\ Manager!Init /\ Client!Init /\ Sink!Init
    BY DEF MCInit
<1>2. [MCNext]_allVars => [Next]_vars
    BY DEF MCNext, allVars
<1>3. [MCNext]_allVars => [Manager!Next]_(Manager!vars)
    BY DEF MCNext, allVars, managerVars, Manager!vars
<1>4. [MCNext]_allVars => [Client!Next]_(Client!vars)
    BY DEF MCNext, allVars, clientVars, Client!vars, Client!flags, Client!socket,
        Client!peer, Client!calls, Client!reading, Client!retrying, Client!owning
<1>5. [MCNext]_allVars => [Sink!Next]_(Sink!vars)
    BY DEF MCNext, allVars, sinkVars, Sink!vars
<1>6. QED
    BY <1>1, <1>2, <1>3, <1>4, <1>5, PTL
        DEF MCSpec, Spec, Manager!Spec, Client!Spec, Sink!Spec

\* The modules that prove about a component and the host instantiate the same
\* definitions.
LEMMA ManagerSame == Manager!Spec => ManagerP!Spec
<1>1. ManagerP!Init <=> Manager!Init
    BY DEF ManagerP!Init, Manager!Init, ManagerP!NoMessage, Manager!NoMessage,
        ManagerP!NoJob, Manager!NoJob
<1>2. ManagerP!Next <=> Manager!Next
    BY DEF ManagerP!Next, Manager!Next, ManagerP!ClientCall, Manager!ClientCall,
        ManagerP!Send, Manager!Send, ManagerP!Begin, Manager!Begin,
        ManagerP!Goto, Manager!Goto, ManagerP!queue, Manager!queue,
        ManagerP!settings, Manager!settings, ManagerP!ClientUnchanged,
        Manager!ClientUnchanged, ManagerP!ClearQueue, Manager!ClearQueue,
        ManagerP!QueueMutexFree, Manager!QueueMutexFree, ManagerP!call,
        Manager!call, ManagerP!SetQueueing, Manager!SetQueueing,
        ManagerP!RegisterReplier, Manager!RegisterReplier, ManagerP!SendRequest,
        Manager!SendRequest, ManagerP!Registered, Manager!Registered,
        ManagerP!SendAsyncRequest, Manager!SendAsyncRequest,
        ManagerP!PendingMutexFree, Manager!PendingMutexFree,
        ManagerP!ClientStep, Manager!ClientStep, ManagerP!Register,
        Manager!Register, ManagerP!TestQueueing, Manager!TestQueueing,
        ManagerP!AfterSuccess, Manager!AfterSuccess, ManagerP!Push,
        Manager!Push, ManagerP!MessageOf, Manager!MessageOf,
        ManagerP!AfterFailure, Manager!AfterFailure, ManagerP!Wait,
        Manager!Wait, ManagerP!Return, Manager!Return, ManagerP!Unregistered,
        Manager!Unregistered, ManagerP!Unregister, Manager!Unregister,
        ManagerP!Forget, Manager!Forget, ManagerP!WorkerStep,
        Manager!WorkerStep, ManagerP!WorkerLoop, Manager!WorkerLoop,
        ManagerP!WorkerUnchanged, Manager!WorkerUnchanged, ManagerP!Drain,
        Manager!Drain, ManagerP!Transmit, Manager!Transmit, ManagerP!Broadcast,
        Manager!Broadcast, ManagerP!NoMessage, Manager!NoMessage,
        ManagerP!TimerStep, Manager!TimerStep, ManagerP!TimerLoop,
        Manager!TimerLoop, ManagerP!TimerUnchanged, Manager!TimerUnchanged,
        ManagerP!TimerLock, Manager!TimerLock, ManagerP!TimerUnlock,
        Manager!TimerUnlock, ManagerP!TimerErase, Manager!TimerErase,
        ManagerP!Expire, Manager!Expire, ManagerP!Stop, Manager!Stop,
        ManagerP!OwnerUnchanged, Manager!OwnerUnchanged, ManagerP!Join,
        Manager!Join, ManagerP!Start, Manager!Start
<1>3. [Manager!Next]_(Manager!vars) => [ManagerP!Next]_(ManagerP!vars)
    BY <1>2 DEF ManagerP!vars, Manager!vars
<1>4. QED
    BY <1>1, <1>3, PTL DEF ManagerP!Spec, Manager!Spec

\* The client of the composition is IpcClient.
LEMMA ClientSame == Client!Spec => ClientP!Spec
<1>1. ClientP!Init <=> Client!Init
    BY DEF ClientP!Init, Client!Init, ClientP!Publication, Client!Publication
<1>2. ClientP!Next <=> Client!Next
    BY DEF ClientP!Next, Client!Next, ClientP!OwnerCall, Client!OwnerCall,
        ClientP!Configure, Client!Configure, ClientP!flags, Client!flags,
        ClientP!socket, Client!socket, ClientP!reading, Client!reading,
        ClientP!retrying, Client!retrying, ClientP!calls, Client!calls,
        ClientP!ConnectSucceeds, Client!ConnectSucceeds, ClientP!Opens,
        Client!Opens, ClientP!OwnerUnchanged, Client!OwnerUnchanged,
        ClientP!ConnectFails, Client!ConnectFails, ClientP!OpenFails,
        Client!OpenFails, ClientP!Disconnect, Client!Disconnect,
        ClientP!OwnerStep, Client!OwnerStep, ClientP!OwnerStarts,
        Client!OwnerStarts, ClientP!Starts, Client!Starts,
        ClientP!OwnerReconnects, Client!OwnerReconnects,
        ClientP!HandlesReconnect, Client!HandlesReconnect, ClientP!OwnerStops,
        Client!OwnerStops, ClientP!Cleanup, Client!Cleanup, ClientP!Destroy,
        Client!Destroy, ClientP!Request, Client!Request, ClientP!Goto,
        Client!Goto, ClientP!CallerUnchanged, Client!CallerUnchanged,
        ClientP!owning, Client!owning, ClientP!CallerStep, Client!CallerStep,
        ClientP!Insert, Client!Insert, ClientP!MutexFree, Client!MutexFree,
        ClientP!SendRequest, Client!SendRequest, ClientP!Wait, Client!Wait,
        ClientP!Erase, Client!Erase, ClientP!WorkerStep, Client!WorkerStep,
        ClientP!WorkerLoop, Client!WorkerLoop, ClientP!WorkerUnchanged,
        Client!WorkerUnchanged, ClientP!ReceiveMessage, Client!ReceiveMessage,
        ClientP!ReceiveNothing, Client!ReceiveNothing, ClientP!CallHandler,
        Client!CallHandler, ClientP!ForgetRequest, Client!ForgetRequest,
        ClientP!CallSubscribers, Client!CallSubscribers,
        ClientP!CheckConnection, Client!CheckConnection,
        ClientP!WorkerReconnects, Client!WorkerReconnects,
        ClientP!ReconnectStep, Client!ReconnectStep, ClientP!RetryTest,
        Client!RetryTest, ClientP!ReconnectUnchanged, Client!ReconnectUnchanged,
        ClientP!RetryFails, Client!RetryFails, ClientP!RetrySucceeds,
        Client!RetrySucceeds, ClientP!RetryStarts, Client!RetryStarts,
        ClientP!Answer, Client!Answer, ClientP!Publication, Client!Publication,
        ClientP!PeerUnchanged, Client!PeerUnchanged, ClientP!ServerChanges,
        Client!ServerChanges
<1>3. [Client!Next]_(Client!vars) => [ClientP!Next]_(ClientP!vars)
    BY <1>2 DEF ClientP!vars, Client!vars, ClientP!flags, Client!flags,
        ClientP!socket, Client!socket, ClientP!peer, Client!peer, ClientP!calls,
        Client!calls, ClientP!reading, Client!reading, ClientP!retrying,
        Client!retrying, ClientP!owning, Client!owning
<1>4. QED
    BY <1>1, <1>3, PTL DEF ClientP!Spec, Client!Spec

\* The sink of the composition is NetworkSink.
LEMMA SinkSame == Sink!Spec => SinkP!Spec
<1>1. SinkP!Init <=> Sink!Init
    BY DEF SinkP!Init, Sink!Init, SinkP!Senders, Sink!Senders
<1>b. SinkP!Senders = Sink!Senders
    BY DEF SinkP!Senders, Sink!Senders
<1>0. \A s : SinkP!BrokenPipe(s) <=> Sink!BrokenPipe(s)
    BY DEF SinkP!BrokenPipe, Sink!BrokenPipe, SinkP!logging, Sink!logging,
        SinkP!Senders, Sink!Senders, SinkP!ToSet, Sink!ToSet
<1>2. SinkP!Next <=> Sink!Next
    BY <1>b, <1>0 DEF SinkP!Next, Sink!Next, SinkP!Log, Sink!Log, SinkP!outcome,
        Sink!outcome, SinkP!Count, Sink!Count, SinkP!Write, Sink!Write,
        SinkP!Flush, Sink!Flush, SinkP!logging, Sink!logging, SinkP!RemoveSink,
        Sink!RemoveSink, SinkP!WorkerStep, Sink!WorkerStep, SinkP!WorkerTest,
        Sink!WorkerTest, SinkP!TakeBatch, Sink!TakeBatch, SinkP!WorkerSent,
        Sink!WorkerSent, SinkP!Send, Sink!Send, SinkP!SendSucceeds,
        Sink!SendSucceeds, SinkP!Delivers, Sink!Delivers, SinkP!Ends, Sink!Ends,
        SinkP!SendUnchanged, Sink!SendUnchanged, SinkP!SendFails,
        Sink!SendFails, SinkP!GiveUp, Sink!GiveUp, SinkP!HolderStep,
        Sink!HolderStep, SinkP!FlushNext, Sink!FlushNext, SinkP!Leave,
        Sink!Leave, SinkP!SinkRemoved, Sink!SinkRemoved, SinkP!ToSet, Sink!ToSet
<1>3. [Sink!Next]_(Sink!vars) => [SinkP!Next]_(SinkP!vars)
    BY <1>2 DEF SinkP!vars, Sink!vars
<1>4. QED
    BY <1>1, <1>3, PTL DEF SinkP!Spec, Sink!Spec

\* The manager's queue keeps to its bound and loses or doubles no message; the
\* client's table has no entry without a call and its disconnect() is clean: for
\* every number of threads, messages, sockets and restarts.
THEOREM MessagesKept == MCSpec => []MessagesHold
<1>1. ManagerP!IpcAssumption
    BY InstanceAssumption DEF ManagerP!IpcAssumption, Manager!IpcAssumption
<1>2. ClientP!ClientAssumption
    BY InstanceAssumption DEF ClientP!ClientAssumption, Client!ClientAssumption
<1>3. ManagerP!TypeOK <=> Manager!TypeOK
    BY DEF ManagerP!TypeOK, Manager!TypeOK, ManagerP!Messages, Manager!Messages,
        ManagerP!Jobs, Manager!Jobs
<1>4. ManagerP!EachOnceInOrder <=> Manager!EachOnceInOrder
    BY DEF ManagerP!EachOnceInOrder, Manager!EachOnceInOrder, ManagerP!Pipeline,
        Manager!Pipeline, ManagerP!Held, Manager!Held
<1>5. ClientP!TypeOK <=> Client!TypeOK
    BY DEF ClientP!TypeOK, Client!TypeOK, ClientP!Replies, Client!Replies
<1>6. ClientP!EntriesHaveCallers <=> Client!EntriesHaveCallers
    BY DEF ClientP!EntriesHaveCallers, Client!EntriesHaveCallers
<1>7. ClientP!DisconnectIsClean <=> Client!DisconnectIsClean
    BY DEF ClientP!DisconnectIsClean, Client!DisconnectIsClean
<1>8. ManagerP!Spec => []ManagerP!TypeOK /\ []ManagerP!EachOnceInOrder
    BY <1>1, ManagerP!TypeCorrect, ManagerP!EachOnce
<1>9. ClientP!Spec =>
          []ClientP!TypeOK /\ []ClientP!EntriesHaveCallers /\ []ClientP!DisconnectIsClean
    BY <1>2, ClientP!TypeCorrect, ClientP!EntriesBelong, ClientP!CleanDisconnect
<1>10. MessagesHold <=>
           /\ ManagerP!TypeOK /\ ManagerP!EachOnceInOrder
           /\ ClientP!TypeOK /\ ClientP!EntriesHaveCallers /\ ClientP!DisconnectIsClean
    BY <1>3, <1>4, <1>5, <1>6, <1>7 DEF MessagesHold
<1>11. QED
    BY <1>8, <1>9, <1>10, Composition, ManagerSame, ClientSame, PTL

\* Every event written to the network sink is queued, under way, delivered or lost,
\* once, and only a flush() overtakes the worker: for every number of threads,
\* events and attempts and every size of a batch.
THEOREM EventsKept == MCSpec => []SinkHolds
<1>1. SinkP!SinkAssumption
    BY InstanceAssumption DEF SinkP!SinkAssumption, Sink!SinkAssumption
<1>2. SinkP!TypeOK <=> Sink!TypeOK
    BY DEF SinkP!TypeOK, Sink!TypeOK, SinkP!Senders, Sink!Senders
<1>3. SinkP!EachEventOnce <=> Sink!EachEventOnce
    BY DEF SinkP!EachEventOnce, Sink!EachEventOnce, SinkP!ToSet, Sink!ToSet,
        SinkP!IsInjective, Sink!IsInjective
<1>4. SinkP!OnlyFlushOvertakes <=> Sink!OnlyFlushOvertakes
    BY DEF SinkP!OnlyFlushOvertakes, Sink!OnlyFlushOvertakes
<1>5. SinkP!Spec =>
          []SinkP!TypeOK /\ []SinkP!EachEventOnce /\ []SinkP!OnlyFlushOvertakes
    BY <1>1, SinkP!TypeCorrect, SinkP!EventsOnce, SinkP!FlushAlone
<1>6. SinkHolds <=>
          SinkP!TypeOK /\ SinkP!EachEventOnce /\ SinkP!OnlyFlushOvertakes
    BY <1>2, <1>3, <1>4 DEF SinkHolds
<1>7. QED
    BY <1>5, <1>6, Composition, SinkSame, PTL

\* No step loses a log line before its time, the manager delivers and drops the
\* messages it has queued as a channel does, and the network sink its events: for
\* every number of files, threads, messages and restarts, and any size of batch.
THEOREM StepsKept == MCSpec => StepsHold
<1>1. ManagerP!IpcAssumption
    BY InstanceAssumption DEF ManagerP!IpcAssumption, Manager!IpcAssumption
<1>2. ManagerP!Spec => ManagerP!ImplementsChannel
    BY <1>1, ManagerP!Refinement
<1>3. ManagerP!Channel!Init <=> Manager!Channel!Init
    BY DEF ManagerP!Channel!Init, Manager!Channel!Init
<1>4. [ManagerP!Channel!Next]_(ManagerP!Channel!channelVars) =>
          [Manager!Channel!Next]_(Manager!Channel!channelVars)
    BY DEF ManagerP!Channel!Next, Manager!Channel!Next, ManagerP!Channel!Accept,
        Manager!Channel!Accept, ManagerP!Channel!Deliver, Manager!Channel!Deliver,
        ManagerP!Channel!Drop, Manager!Channel!Drop, ManagerP!Channel!Waiting,
        Manager!Channel!Waiting, ManagerP!Channel!channelVars,
        Manager!Channel!channelVars
<1>5. ManagerP!ImplementsChannel => Manager!ImplementsChannel
    BY <1>3, <1>4, PTL
        DEF ManagerP!ImplementsChannel, Manager!ImplementsChannel,
            ManagerP!Channel!Spec, Manager!Channel!Spec
<1>6. SinkP!SinkAssumption
    BY InstanceAssumption DEF SinkP!SinkAssumption, Sink!SinkAssumption
<1>7. SinkP!Spec => SinkP!ImplementsChannel
    BY <1>6, SinkP!Refinement
<1>8. SinkP!Channel!Init <=> Sink!Channel!Init
    BY DEF SinkP!Channel!Init, Sink!Channel!Init
<1>9. [SinkP!Channel!Next]_(SinkP!Channel!channelVars) =>
          [Sink!Channel!Next]_(Sink!Channel!channelVars)
    BY DEF SinkP!Channel!Next, Sink!Channel!Next, SinkP!Channel!Accept,
        Sink!Channel!Accept, SinkP!Channel!Refuse, Sink!Channel!Refuse,
        SinkP!Channel!Known, Sink!Channel!Known, SinkP!Channel!Elements,
        Sink!Channel!Elements, SinkP!Channel!Batch, Sink!Channel!Batch,
        SinkP!Channel!Overtake, Sink!Channel!Overtake, SinkP!Channel!Outcome,
        Sink!Channel!Outcome, SinkP!Channel!Close, Sink!Channel!Close,
        SinkP!Channel!channelVars, Sink!Channel!channelVars
<1>10. SinkP!ImplementsChannel => Sink!ImplementsChannel
    BY <1>8, <1>9, PTL
        DEF SinkP!ImplementsChannel, Sink!ImplementsChannel,
            SinkP!Channel!Spec, Sink!Channel!Spec
<1>11. QED
    BY <1>2, <1>5, <1>7, <1>10, AgedLinesGo, Composition, ManagerSame, SinkSame, PTL
        DEF StepsHold
=============================================================================
