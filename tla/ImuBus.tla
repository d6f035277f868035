--------------------------------- MODULE ImuBus ---------------------------------
(***************************************************************************)
(* The transfers of the IMU driver.                                        *)
(*                                                                         *)
(* The motion sensor and the magnetometer are two slaves behind one        *)
(* descriptor.  A descriptor talks to the slave it was last switched to,   *)
(* and a slave answers from the register it was last pointed at.  The      *)
(* collection loop reads the driver under the mutex of the manager, but    *)
(* readSensor(), calibrate() and configure() reach it without that mutex   *)
(* and it has none of its own, so the calls below interleave.  Any of them *)
(* may fail.                                                               *)
(***************************************************************************)
EXTENDS Naturals

CONSTANTS Readers,      \* the threads that use the driver
          MaxReads,     \* bound on the readings begun
          MaxFailures   \* bound on the switches between slaves that fail

BusAssumption == MaxReads \in Nat /\ MaxFailures \in Nat

VARIABLES at,           \* where each reader is in readIMUData()
          slave,        \* the slave of the descriptor
          pointer,      \* the register each slave will answer from
          right,        \* whether a reader's reading is from the right registers so far
          begun, failed,        \* readings begun, switches that failed
          overlapped,   \* whether two readers have ever been in the driver at once
          misread,      \* readings returned as valid with bytes of other registers
          misplaced     \* whether a range was written to the magnetometer
busVars == <<at, slave, pointer, right, begun, failed, overlapped, misread, misplaced>>

Init == /\ at = [r \in Readers |-> "idle"] /\ slave = "motion"
        /\ pointer = [s \in {"motion", "magnetometer"} |-> "other"]
        /\ right = [r \in Readers |-> TRUE]
        /\ begun = 0 /\ failed = 0 /\ overlapped = FALSE /\ misread = 0 /\ misplaced = FALSE

\* Reader r goes from `from' to `to'; a reading that ends in success returns what
\* `good' says of it.
Goes(r, from, to) == at[r] = from /\ at' = [at EXCEPT ![r] = to]
Returns(r, from, good) == /\ Goes(r, from, "idle")
                          /\ misread' = misread + IF good THEN 0 ELSE 1

\* The first half of readRegisters(): the slave of the moment is pointed at a register.
Points(register) == pointer' = [pointer EXCEPT ![slave] = register]
\* The second half reads from there on.
Answers(s, register) == slave = s /\ pointer[s] = register
ReadOn == pointer' = [pointer EXCEPT ![slave] = "other"]

-----------------------------------------------------------------------------
\* readIMUData() is called: by the collection loop, readSensor(), calibrate() or
\* selfTest().
PointMotion(r) ==
    /\ begun < MaxReads /\ begun' = begun + 1
    /\ Goes(r, "idle", "motion") /\ Points("acceleration")
    /\ right' = [right EXCEPT ![r] = TRUE]
    /\ overlapped' = (overlapped \/ \E o \in Readers \ {r} : at[o] # "idle")
    /\ UNCHANGED <<slave, failed, misread, misplaced>>

\* A transfer of the motion sensor's fails: the reading does, nothing is returned.
MotionFails(r) == /\ Goes(r, "motion", "idle")
                  /\ UNCHANGED <<slave, pointer, right, begun, failed, overlapped,
                                 misread, misplaced>>

ReadMotion(r) == /\ Goes(r, "motion", "switch") /\ ReadOn
                 /\ right' = [right EXCEPT ![r] = Answers("motion", "acceleration")]
                 /\ UNCHANGED <<slave, begun, failed, overlapped, misread, misplaced>>

\* readMagnetometer(): its result is ignored, so a reading without a field is valid.
Switch(r) == /\ Goes(r, "switch", "point") /\ slave' = "magnetometer"
             /\ UNCHANGED <<pointer, right, begun, failed, overlapped, misread, misplaced>>
SwitchFails(r) == /\ Returns(r, "switch", right[r])
                  /\ failed < MaxFailures /\ failed' = failed + 1
                  /\ UNCHANGED <<slave, pointer, right, begun, overlapped, misplaced>>

PointMagnetometer(r) ==
    /\ Goes(r, "point", "field") /\ Points("field")
    /\ UNCHANGED <<slave, right, begun, failed, overlapped, misread, misplaced>>

ReadMagnetometer(r) ==
    /\ Goes(r, "field", "switch back") /\ ReadOn
    /\ right' = [right EXCEPT ![r] = @ /\ Answers("magnetometer", "field")]
    /\ UNCHANGED <<slave, begun, failed, overlapped, misread, misplaced>>

\* Mutant of MagnetometerFails: the early return does not switch back.
MagnetometerReturns(r) ==
    /\ at[r] \in {"point", "field"} /\ Returns(r, at[r], right[r])
    /\ UNCHANGED <<slave, pointer, right, begun, failed, overlapped, misplaced>>

\* A transfer of the magnetometer's fails; the early return switches back too.
MagnetometerFails(r) ==
    /\ at[r] \in {"point", "field"} /\ Goes(r, at[r], "switch back")
    /\ UNCHANGED <<slave, pointer, right, begun, failed, overlapped, misread, misplaced>>

\* The ioctl() back is not checked.
SwitchBack(r) ==
    /\ Returns(r, "switch back", right[r])
    /\ \/ slave' = "motion" /\ UNCHANGED failed
       \/ failed < MaxFailures /\ failed' = failed + 1 /\ UNCHANGED slave
    /\ UNCHANGED <<pointer, right, begun, overlapped, misplaced>>

\* configure() writes a range to the slave of the moment, pointing it there.
Configure(r) ==
    /\ at[r] = "idle" /\ UNCHANGED at
    /\ Points("other") /\ misplaced' = (misplaced \/ slave # "motion")
    /\ overlapped' = (overlapped \/ \E o \in Readers \ {r} : at[o] # "idle")
    /\ UNCHANGED <<slave, right, begun, failed, misread>>

Next == \E r \in Readers :
            \/ PointMotion(r) \/ MotionFails(r) \/ ReadMotion(r) \/ Switch(r)
            \/ SwitchFails(r) \/ PointMagnetometer(r) \/ ReadMagnetometer(r)
            \/ MagnetometerFails(r) \/ SwitchBack(r) \/ Configure(r)

-----------------------------------------------------------------------------
\* While no two threads have been in the driver at once, every reading that is returned
\* as valid has the bytes of its own registers, but for at most one for each failure to
\* switch -- the switches of that reading mend the bus -- and only after such a failure
\* may a range go to the wrong slave.
\* (With two threads both go wrong: no lock of the driver keeps them apart.)
OneReaderReadsRight ==
    ~ overlapped => misread <= failed /\ (misplaced => failed > 0)
=============================================================================
