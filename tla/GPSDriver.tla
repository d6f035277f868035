------------------------------- MODULE GPSDriver --------------------------------
(***************************************************************************)
(* The NMEA parser of the GPS driver: what it takes from the lines of one  *)
(* read() after the other.                                                 *)
(*                                                                         *)
(* A read ends where the serial line stands, so that its last line may be  *)
(* the first part of a sentence, cut in a field, and the next read begin   *)
(* with the rest, which has no '$'.  The parser keeps nothing between two  *)
(* reads and verifies no checksum.  A field is its position in the         *)
(* sentence; what counts of a value is whether it was a whole field.       *)
(***************************************************************************)
EXTENDS Naturals, Sequences

CONSTANT MaxLines      \* bound on the lines of one read

LinesAssumption == MaxLines \in Nat

VARIABLES reported,    \* what m_gpsState holds: how each quantity was read
          hasFix,
          line,        \* the lines parsed of this read
          updated,     \* and whether parseNMEA() took one of them
          cut,         \* whether the rest of a cut sentence comes next
          reading      \* the outcome of the last readSample()
gpsVars == <<reported, hasFix, line, updated, cut, reading>>

Types == {"GGA", "GLL", "RMC", "VTG", "GSA", "GSV"}

\* The fields of a sentence as the receiver sends it ...
Sent == [GGA |-> 15, GLL |-> 7, RMC |-> 12, VTG |-> 9, GSA |-> 18, GSV |-> 8]

\* Mutant of Needed: the parsers ask for the fields they use, and no more.
NeededUsed == [GGA |-> 10, GLL |-> 5, RMC |-> 9, VTG |-> 6, GSA |-> 17, GSV |-> 4]

\* ... and those its parser asks for.
Needed == [GGA |-> 15, GLL |-> 7, RMC |-> 12, VTG |-> 9, GSA |-> 17, GSV |-> 4]

Quantities == {"position", "altitude", "speed", "heading", "satellites",
               "horizontal", "vertical"}

\* The last field each parser takes a quantity from.
ParseGGA == [position |-> 5, satellites |-> 7, horizontal |-> 8, altitude |-> 9]
ParseGLL == [position |-> 4]
ParseRMC == [position |-> 6, speed |-> 7, heading |-> 8]
ParseVTG == [heading |-> 1, speed |-> 5]
ParseGSA == [horizontal |-> 16, vertical |-> 17]
ParseGSV == [satellites |-> 3]
Field == [GGA |-> ParseGGA, GLL |-> ParseGLL, RMC |-> ParseRMC,
          VTG |-> ParseVTG, GSA |-> ParseGSA, GSV |-> ParseGSV]

Init ==
    /\ reported = [q \in Quantities |-> "none"] /\ hasFix = FALSE
    /\ line = 0 /\ updated = FALSE /\ cut = FALSE /\ reading = "none"

\* How field i of a line with n fields is found, the last of them cut or not; a
\* field behind the last is read out of bounds.
Found(i, n, whole) == CASE i < n - 1 -> "whole"
                        [] i = n - 1 -> IF whole THEN "whole" ELSE "part"
                        [] OTHER -> "undefined"

\* parseNMEA() on a line that begins with '$': the parser of its type takes what it
\* needs from a line with fields enough.  GSV only counts if nothing else has.
ParseNMEA(t, n, whole, fix) ==
    /\ updated' = (updated \/ n >= Needed[t])
    /\ reported' = [q \in Quantities |->
           IF /\ n >= Needed[t] /\ q \in DOMAIN Field[t]
              /\ t = "GSV" => reported[q] = "none"
           THEN Found(Field[t][q], n, whole) ELSE reported[q]]
    /\ hasFix' = IF n >= Needed[t] /\ t \in {"GGA", "GLL", "RMC"} THEN fix ELSE hasFix

\* A whole sentence; trailing fields that are empty are no fields to the parser.
WholeLine(t, n, fix) ==
    /\ ~ cut /\ line < MaxLines /\ line' = line + 1
    /\ n \in Sent[t] - 1 .. Sent[t]
    /\ ParseNMEA(t, n, TRUE, fix)
    /\ UNCHANGED <<cut, reading>>

\* The read ends within a sentence, behind n fields.
CutLine(t, n, whole, fix) ==
    /\ ~ cut /\ line < MaxLines /\ line' = MaxLines
    /\ n \in 1 .. Sent[t]
    /\ ParseNMEA(t, n, whole, fix)
    /\ cut' = TRUE
    /\ UNCHANGED reading

\* The rest of it begins the next read.
RestOfLine ==
    /\ cut /\ line = 0 /\ line' = 1 /\ cut' = FALSE
    /\ UNCHANGED <<reported, hasFix, updated, reading>>

\* readSample() reports what it has, old or new, if some line was taken and the last
\* sentence that tells had a fix.
EndOfRead ==
    /\ line > 0 /\ line' = 0 /\ updated' = FALSE
    /\ reading' = IF updated /\ hasFix THEN "reported" ELSE "none"
    /\ UNCHANGED <<reported, hasFix, cut>>

\* initialize() forgets everything.
ResetState ==
    /\ line = 0
    /\ reported' = [q \in Quantities |-> "none"] /\ hasFix' = FALSE
    /\ cut' \in BOOLEAN /\ reading' = "none"
    /\ UNCHANGED <<line, updated>>

Next ==
    \/ \E t \in Types, n \in 1 .. 18, fix \in BOOLEAN :
           \/ WholeLine(t, n, fix)
           \/ \E whole \in BOOLEAN : CutLine(t, n, whole, fix)
    \/ RestOfLine \/ EndOfRead \/ ResetState

-----------------------------------------------------------------------------
\* However the sentences are cut, position, altitude, speed and heading are whole
\* fields: a parser asks for fields behind the ones it uses.  (Not so GSA, which
\* reads behind the end of a sentence cut before its last field.)
CutSentencesHarmless ==
    /\ \A q \in {"position", "altitude", "speed", "heading"} :
           reported[q] \in {"none", "whole"}
    /\ reported["horizontal"] # "undefined" /\ reported["satellites"] # "undefined"
=============================================================================
