----------------------------- MODULE SensorDecoding -----------------------------
(***************************************************************************)
(* What the drivers make of the bytes their chips send.                    *)
(*                                                                         *)
(* A physical quantity is a whole number of the smallest unit its formula  *)
(* can give, so the real numbers of the code are exact here: sixteenths of *)
(* a degree, ten-thousandths of a minute of arc, 1/65536 of a percent.     *)
(* The bytes are the inputs; the last coordinates, offsets and settings    *)
(* come from a receiver, a user or a file.                                 *)
(***************************************************************************)
EXTENDS Integers, Sequences, FiniteSetsExt

CONSTANTS Bytes,       \* the bytes looked at
          Readings,    \* the readings a calibration takes
          Samples,     \* SAMPLES of IMUDriver::calibrate()
          Rates        \* the sample rates looked at

DecodingAssumption ==
    /\ Bytes \subseteq 0 .. 255 /\ Rates \subseteq Nat \ {0}
    /\ Readings \subseteq -1000 .. 1000 /\ Samples \in Nat \ {0}

\* Stands for a read that failed.
Failed == 1001

VARIABLES msb, lsb, xlsb,     \* three bytes of a device
          setting,            \* a setting, of 0 .. 12
          rate,               \* a sample rate
          readings            \* the readings of a calibration
decodingVars == <<msb, lsb, xlsb, setting, rate, readings>>

\* C's division, which rounds towards zero.
Abs(a) == IF a < 0 THEN -a ELSE a
Quotient(a, b) == IF (a < 0) = (b < 0) THEN Abs(a) \div Abs(b) ELSE -(Abs(a) \div Abs(b))

Clamp(n, low, high) == IF n < low THEN low ELSE IF n > high THEN high ELSE n

\* readRegister() of two bytes, the first the higher.
Word(hi, lo) == hi * 256 + lo

\* A word as int16_t.
Signed(w) == IF w >= 32768 THEN w - 65536 ELSE w

-----------------------------------------------------------------------------
(* Temperature                                                             *)

\* Mutant of ReadTMP102: the sign is looked for one bit too high.
ReadTMP102Unsigned(w) == LET raw == w \div 16
                         IN  IF raw >= 4096 THEN raw - 4096 ELSE raw

\* readTMP102(), and readTMP112() alike: twelve bits in sixteenths of a degree.
ReadTMP102(w) == LET raw == w \div 16
                 IN  IF raw >= 2048 THEN raw - 4096 ELSE raw

\* readLM75(): nine bits in halves of a degree.
ReadLM75(w) == LET raw == (w \div 128) % 512
               IN  IF raw >= 256 THEN raw - 512 ELSE raw

\* initialize() and configure() keep the resolution in 9 .. 12; initTMP102() puts it in
\* the two highest bits of the configuration.
Resolution(s) == Clamp(s, 9, 12)
InitTMP102(register, s) == (register % 64) + (Resolution(s) - 9) * 64

-----------------------------------------------------------------------------
(* Humidity                                                                *)

\* readHTU21D(): in 1/65536 of a percent ...
Humidity(w) == Clamp(-6 * 65536 + 125 * w, 0, 100 * 65536)

\* ... and in 1/65536 of a hundredth of a degree.
Temperature(w) == -4685 * 65536 + 17572 * w

\* initHTU21D(): the resolution bits of the user register cleared.
UserRegister(register) == register % 64

-----------------------------------------------------------------------------
(* Pressure                                                                *)

\* The oversampling of configure() is 0 .. 4; a BMP180 takes its lower two bits.
Oversampling(s) == Clamp(s, 0, 4)

\* readRawBMP180(): UP of three bytes.
RawBMP180(b1, b2, b3, s) ==
    LET oss == Oversampling(s) % 4
    IN  (b1 * 65536 + b2 * 256 + b3) \div 2 ^ (8 - oss)

\* readCalibrationBMP180(): the calibration words, the three of AC4 .. AC6 unsigned.
CalibrationBMP180(words) ==
    [i \in 1 .. 11 |-> IF i \in 4 .. 6 THEN words[i] ELSE Signed(words[i])]

\* readBMP180(): tenths of a degree times 16, from AC5, AC6, MC and MD.
TemperatureBMP180(ut, cal) ==
    LET X1 == Quotient((ut - cal[6]) * cal[5], 32768)
        X2 == Quotient(cal[10] * 2048, X1 + cal[11])
    IN  X1 + X2 + 8

\* readRawBMP280(): twenty bits.
RawBMP280(b1, b2, b3) == b1 * 4096 + b2 * 16 + (b3 \div 16)

\* readCalibrationBMP280(): words whose lower byte comes first, the first of each
\* seven and the fourth unsigned.
CalibrationBMP280(bytes) ==
    [i \in 1 .. 12 |-> LET w == Word(bytes[2 * i], bytes[2 * i - 1])
                       IN  IF i \in {1, 4} THEN w ELSE Signed(w)]

\* initBMP280(): the oversampling of temperature and of pressure, and normal mode.
ControlBMP280(s) == (Oversampling(s) * 32 + Oversampling(s) * 4 + 3) % 256

-----------------------------------------------------------------------------
(* Inertial measurement                                                    *)

\* configureSampleRate()
Divider(r) == Clamp((1000 \div r) - 1, 0, 255)

\* calibrate() sums the readings that did not fail and divides by all of them; the
\* offset, times Samples, makes their mean the target.
Calibrate(taken, target) ==
    LET read == {i \in DOMAIN taken : taken[i] # Failed}
    IN  target * Samples - FoldSet(LAMBDA i, sum : sum + taken[i], 0, read)

\* applyCalibration(), with a scale of one.
ApplyCalibration(reading, offset) == reading * Samples + offset

-----------------------------------------------------------------------------
(* Position                                                                *)

\* parseNMEACoordinate(): a field of `digits' digits before its dot is degrees but for
\* the last two, and minutes; the result is in ten-thousandths of a minute.
ParseNMEACoordinate(field, digits, dir) ==
    LET minutes == field % 1000000
        value   == (field \div 1000000) * 600000 + minutes
    IN  IF digits = 2 THEN 0 ELSE IF dir \in {"S", "W"} THEN -value ELSE value

-----------------------------------------------------------------------------
Init == /\ msb = 0 /\ lsb = 0 /\ xlsb = 0 /\ setting = 0 /\ rate = 1
        /\ readings = <<>>

\* One input at a time, but for the bytes a setting says how to read.
Receive(b1, b2, b3) ==
    /\ msb = 0 /\ lsb = 0 /\ xlsb = 0 /\ rate = 1 /\ readings = <<>>
    /\ msb' = b1 /\ lsb' = b2 /\ xlsb' = b3 /\ UNCHANGED <<setting, rate, readings>>
Set(s) ==
    /\ setting = 0 /\ rate = 1 /\ readings = <<>>
    /\ setting' = s /\ UNCHANGED <<msb, lsb, xlsb, rate, readings>>
SetRate(r) ==
    /\ msb = 0 /\ lsb = 0 /\ xlsb = 0 /\ setting = 0 /\ readings = <<>>
    /\ rate' = r /\ UNCHANGED <<msb, lsb, xlsb, setting, readings>>
Read(r) ==
    /\ msb = 0 /\ lsb = 0 /\ xlsb = 0 /\ setting = 0 /\ rate = 1 /\ Len(readings) < Samples
    /\ readings' = Append(readings, r) /\ UNCHANGED <<msb, lsb, xlsb, setting, rate>>

Next == \/ \E b1, b2, b3 \in Bytes : Receive(b1, b2, b3)
        \/ \E s \in 0 .. 12 : Set(s)
        \/ \E r \in Rates : SetRate(r)
        \/ \E r \in Readings \cup {Failed} : Read(r)

-----------------------------------------------------------------------------
\* The floor of a / b, for b > 0.
Floor(a, b) == a \div b

\* The calibration words of the example in the BMP180's data sheet.
ExampleBMP180 == <<408, 65464, 51136, 32741, 32757, 23153, 6190, 4, 32768, 56825, 2868>>

\* Every chip's bits are the two's complement number that a word of them stands for,
\* and grow with it; raw pressures fit the bits they are said to have, whatever the
\* oversampling; what a register is set to reads back as the setting with the bits
\* that are not the setting's unchanged; a chip samples at least as often as it is
\* asked to, from 4 to 1000 times a second; humidities are percentages.
BytesDecoded ==
    LET w == Word(msb, lsb)
    IN  /\ ReadTMP102(w) = Floor(Signed(w), 16) /\ ReadLM75(w) = Floor(Signed(w), 128)
        /\ Floor(ReadTMP102(w), 8) = ReadLM75(w)
        /\ RawBMP280(msb, lsb, xlsb) < 2 ^ 20
        /\ RawBMP180(msb, lsb, xlsb, setting) < 2 ^ (16 + (Oversampling(setting) % 4))
        /\ InitTMP102(lsb, setting) % 64 = UserRegister(lsb)
        /\ (InitTMP102(lsb, setting) \div 64) + 9 = Resolution(setting)
        /\ ControlBMP280(setting) \div 32 = Oversampling(setting)
        /\ (ControlBMP280(setting) \div 4) % 8 = Oversampling(setting)
        /\ rate \in 4 .. 1000 => 1000 \div (1 + Divider(rate)) >= rate
        /\ 0 <= Humidity(w) /\ Humidity(w) <= 100 * 65536
        /\ Humidity(w) < Humidity(65535) \/ w >= 55574

\* The temperature of a BMP180 with the calibration of the data sheet grows with the
\* raw value (from 15.0 degrees at the example's 27898); a calibration reads the same
\* words whichever way it is written; and after a calibration all of whose
\* reads succeeded, the mean of its readings is the target.
QuantitiesRight ==
    LET w   == Word(msb, lsb)
        cal == CalibrationBMP180(ExampleBMP180)
        pairs == [i \in 1 .. 24 |-> IF i % 2 = 1 THEN lsb ELSE msb]
    IN  /\ TemperatureBMP180(27898, cal) \div 16 = 150
        /\ w \in 20000 .. 40000 =>
               (w >= 27898) = (TemperatureBMP180(w, cal) >= TemperatureBMP180(27898, cal))
        /\ \A i \in 1 .. 12 : CalibrationBMP280(pairs)[i] \in {w, Signed(w)}
        /\ Len(readings) = Samples /\ (\A i \in 1 .. Samples : readings[i] # Failed) =>
               FoldSet(LAMBDA i, sum : sum + ApplyCalibration(readings[i], Calibrate(readings, 9)),
                       0, 1 .. Samples) = 9 * Samples * Samples
        /\ \A degrees \in {0, 9, 47, 122}, dir \in {"N", "S"} :
               LET minute == (msb * 65536 + lsb * 256 + xlsb) % 600000
                   value  == ParseNMEACoordinate(degrees * 1000000 + minute, 5, dir)
               IN  value = (IF dir = "S" THEN -1 ELSE 1) * (degrees * 600000 + minute)
=============================================================================
