------------------------------ MODULE SensorDriver ------------------------------
(***************************************************************************)
(* One driver of the sensor service: the descriptor it holds, whether it   *)
(* counts as connected and running, and the ranges it and its chip work    *)
(* in.                                                                     *)
(*                                                                         *)
(* initialize() is a sequence of steps on the device, any of which may     *)
(* fail, as may any transfer later: the devices are external.  The five    *)
(* drivers differ in their steps, in what start() and readSample() ask     *)
(* for, and in whether configure() reaches the chip.  The health check of  *)
(* module SensorManager initializes a running driver again once it is not  *)
(* connected; tests and main() do so at any time.                          *)
(***************************************************************************)
EXTENDS Naturals, Sequences, FiniteSets

CONSTANTS Kinds,       \* the drivers looked at
          Ranges,      \* settings: 0 .. 3 are ranges of the chip, others are not
          MaxLost      \* bound on the descriptors lost

DriverAssumption ==
    /\ Kinds \subseteq {"imu", "gps", "pressure", "temperature", "humidity"}
    /\ Ranges \subseteq Nat /\ 1 \in Ranges /\ MaxLost \in Nat

VARIABLES kind,
          chip,           \* m_sensorType, or the address of an IMU
          fd,             \* whether m_i2cFd or m_serialFd is a descriptor
          lost,           \* the descriptors overwritten without being closed
          connected, active,      \* m_connected, m_running
          setting, chipRange,     \* the ranges in the driver and in the chip
          initialized,    \* whether the last initialize() succeeded
          writeFailed,    \* whether a transfer of a range has failed since then
          sample          \* the outcome of the last readSample()
driverVars == <<kind, chip, fd, lost, connected, active, setting, chipRange,
                initialized, writeFailed, sample>>

\* The chips read without a descriptor: over one wire or a pin.
Wireless == {"DS18B20", "DHT22"}

Chips == CASE kind = "imu"         -> {"MPU6050", "MPU9250"}
           [] kind = "gps"         -> {"serial"}
           [] kind = "pressure"    -> {"BMP180", "BMP280"}
           [] kind = "temperature" -> {"TMP102", "LM75", "DS18B20"}
           [] OTHER                -> {"HTU21D", "DHT22"}

-----------------------------------------------------------------------------
(* The steps of initialize()                                               *)

\* configureAccel() and configureGyro(): the range a setting selects.
AccelRange(s) == IF s \in 0 .. 3 THEN s ELSE 2
GyroRange(s)  == IF s \in 0 .. 3 THEN s ELSE 2

InitMPU6050 == <<"reset", "wake", "accel", "gyro", "rate">>

\* To the magnetometer's address and back.
ConfigureMagnetometer == <<"switch", "continuous", "switch back">>

InitMPU9250 == InitMPU6050 \o ConfigureMagnetometer

ImuSteps(c) == <<"open", "address">> \o IF c = "MPU6050" THEN InitMPU6050 ELSE InitMPU9250

GpsSteps == <<"open", "get attributes", "set attributes">>

InitBMP180 == <<"read calibration", "oversampling">>
InitBMP280 == <<"read calibration", "filter", "measurement">>

PressureSteps(c) ==
    <<"open", "address", "detect">> \o IF c = "BMP180" THEN InitBMP180 ELSE InitBMP280

InitTMP102 == <<"read configuration", "resolution">>

\* A chip with the manufacturer's id 0x55 is a TMP102, never a TMP112.
TemperatureSteps(c) ==
    <<"open", "address", "detect">> \o IF c = "TMP102" THEN InitTMP102 ELSE <<>>

InitDHT    == <<"export", "direction">>
InitHTU21D == <<"open", "address", "reset", "read user register", "user register",
                "write user register", "write">>

HumiditySteps(c) == <<"detect">> \o IF c = "DHT22" THEN InitDHT ELSE InitHTU21D

Steps(c) == CASE kind = "imu"         -> ImuSteps(c)
              [] kind = "gps"         -> GpsSteps
              [] kind = "pressure"    -> PressureSteps(c)
              [] kind = "temperature" -> TemperatureSteps(c)
              [] OTHER                -> HumiditySteps(c)

-----------------------------------------------------------------------------
(* What the drivers ask for                                                *)

\* start() ...
ImuStarts         == fd
GpsStarts         == fd
PressureStarts    == fd
TemperatureStarts == fd \/ chip = "DS18B20"
HumidityStarts    == TRUE

Starts == CASE kind = "imu"         -> ImuStarts
            [] kind = "gps"         -> GpsStarts
            [] kind = "pressure"    -> PressureStarts
            [] kind = "temperature" -> TemperatureStarts
            [] OTHER                -> HumidityStarts

\* ... and selfTest(), which passes whether or not the device can be read.
ImuSelfTest         == fd
GpsSelfTest         == fd
PressureSelfTest    == fd
TemperatureSelfTest == fd \/ chip = "DS18B20"
HumiditySelfTest    == TRUE

SelfTest == CASE kind = "imu"         -> ImuSelfTest
              [] kind = "gps"         -> GpsSelfTest
              [] kind = "pressure"    -> PressureSelfTest
              [] kind = "temperature" -> TemperatureSelfTest
              [] OTHER                -> HumiditySelfTest

\* readSample() of a driver that runs and is connected: the driver of IMU, GPS or
\* pressure disconnects if it has no descriptor; the others only fail to read.
Disconnects == ~ fd /\ kind \in {"imu", "gps", "pressure"}

ImuReads         == fd
GpsReads         == fd
PressureReads    == fd /\ chip \in {"BMP180", "BMP280"}
TemperatureReads == chip = "DS18B20" \/ (fd /\ chip \in {"TMP102", "LM75"})
HumidityReads    == chip = "DHT22" \/ (fd /\ chip = "HTU21D")

Reads == CASE kind = "imu"         -> ImuReads
           [] kind = "gps"         -> GpsReads
           [] kind = "pressure"    -> PressureReads
           [] kind = "temperature" -> TemperatureReads
           [] OTHER                -> HumidityReads

\* readIMUData(): the range that a setting is scaled by.
AccelScale(s) == IF s \in 0 .. 3 THEN s ELSE 2
GyroScale(s)  == IF s \in 0 .. 3 THEN s ELSE 1

-----------------------------------------------------------------------------
Init ==
    /\ kind \in Kinds /\ chip = "unknown" /\ fd = FALSE /\ lost = 0
    /\ connected = FALSE /\ active = FALSE
    /\ setting = [accel |-> 1, gyro |-> 1] /\ chipRange = [accel |-> 0, gyro |-> 0]
    /\ initialized = FALSE /\ writeFailed = FALSE /\ sample = "none"

\* Mutant of Initialize: a driver whose step failed keeps its descriptor.
InitializeKeepsOpen(c, accel, gyro, done) ==
    LET passed == {Steps(c)[i] : i \in 1 .. done}
    IN  /\ lost < MaxLost /\ c \in Chips
        /\ done \in 0 .. Len(Steps(c))
        /\ setting' = [accel |-> accel, gyro |-> gyro]
        /\ chipRange' = [accel |-> IF "accel" \in passed THEN AccelRange(accel) ELSE chipRange.accel,
                         gyro  |-> IF "gyro" \in passed THEN GyroRange(gyro) ELSE chipRange.gyro]
        /\ chip' = IF "detect" \in passed \/ kind \in {"imu", "gps"} THEN c ELSE chip
        /\ lost' = lost + IF fd THEN 1 ELSE 0
        /\ fd' = ("open" \in passed)
        /\ initialized' = (done = Len(Steps(c)))
        /\ connected' = (connected \/ initialized')
        /\ writeFailed' = FALSE
        /\ UNCHANGED <<kind, active, sample>>

\* initialize() takes the settings, opens over the descriptor of an earlier call, and
\* goes through its steps; where one fails, what is open is closed again, and neither
\* m_connected nor m_sensorType goes back.  A sensor on one wire forgets the
\* descriptor it was looked for with.
Initialize(c, accel, gyro, done) ==
    LET passed == {Steps(c)[i] : i \in 1 .. done}
    IN  /\ lost < MaxLost /\ c \in Chips
        /\ done \in 0 .. Len(Steps(c))
        /\ setting' = [accel |-> accel, gyro |-> gyro]
        /\ chipRange' = [accel |-> IF "accel" \in passed THEN AccelRange(accel) ELSE chipRange.accel,
                         gyro  |-> IF "gyro" \in passed THEN GyroRange(gyro) ELSE chipRange.gyro]
        /\ chip' = IF "detect" \in passed \/ kind \in {"imu", "gps"} THEN c ELSE chip
        /\ lost' = lost + (IF fd THEN 1 ELSE 0)
                        + (IF c = "DS18B20" /\ "detect" \in passed THEN 1 ELSE 0)
        /\ initialized' = (done = Len(Steps(c)))
        /\ fd' = (initialized' /\ c \notin Wireless)
        /\ connected' = (connected \/ initialized')
        /\ writeFailed' = IF "gyro" \in passed THEN FALSE ELSE writeFailed
        /\ UNCHANGED <<kind, active, sample>>

Start == /\ Starts /\ active' = TRUE
         /\ UNCHANGED <<kind, chip, fd, lost, connected, setting, chipRange,
                        initialized, writeFailed, sample>>

\* stop() keeps the descriptor and the connection.
Stop == /\ active /\ active' = FALSE
        /\ UNCHANGED <<kind, chip, fd, lost, connected, setting, chipRange,
                       initialized, writeFailed, sample>>

\* readSample(): a transfer may fail, and nothing remembers that it did; a device
\* that stops answering stays connected.
ReadSample ==
    /\ active /\ connected
    /\ sample' \in {"none"} \cup (IF Reads THEN {"valid"} ELSE {})
    /\ connected' = ~ Disconnects
    /\ UNCHANGED <<kind, chip, fd, lost, active, setting, chipRange, initialized,
                   writeFailed>>

\* configure() takes the settings; the IMU driver also writes them to the chip, and
\* reports success whether that worked or not.
Configure(which, s) ==
    /\ setting' = [setting EXCEPT ![which] = s]
    /\ \/ kind # "imu" /\ UNCHANGED <<chipRange, writeFailed>>
       \/ /\ kind = "imu" /\ fd /\ UNCHANGED writeFailed
          /\ chipRange' = [chipRange EXCEPT ![which] =
                               IF which = "accel" THEN AccelRange(s) ELSE GyroRange(s)]
       \/ kind = "imu" /\ writeFailed' = TRUE /\ UNCHANGED chipRange
    /\ UNCHANGED <<kind, chip, fd, lost, connected, active, initialized, sample>>

Next == \/ \E c \in Chips, accel, gyro \in Ranges, done \in 0 .. 10 :
               Initialize(c, accel, gyro, done)
        \/ Start \/ Stop \/ ReadSample
        \/ \E which \in {"accel", "gyro"}, s \in Ranges : Configure(which, s)

-----------------------------------------------------------------------------
\* A descriptor is held by a driver whose last initialize() succeeded and by no
\* other, whatever was initialized, started, stopped and lost before; without one only
\* a chip on one wire or a pin is read; a driver passes its self test exactly if
\* start() would succeed; and an IMU is scaled by the ranges its chip is in, unless a
\* write failed or the gyroscope's setting is none of its ranges (it is then set to
\* one and scaled by another).
DriversHold ==
    /\ fd => initialized
    /\ active /\ connected /\ Reads /\ ~ initialized => chip \in Wireless
    /\ SelfTest <=> Starts
    /\ kind = "imu" /\ initialized /\ ~ writeFailed =>
           /\ AccelScale(setting.accel) = chipRange.accel
           /\ setting.gyro \in 0 .. 3 => GyroScale(setting.gyro) = chipRange.gyro
=============================================================================
