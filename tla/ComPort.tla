-------------------------------- MODULE ComPort --------------------------------
(* TComPortManager: a serial port that an application opens, reads, writes and
   asks after with checkAlivePort().  The device behind it is alive, silent (it
   sends nothing more) or gone (unplugged: writing fails, reading fails or finds
   nothing).                                                                     *)
EXTENDS Integers

CONSTANTS
    MaxWaitBytesSec,      \* -1: no limit
    MaxErrorCountRead,
    MaxErrorCountWrite

VARIABLES
    device,
    held,                 \* how many descriptors of the port the process holds
    fd,                   \* m_device.fd: 0 for a descriptor, or -1
    status,               \* m_device.status
    errorCountRead,
    errorCountWrite,
    quiet                 \* seconds since m_TimeActivity

portVars == <<device, held, fd, status, errorCountRead, errorCountWrite, quiet>>

\* With m_TimeActivity = 0 the quiet time is longer than any limit.  Counters are
\* followed to one above their limits.
Long == MaxWaitBytesSec + 1
Capped(n, limit) == IF n > limit THEN limit + 1 ELSE n

PortInit ==
    /\ device = "alive"
    /\ held = 0 /\ fd = -1 /\ status = "EMPTY"
    /\ errorCountRead = 0 /\ errorCountWrite = 0 /\ quiet = Long

\* closePort(): the write errors of the session are not forgotten.
Closes ==
    /\ held' = IF fd >= 0 THEN held - 1 ELSE held
    /\ fd' = -1
    /\ status' = "OFF"
    /\ errorCountRead' = 0
    /\ UNCHANGED errorCountWrite

ClosePort == Closes /\ quiet' = Long /\ UNCHANGED device

\* openPort() closes an open port first.  Its outcomes: no path is given, open()
\* fails, setPortOptions() fails and leaves the descriptor open, or success.
OpenPort(outcome) ==
    /\ outcome \in {"ok", "options"} => device # "gone"
    /\ held' = held - (IF fd >= 0 THEN 1 ELSE 0)
                    + (IF outcome \in {"ok", "options"} THEN 1 ELSE 0)
    /\ fd' = IF outcome \in {"ok", "options"} THEN 0 ELSE -1
    /\ status' = CASE outcome = "no path" -> "EMPTY" [] outcome = "fails" -> "OFF"
                   [] outcome = "options" -> "ERROR" [] outcome = "ok" -> "ON"
    /\ errorCountRead' = IF fd >= 0 \/ outcome = "ok" THEN 0 ELSE errorCountRead
    /\ quiet' = IF outcome = "ok" THEN 0 ELSE IF fd >= 0 THEN Long ELSE quiet
    /\ UNCHANGED <<device, errorCountWrite>>

\* A version that clears the error counter on every call.
MutReadBytes(result) ==
    /\ result \in CASE fd < 0 -> {"short"} [] device = "alive" -> {"full", "short"}
                    [] device = "silent" -> {"short"} [] device = "gone" -> {"short", "error"}
    /\ errorCountRead' = 0
    /\ quiet' = 0
    /\ UNCHANGED <<device, held, fd, status, errorCountWrite>>

\* After an error bytesread is -1, and -1 < numByte is false among unsigned
\* numbers: the error resets the counter.  Any call counts as activity.
ReadBytes(result) ==
    /\ result \in CASE fd < 0 -> {"short"} [] device = "alive" -> {"full", "short"}
                    [] device = "silent" -> {"short"} [] device = "gone" -> {"short", "error"}
    /\ errorCountRead' = IF result = "short"
                         THEN Capped(errorCountRead + 1, MaxErrorCountRead) ELSE 0
    /\ quiet' = 0
    /\ UNCHANGED <<device, held, fd, status, errorCountWrite>>

WriteBytes(result) ==
    /\ result \in IF fd >= 0 /\ device # "gone" THEN {"full", "short"} ELSE {"error"}
    /\ IF result = "error" THEN Closes
       ELSE /\ errorCountWrite' = IF result = "full" THEN 0
                                  ELSE Capped(errorCountWrite + 1, MaxErrorCountWrite)
            /\ UNCHANGED <<held, fd, status, errorCountRead>>
    /\ quiet' = 0
    /\ UNCHANGED device

Expired ==
    \/ MaxWaitBytesSec > 0 /\ quiet > MaxWaitBytesSec
    \/ errorCountRead > MaxErrorCountRead
    \/ errorCountWrite > MaxErrorCountWrite

\* checkAlivePort() sets DEVICE_STATUS_ERROR and then closes the port, which makes
\* it DEVICE_STATUS_OFF.
CheckAlivePort == fd >= 0 /\ Expired /\ ClosePort

Tick ==
    /\ quiet < Long
    /\ quiet' = quiet + 1
    /\ UNCHANGED <<device, held, fd, status, errorCountRead, errorCountWrite>>

DeviceTurns ==
    /\ device' \in {"alive", "silent", "gone"} \ {device}
    /\ UNCHANGED <<held, fd, status, errorCountRead, errorCountWrite, quiet>>

PortNext ==
    \/ ClosePort \/ CheckAlivePort \/ Tick \/ DeviceTurns
    \/ \E outcome \in {"no path", "fails", "options", "ok"} : OpenPort(outcome)
    \/ \E result \in {"full", "short", "error"} : ReadBytes(result) \/ WriteBytes(result)

\* The application reads, writes and checks again and again.
PortFairness ==
    /\ WF_portVars(CheckAlivePort)
    /\ WF_portVars(\E result \in {"full", "short", "error"} : ReadBytes(result))
    /\ WF_portVars(\E result \in {"full", "short", "error"} : WriteBytes(result))

PortSpec == PortInit /\ [][PortNext]_portVars /\ PortFairness

\* However opening, failing and closing follow one another, the process holds one
\* descriptor of the port when m_device.fd is open and none otherwise, and the
\* status an application sees agrees with it: ON and ERROR mean held, OFF and
\* EMPTY not.
StatusTells ==
    /\ held = IF fd >= 0 THEN 1 ELSE 0
    /\ fd >= 0 <=> status \in {"ON", "ERROR"}

\* The application opens a port that is open: openPort() forgets the short reads.
Reopens == fd >= 0 /\ \E outcome \in {"options", "ok"} : OpenPort(outcome)

\* A device that stops sending, or is gone, is noticed: the port is closed, unless
\* the device comes back first or the application reopens the open port for ever.
\* A gone device is noticed by a write or by short reads only; its failing reads
\* keep the port alive.
LossIsNoticed ==
    \/ []<><<Reopens>>_portVars
    \/ \A lost \in {"silent", "gone"} : (fd >= 0 /\ device = lost) ~> (fd < 0 \/ device # lost)

\* The port reports what it has, and a device that is lost is noticed.
PortIsWatched == []StatusTells /\ LossIsNoticed
================================================================================
