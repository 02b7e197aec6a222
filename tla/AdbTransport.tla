----------------------------- MODULE AdbTransport -----------------------------
(***************************************************************************)
(* AdbDevice of adb-webusb.ts: the handshake with its retries over one USB *)
(* handle, the read loop, and one interactive shell whose writes wait for  *)
(* the device's acknowledgement.  Logcat and single commands are streams   *)
(* without writes and are left out.                                        *)
(*                                                                         *)
(* The device is external: it takes the packets in order, answers at any   *)
(* later time, refuses or ends a shell, or goes away.                      *)
(***************************************************************************)
EXTENDS Naturals, Sequences

CONSTANTS
    MaxAttempts,   \* handshakes of one connect, 3 in the code
    MaxWrites,     \* bound: writes asked for, of one or two chunks of 4096 bytes
    MaxOutputs     \* bound: packets of output of the device

AdbAssumption ==
    MaxAttempts \in Nat \ {0} /\ MaxWrites \in Nat /\ MaxOutputs \in Nat

VARIABLES
    usb,       \* the handle: "closed", "opening", "open", "claiming", "claimed", "lost"
    adb,       \* the AdbDevice: connect's place (pc, attempt, stage), stopped, running,
               \* and disconnect's place (leaving)
    stream,    \* the shell: local id, pc, mapped (in streams), closed, told (onClose ran), v2
    writes,    \* chunks still to send of each queued write, the head being written
    armed,     \* the chunk whose acknowledgement is awaited, 0 none
    chunk,     \* history: chunks sent
    toDevice, toHost,
    remote,    \* the device's side of each stream: "none", "open" or "closed"
    acked,     \* history: <<chunk resolved, chunk the device acknowledged>>
    outputs, asked

adbVars == <<usb, adb, stream, writes, armed, chunk, toDevice, toHost, remote, acked,
             outputs, asked>>

shellVars == <<stream, writes, armed, chunk, toDevice, remote, acked, outputs, asked>>

Lids == 1 .. 2

Packet(cmd, id, n) == [cmd |-> cmd, lid |-> id, n |-> n]

Settled == adb.pc \in {"idle", "done", "failed"}

Init ==
    /\ usb = "claimed"
    /\ adb = [pc |-> "idle", attempt |-> 1, stage |-> 1, stopped |-> FALSE,
              running |-> FALSE, leaving |-> "no"]
    /\ stream \in [lid : {0}, pc : {"none"}, mapped : {FALSE}, closed : {FALSE},
                   told : {FALSE}, v2 : BOOLEAN]
    /\ writes = <<>> /\ armed = 0 /\ chunk = 0 /\ toDevice = <<>> /\ toHost = <<>>
    /\ remote = [i \in Lids |-> "none"] /\ acked = <<>> /\ outputs = 0 /\ asked = 0

-----------------------------------------------------------------------------
(* connect *)

ConnectAdb ==
    /\ adb.pc = "idle" /\ ~adb.stopped
    /\ adb' = [adb EXCEPT !.pc = "attempt"]
    /\ UNCHANGED <<usb, toHost, shellVars>>

\* The attempt ends in its catch; stage 0 is an error that is not retried.
Caught(stage) == [adb EXCEPT !.pc = "caught", !.stage = stage]

\* The head of an attempt: CNXN goes out, unless connect was canceled or the USB fails.
BeginAttempt ==
    /\ adb.pc = "attempt"
    /\ adb' = IF adb.stopped \/ usb # "claimed" THEN Caught(0)
              ELSE [adb EXCEPT !.pc = "auth", !.stage = 1]
    /\ UNCHANGED <<usb, toHost, shellVars>>

\* The device accepts the connection at the first, second or third stage of doAuth.
Accepted ==
    /\ adb.pc = "auth" /\ usb = "claimed"
    /\ adb' = IF adb.stopped THEN Caught(0)
              ELSE [adb EXCEPT !.pc = "done", !.running = TRUE]
    /\ UNCHANGED <<usb, toHost, shellVars>>

\* It asks for the signature, then for the public key.
Challenged ==
    /\ adb.pc = "auth" /\ usb = "claimed" /\ adb.stage < 3
    /\ adb' = [adb EXCEPT !.stage = adb.stage + 1]
    /\ UNCHANGED <<usb, toHost, shellVars>>

\* A packet of an older session or a timeout is retried, except while the device asks
\* its user; anything else, and a failed transfer, is not.
HandshakeBreaks ==
    /\ adb.pc = "auth"
    /\ \/ adb.stage < 3 /\ usb = "claimed" /\ adb' = Caught(adb.stage)
       \/ adb' = Caught(0)
    /\ UNCHANGED <<usb, toHost, shellVars>>

\* A handle that is being opened or claimed refuses to close.
Shut(h) == IF h \in {"opening", "claiming"} THEN h ELSE "closed"

\* Mutant: a canceled connect gives up before it closes the handle.
EndAttemptCanceled ==
    /\ adb.pc = "caught"
    /\ IF adb.stopped
       THEN adb' = [adb EXCEPT !.pc = "failed"] /\ UNCHANGED usb
       ELSE IF adb.stage = 0 \/ adb.attempt >= MaxAttempts
       THEN usb' = Shut(usb) /\ adb' = [adb EXCEPT !.pc = "failed"]
       ELSE usb' = "opening" /\ adb' = [adb EXCEPT !.pc = "opening", !.attempt = adb.attempt + 1]
    /\ toHost' = <<>>
    /\ UNCHANGED shellVars

\* The catch closes the handle, which cancels old reads, then gives up or retries.
EndAttempt ==
    /\ adb.pc = "caught"
    /\ IF adb.stopped \/ adb.stage = 0 \/ adb.attempt >= MaxAttempts
       THEN usb' = Shut(usb) /\ adb' = [adb EXCEPT !.pc = "failed"]
       ELSE usb' = "opening" /\ adb' = [adb EXCEPT !.pc = "opening", !.attempt = adb.attempt + 1]
    /\ toHost' = <<>>
    /\ UNCHANGED shellVars

\* open() is settled; a canceled connect closes the handle again.
Reopened ==
    /\ adb.pc = "opening"
    /\ IF adb.stopped
       THEN usb' = "closed" /\ adb' = [adb EXCEPT !.pc = "failed"]
       ELSE \/ usb' = "claiming" /\ adb' = [adb EXCEPT !.pc = "claiming"]
            \/ usb' = "closed" /\ adb' = [adb EXCEPT !.pc = "failed"]
    /\ UNCHANGED <<toHost, shellVars>>

\* The interface is claimed, or refused: then connect rejects and leaves the handle open.
Claimed ==
    /\ adb.pc = "claiming"
    /\ \/ usb' = "claimed" /\ adb' = [adb EXCEPT !.pc = "attempt"]
       \/ usb' = "open" /\ adb' = [adb EXCEPT !.pc = "failed"]
    /\ UNCHANGED <<toHost, shellVars>>

-----------------------------------------------------------------------------
(* the interactive shell *)

\* interactive(): a new local id, the stream is mapped and OPEN goes out.
Opening(v2) ==
    /\ stream' = [stream EXCEPT !.lid = stream.lid + 1, !.pc = "opening", !.mapped = TRUE,
                                !.closed = FALSE, !.v2 = v2]
    /\ toDevice' = Append(toDevice, Packet("OPEN", stream.lid + 1, 0))

OpenShell ==
    /\ adb.running /\ stream.pc = "none" /\ Opening(stream.v2)
    /\ UNCHANGED <<usb, adb, writes, armed, chunk, toHost, remote, acked, outputs, asked>>

\* No answer for 15 seconds: the waiter and the stream are removed, nothing is sent.
OpenTimeout ==
    /\ stream.pc = "opening"
    /\ stream' = [stream EXCEPT !.pc = "failed", !.mapped = FALSE]
    /\ UNCHANGED <<usb, adb, writes, armed, chunk, toDevice, toHost, remote, acked, outputs,
                   asked>>

\* finish(): onClose runs once, for a shell that was opened.
Finished(s) == [s EXCEPT !.closed = TRUE, !.told = s.told \/ s.pc = "open"]

AskWrite(n) ==
    /\ stream.pc = "open" /\ asked < MaxWrites
    /\ asked' = asked + 1 /\ writes' = Append(writes, n)
    /\ UNCHANGED <<usb, adb, stream, armed, chunk, toDevice, toHost, remote, acked, outputs>>

\* Mutant: a failed write leaves its stream to the next one.
WriteGivenUp ==
    /\ writes' = Tail(writes) /\ armed' = 0
    /\ UNCHANGED <<stream, toDevice>>

\* The catch of a write: the stream is closed and forgotten, so that a late
\* acknowledgement finds nobody.
WriteFailed ==
    /\ writes' = Tail(writes) /\ armed' = 0
    /\ IF stream.closed
       THEN UNCHANGED <<stream, toDevice>>
       ELSE /\ stream' = [Finished(stream) EXCEPT !.mapped = FALSE]
            /\ toDevice' = Append(toDevice, Packet("CLSE", stream.lid, 0))

\* The next chunk of the head goes out and waits for its acknowledgement, or is
\* refused by the transport; on a closed shell it is not sent.
SendChunk ==
    /\ writes # <<>> /\ armed = 0
    /\ \/ /\ ~stream.closed /\ adb.running
          /\ armed' = chunk + 1 /\ chunk' = chunk + 1
          /\ toDevice' = Append(toDevice, Packet("WRTE", stream.lid, chunk + 1))
          /\ UNCHANGED <<stream, writes>>
       \/ WriteFailed /\ UNCHANGED chunk
    /\ UNCHANGED <<usb, adb, toHost, remote, acked, outputs, asked>>

WriteTimeout ==
    /\ armed # 0 /\ WriteFailed
    /\ UNCHANGED <<usb, adb, chunk, toHost, remote, acked, outputs, asked>>

\* ready(): the armed chunk is resolved, unless the shell closed meanwhile.
Ready(p) ==
    IF stream.closed
    THEN WriteFailed /\ UNCHANGED acked
    ELSE /\ armed' = 0 /\ acked' = Append(acked, <<armed, p.n>>)
         /\ writes' = IF Head(writes) = 1 THEN Tail(writes)
                      ELSE [writes EXCEPT ![1] = writes[1] - 1]
         /\ UNCHANGED <<stream, toDevice>>

Ignored == UNCHANGED <<stream, writes, armed, toDevice, acked>>

Mine(p) == p.lid = stream.lid

\* OKAY goes to the waiter of open(), else to the write that is armed.
Okay(p) ==
    IF stream.pc = "opening" /\ Mine(p)
    THEN stream' = [stream EXCEPT !.pc = "open"]
         /\ UNCHANGED <<writes, armed, toDevice, acked>>
    ELSE IF stream.mapped /\ Mine(p) /\ armed # 0 THEN Ready(p) ELSE Ignored

\* Output is acknowledged; the exit frame of a v2 shell ends it while it stays mapped.
Output(p) ==
    /\ stream' = IF stream.mapped /\ Mine(p) /\ p.n = 1 THEN Finished(stream) ELSE stream
    /\ UNCHANGED <<writes, armed, toDevice, acked>>

\* CLSE rejects the waiter of open(), which tries the legacy shell once, or ends the
\* stream; an armed write is rejected.  The CLSE sent back changes nothing there.
Close(p) ==
    IF ~stream.mapped \/ ~Mine(p) THEN Ignored
    ELSE IF stream.pc = "opening"
    THEN /\ IF stream.v2 THEN Opening(FALSE)
            ELSE /\ stream' = [stream EXCEPT !.pc = "failed", !.mapped = FALSE, !.closed = TRUE]
                 /\ UNCHANGED toDevice
         /\ UNCHANGED <<writes, armed, acked>>
    ELSE /\ stream' = [Finished(stream) EXCEPT !.mapped = FALSE]
         /\ writes' = IF armed # 0 THEN Tail(writes) ELSE writes
         /\ armed' = 0
         /\ UNCHANGED <<toDevice, acked>>

\* One turn of loop().
Receive ==
    /\ adb.running /\ usb = "claimed" /\ toHost # <<>>
    /\ toHost' = Tail(toHost)
    /\ LET p == Head(toHost)
       IN \/ p.cmd = "OKAY" /\ Okay(p)
          \/ p.cmd = "WRTE" /\ Output(p)
          \/ p.cmd = "CLSE" /\ Close(p)
    /\ UNCHANGED <<usb, adb, chunk, remote, outputs, asked>>

\* closeStreams(): waiters and armed writes are rejected, the streams are told.
StreamsClosed ==
    /\ stream' = [(IF stream.mapped THEN Finished(stream) ELSE stream) EXCEPT
                     !.mapped = FALSE,
                     !.pc = IF stream.pc = "opening" THEN "failed" ELSE stream.pc]
    /\ writes' = IF armed # 0 THEN Tail(writes) ELSE writes
    /\ armed' = 0

\* A transfer fails or a packet is malformed: the loop ends.
LoopFails ==
    /\ adb.running
    /\ adb' = [adb EXCEPT !.running = FALSE]
    /\ StreamsClosed
    /\ UNCHANGED <<usb, chunk, toDevice, toHost, remote, acked, outputs, asked>>

-----------------------------------------------------------------------------
(* disconnect: two awaits, the release of the interface and the close *)

DisconnectAdb ==
    /\ adb.leaving = "no"
    /\ adb' = [adb EXCEPT !.stopped = TRUE, !.running = FALSE, !.leaving = "releasing"]
    /\ StreamsClosed
    /\ UNCHANGED <<usb, chunk, toDevice, toHost, remote, acked, outputs, asked>>

ReleaseInterface ==
    /\ adb.leaving = "releasing"
    /\ usb' = IF usb = "claimed" THEN "open" ELSE usb
    /\ adb' = [adb EXCEPT !.leaving = "closing"]
    /\ UNCHANGED <<toHost, shellVars>>

CloseUsb ==
    /\ adb.leaving = "closing"
    /\ usb' = Shut(usb)
    /\ adb' = [adb EXCEPT !.leaving = "left"]
    /\ UNCHANGED <<toHost, shellVars>>

-----------------------------------------------------------------------------
(* the device, external *)

Answer(cmd, p) == toHost' = Append(toHost, Packet(cmd, p.lid, p.n))

\* A service is opened or refused, a chunk is acknowledged while its shell lives.
DeviceTakes ==
    /\ usb = "claimed" /\ toDevice # <<>> /\ toDevice' = Tail(toDevice)
    /\ LET p == Head(toDevice)
       IN \/ /\ p.cmd = "OPEN" /\ Answer("OKAY", p)
             /\ remote' = [remote EXCEPT ![p.lid] = "open"]
          \/ p.cmd = "OPEN" /\ Answer("CLSE", p) /\ UNCHANGED remote
          \/ /\ p.cmd = "WRTE" /\ UNCHANGED remote
             /\ IF remote[p.lid] = "open" THEN Answer("OKAY", p) ELSE UNCHANGED toHost
          \/ /\ p.cmd = "CLSE" /\ UNCHANGED toHost
             /\ remote' = [remote EXCEPT ![p.lid] = "closed"]
    /\ UNCHANGED <<usb, adb, stream, writes, armed, chunk, acked, outputs, asked>>

DeviceOutputs(id, n) ==
    /\ usb = "claimed" /\ remote[id] = "open" /\ outputs < MaxOutputs
    /\ outputs' = outputs + 1
    /\ toHost' = Append(toHost, Packet("WRTE", id, n))
    /\ UNCHANGED <<usb, adb, stream, writes, armed, chunk, toDevice, remote, acked, asked>>

DeviceExits(id) ==
    /\ usb = "claimed" /\ remote[id] = "open"
    /\ remote' = [remote EXCEPT ![id] = "closed"]
    /\ toHost' = Append(toHost, Packet("CLSE", id, 0))
    /\ UNCHANGED <<usb, adb, stream, writes, armed, chunk, toDevice, acked, outputs, asked>>

Unplug ==
    /\ usb = "claimed" /\ usb' = "lost"
    /\ UNCHANGED <<adb, toHost, shellVars>>

-----------------------------------------------------------------------------

Handshake ==
    \/ ConnectAdb \/ BeginAttempt \/ Accepted \/ Challenged \/ HandshakeBreaks \/ EndAttempt
    \/ Reopened \/ Claimed

Shell ==
    \/ OpenShell \/ OpenTimeout \/ \E n \in 1 .. 2 : AskWrite(n)
    \/ SendChunk \/ WriteTimeout \/ Receive \/ LoopFails

Device ==
    \/ DeviceTakes \/ \E id \in Lids, n \in 0 .. 1 : DeviceOutputs(id, n)
    \/ \E id \in Lids : DeviceExits(id)
    \/ Unplug

Next == Handshake \/ Shell \/ DisconnectAdb \/ ReleaseInterface \/ CloseUsb \/ Device

Spec == Init /\ [][Next]_adbVars

-----------------------------------------------------------------------------
(* properties *)

\* The handle, the handshake and the shell keep their shapes; a chunk is only awaited
\* by a write at the head of the queue.
TypeOK ==
    /\ usb \in {"closed", "opening", "open", "claiming", "claimed", "lost"}
    /\ adb \in [pc : {"idle", "attempt", "auth", "caught", "opening", "claiming", "done",
                      "failed"},
                attempt : 1 .. MaxAttempts, stage : 0 .. 3, stopped : BOOLEAN,
                running : BOOLEAN, leaving : {"no", "releasing", "closing", "left"}]
    /\ stream \in [lid : {0} \cup Lids, pc : {"none", "opening", "open", "failed"},
                   mapped : BOOLEAN, closed : BOOLEAN, told : BOOLEAN, v2 : BOOLEAN]
    /\ armed # 0 => writes # <<>>

\* An acknowledgement resolves the chunk the device acknowledged: one that comes late,
\* after its write was given up, never resolves a later write.
AckMatchesWrite == \A i \in DOMAIN acked : acked[i][1] = acked[i][2]

\* Once disconnect and the connect it interrupted have both ended, the interface is
\* free for the next connection, whatever the handshake was doing.
InterfaceFreed == adb.leaving = "left" /\ Settled => usb # "claimed"

\* The end of a shell that was opened is always reported to its session, so that no
\* session believes in a shell that takes nothing any more.
EndReported == stream.pc = "open" /\ (stream.closed \/ ~stream.mapped) => stream.told
=============================================================================
