-------------------------- MODULE BrowserSafeProofs --------------------------
(***************************************************************************)
(* Proofs about MCBrowserSafe for every value of its constants: the ADB    *)
(* transport, with its handle and its shell, the terminal view, the        *)
(* assistant, the remote control, the dialogs of the file browser and the  *)
(* quick commands.  A behaviour of the page is one of each part, or keeps  *)
(* that part still.                                                        *)
(***************************************************************************)
EXTENDS MCBrowserSafe, SequenceTheorems, TLAPS

LEMMA Appended ==
    ASSUME NEW S, NEW q \in Seq(S), NEW e \in S
    PROVE  /\ Append(q, e) \in Seq(S) /\ Len(Append(q, e)) = Len(q) + 1 /\ Len(q) \in Nat
           /\ \A i \in 1 .. Len(q) : Append(q, e)[i] = q[i]
           /\ Append(q, e)[Len(q) + 1] = e
BY AppendProperties, LenProperties

LEMMA Shifted ==
    ASSUME NEW S, NEW q \in Seq(S), q # <<>>
    PROVE  /\ Tail(q) \in Seq(S) /\ Len(q) \in Nat \ {0} /\ Len(Tail(q)) = Len(q) - 1
           /\ \A i \in 1 .. Len(q) - 1 : Tail(q)[i] = q[i + 1]
           /\ Head(q) = q[1] /\ q[1] \in S
<1>1. Len(q) \in Nat \ {0}
  BY EmptySeq, LenProperties
<1>2. /\ Head(q) \in S /\ Head(q) = q[1]
      /\ Tail(q) \in Seq(S) /\ Len(Tail(q)) = Len(q) - 1
      /\ \A i \in 1 .. Len(Tail(q)) : Tail(q)[i] = q[i + 1]
  BY HeadTailProperties
<1>3. QED
  BY <1>1, <1>2

-----------------------------------------------------------------------------
(* ADB: the handle *)

AdbRecord ==
    [pc : {"idle", "attempt", "auth", "caught", "opening", "claiming", "done", "failed"},
     attempt : 1 .. MaxAttempts, stage : 0 .. 3, stopped : BOOLEAN, running : BOOLEAN,
     leaving : {"no", "releasing", "closing", "left"}]

UsbState == {"closed", "opening", "open", "claiming", "claimed", "lost"}

\* A handle that disconnect released is claimed only by a connect that will close it.
HandleInv ==
    /\ adb \in AdbRecord
    /\ usb \in UsbState
    /\ adb.leaving # "no" => adb.stopped
    /\ adb.leaving \in {"closing", "left"} /\ usb = "claimed" => ~Adb!Settled
    /\ adb.running => adb.pc = "done"

LEMMA StageFields ==
    ASSUME NEW a \in AdbRecord, NEW n \in 0 .. 3, NEW pc \in {"auth", "caught"}
    PROVE  /\ [a EXCEPT !.pc = pc, !.stage = n] \in AdbRecord
           /\ [a EXCEPT !.pc = pc, !.stage = n].pc = pc
           /\ [a EXCEPT !.pc = pc, !.stage = n].running = a.running
           /\ [a EXCEPT !.pc = pc, !.stage = n].stopped = a.stopped
           /\ [a EXCEPT !.pc = pc, !.stage = n].leaving = a.leaving
BY DEF AdbRecord

LEMMA CaughtFields ==
    ASSUME adb \in AdbRecord, NEW n \in 0 .. 3
    PROVE  /\ Adb!Caught(n) \in AdbRecord /\ Adb!Caught(n).pc = "caught"
           /\ Adb!Caught(n).running = adb.running /\ Adb!Caught(n).stopped = adb.stopped
           /\ Adb!Caught(n).leaving = adb.leaving
BY StageFields DEF Adb!Caught

LEMMA ShutState ==
    ASSUME usb \in UsbState
    PROVE  Adb!Shut(usb) \in UsbState /\ Adb!Shut(usb) # "claimed"
BY DEF Adb!Shut, UsbState

\* A handshake: only an attempt that will be caught holds what disconnect released.
LEMMA HandshakeKept ==
    ASSUME HandleInv, Adb!Handshake
    PROVE  HandleInv' /\ adb.pc # "done"
<1>1. CASE Adb!ConnectAdb
  BY <1>1 DEF HandleInv, AdbRecord, Adb!Settled, Adb!ConnectAdb
<1>2. CASE Adb!BeginAttempt
  <2>1. CASE adb.stopped \/ usb # "claimed"
    <3>1. adb' = Adb!Caught(0) /\ adb.pc = "attempt" /\ usb' = usb
      BY <1>2, <2>1 DEF Adb!BeginAttempt
    <3>2. QED
      BY <3>1, CaughtFields DEF HandleInv, Adb!Settled
  <2>2. CASE ~(adb.stopped \/ usb # "claimed")
    <3>1. adb' = [adb EXCEPT !.pc = "auth", !.stage = 1] /\ adb.pc = "attempt" /\ usb' = usb
      BY <1>2, <2>2 DEF Adb!BeginAttempt
    <3>2. /\ adb' \in AdbRecord /\ adb'.pc = "auth" /\ adb'.running = adb.running
          /\ adb'.stopped = adb.stopped /\ adb'.leaving = adb.leaving
      <4>1. adb \in AdbRecord /\ 1 \in 0 .. 3 /\ "auth" \in {"auth", "caught"}
        BY DEF HandleInv
      <4>2. QED
        BY <3>1, <4>1, StageFields, Zenon
    <3>3. ~Adb!Settled' /\ ~adb.running
      BY <3>1, <3>2 DEF HandleInv, Adb!Settled
    <3>4. QED
      BY <3>1, <3>2, <3>3 DEF HandleInv
  <2>3. QED
    BY <2>1, <2>2
<1>3. CASE Adb!Accepted
  <2>1. CASE adb.stopped
    <3>1. adb' = Adb!Caught(0) /\ adb.pc = "auth" /\ usb' = usb
      BY <1>3, <2>1 DEF Adb!Accepted
    <3>2. QED
      BY <3>1, CaughtFields DEF HandleInv, Adb!Settled
  <2>2. CASE ~adb.stopped
    <3>1. adb' = [adb EXCEPT !.pc = "done", !.running = TRUE] /\ adb.pc = "auth" /\ usb' = usb
      BY <1>3, <2>2 DEF Adb!Accepted
    <3>2. QED
      BY <2>2, <3>1 DEF HandleInv, AdbRecord, Adb!Settled
  <2>3. QED
    BY <2>1, <2>2
<1>4. CASE Adb!Challenged
  <2>1. /\ adb' = [adb EXCEPT !.stage = adb.stage + 1] /\ adb.pc = "auth" /\ usb' = usb
        /\ adb.stage + 1 \in 0 .. 3
    BY <1>4 DEF Adb!Challenged, HandleInv, AdbRecord
  <2>2. QED
    BY <2>1 DEF HandleInv, AdbRecord, Adb!Settled
<1>5. CASE Adb!HandshakeBreaks
  <2>1. adb.pc = "auth" /\ usb' = usb /\ \E n \in 0 .. 3 : adb' = Adb!Caught(n)
    BY <1>5 DEF HandleInv, AdbRecord, Adb!HandshakeBreaks
  <2>2. QED
    BY <2>1, CaughtFields DEF HandleInv, Adb!Settled
<1>6. CASE Adb!EndAttempt
  <2>1. CASE adb.stopped \/ adb.stage = 0 \/ adb.attempt >= MaxAttempts
    <3>1. adb' = [adb EXCEPT !.pc = "failed"] /\ usb' = Adb!Shut(usb) /\ adb.pc = "caught"
      BY <1>6, <2>1 DEF Adb!EndAttempt
    <3>2. QED
      BY <3>1, ShutState DEF HandleInv, AdbRecord
  <2>2. CASE ~(adb.stopped \/ adb.stage = 0 \/ adb.attempt >= MaxAttempts)
    <3>1. /\ adb' = [adb EXCEPT !.pc = "opening", !.attempt = adb.attempt + 1]
          /\ usb' = "opening" /\ adb.pc = "caught"
      BY <1>6, <2>2 DEF Adb!EndAttempt
    <3>2. adb.attempt + 1 \in 1 .. MaxAttempts
      BY <2>2, AdbHolds DEF Adb!AdbAssumption, HandleInv, AdbRecord
    <3>3. QED
      BY <3>1, <3>2 DEF HandleInv, AdbRecord, UsbState
  <2>3. QED
    BY <2>1, <2>2
<1>7. CASE Adb!Reopened
  <2>1. /\ adb.pc = "opening"
        /\ \/ usb' = "closed" /\ adb' = [adb EXCEPT !.pc = "failed"]
           \/ usb' = "claiming" /\ adb' = [adb EXCEPT !.pc = "claiming"]
    BY <1>7 DEF Adb!Reopened
  <2>2. CASE usb' = "closed" /\ adb' = [adb EXCEPT !.pc = "failed"]
    BY <2>1, <2>2 DEF HandleInv, AdbRecord, UsbState
  <2>3. CASE usb' = "claiming" /\ adb' = [adb EXCEPT !.pc = "claiming"]
    BY <2>1, <2>3 DEF HandleInv, AdbRecord, UsbState
  <2>4. QED
    BY <2>1, <2>2, <2>3
<1>8. CASE Adb!Claimed
  <2>1. adb.pc = "claiming"
    BY <1>8 DEF Adb!Claimed
  <2>2. CASE usb' = "claimed" /\ adb' = [adb EXCEPT !.pc = "attempt"]
    BY <2>1, <2>2 DEF HandleInv, AdbRecord, UsbState, Adb!Settled
  <2>3. CASE usb' = "open" /\ adb' = [adb EXCEPT !.pc = "failed"]
    BY <2>1, <2>3 DEF HandleInv, AdbRecord, UsbState
  <2>4. QED
    BY <1>8, <2>1, <2>2, <2>3 DEF Adb!Claimed
<1>9. QED
  BY <1>1, <1>2, <1>3, <1>4, <1>5, <1>6, <1>7, <1>8 DEF Adb!Handshake

\* What disconnect does to the handle in its three steps.
LEMMA LeavingKept ==
    ASSUME HandleInv, Adb!DisconnectAdb \/ Adb!ReleaseInterface \/ Adb!CloseUsb
    PROVE  HandleInv' /\ adb'.pc = adb.pc
<1>1. CASE Adb!DisconnectAdb
  BY <1>1 DEF HandleInv, AdbRecord, Adb!Settled, Adb!DisconnectAdb
<1>2. CASE Adb!ReleaseInterface
  <2>1. /\ adb' = [adb EXCEPT !.leaving = "closing"] /\ adb.leaving = "releasing"
        /\ usb' \in {usb, "open"} /\ usb' # "claimed"
    BY <1>2 DEF Adb!ReleaseInterface
  <2>2. QED
    BY <2>1 DEF HandleInv, AdbRecord, UsbState
<1>3. CASE Adb!CloseUsb
  <2>1. /\ adb' = [adb EXCEPT !.leaving = "left"] /\ adb.leaving = "closing"
        /\ usb' = Adb!Shut(usb)
    BY <1>3 DEF Adb!CloseUsb
  <2>2. QED
    BY <2>1, ShutState DEF HandleInv, AdbRecord
<1>4. QED
  BY <1>1, <1>2, <1>3

LEMMA HandleStep ==
    ASSUME HandleInv, [Adb!Next]_adbVars
    PROVE  HandleInv' /\ (adb.pc = "done" => adb'.pc = "done")
<1>1. CASE Adb!Handshake
  BY <1>1, HandshakeKept
<1>2. CASE Adb!DisconnectAdb \/ Adb!ReleaseInterface \/ Adb!CloseUsb
  BY <1>2, LeavingKept
<1>3. CASE Adb!LoopFails
  BY <1>3 DEF HandleInv, AdbRecord, Adb!Settled, Adb!LoopFails
<1>4. CASE Adb!Unplug
  BY <1>4 DEF HandleInv, UsbState, Adb!Unplug
<1>5. CASE UNCHANGED <<usb, adb>>
  BY <1>5 DEF HandleInv, Adb!Settled
<1>6. QED
  BY <1>1, <1>2, <1>3, <1>4, <1>5
     DEF adbVars, Adb!Next, Adb!Shell, Adb!Device, Adb!OpenShell, Adb!OpenTimeout,
         Adb!AskWrite, Adb!SendChunk, Adb!WriteTimeout, Adb!Receive, Adb!DeviceTakes,
         Adb!DeviceOutputs, Adb!DeviceExits

-----------------------------------------------------------------------------
(* ADB: the shell *)

StreamRecord ==
    [lid : {0} \cup Adb!Lids, pc : {"none", "opening", "open", "failed"},
     mapped : BOOLEAN, closed : BOOLEAN, told : BOOLEAN, v2 : BOOLEAN]

AdbPacket == [cmd : {"OPEN", "OKAY", "WRTE", "CLSE"}, lid : Adb!Lids, n : Nat]

ShellTyped ==
    /\ stream \in StreamRecord /\ writes \in Seq(1 .. 2) /\ armed \in Nat /\ chunk \in Nat
    /\ toDevice \in Seq(AdbPacket) /\ toHost \in Seq(AdbPacket)
    /\ remote \in [Adb!Lids -> {"none", "open", "closed"}]
    /\ acked \in Seq(Nat \X Nat)

\* How far the shell is, and what its writes may await.
ShellShaped ==
    /\ stream.lid = 0 <=> stream.pc = "none"
    /\ stream.pc = "none" => ~stream.mapped /\ ~stream.closed
    /\ stream.pc # "none" => adb.pc = "done"
    /\ stream.v2 => stream.lid <= 1
    /\ stream.mapped => stream.pc \in {"opening", "open"}
    /\ stream.pc = "opening" => stream.mapped /\ ~stream.closed
    /\ stream.pc = "open" => stream.mapped \/ stream.closed
    /\ stream.pc # "open" => writes = <<>> /\ armed = 0
    /\ armed # 0 => stream.mapped /\ writes # <<>>

\* Nothing on the way is of a stream that was not opened yet.
PacketsKnown ==
    /\ \A i \in 1 .. Len(toDevice) : toDevice[i].lid <= stream.lid
    /\ \A i \in 1 .. Len(toHost) : toHost[i].lid <= stream.lid
    /\ \A i \in Adb!Lids : i > stream.lid => remote[i] = "none"

\* What the device will answer with OKAY, and its answers on the way.
Asking == {i \in 1 .. Len(toDevice) :
              toDevice[i].lid = stream.lid /\ toDevice[i].cmd \in {"OPEN", "WRTE"}}

Okays == {i \in 1 .. Len(toHost) : toHost[i].lid = stream.lid /\ toHost[i].cmd = "OKAY"}

\* While the shell lives at most one OKAY is to come, that of the chunk awaited.
OneAnswer ==
    stream.mapped /\ ~stream.closed =>
        /\ \A i \in Asking : toDevice[i].n = armed
        /\ \A i \in Okays : toHost[i].n = armed
        /\ \A i, j \in Asking : i = j
        /\ \A i, j \in Okays : i = j
        /\ Asking = {} \/ Okays = {}
        /\ stream.pc = "open" /\ armed = 0 => Asking = {} /\ Okays = {}

\* The answer to OPEN comes before any output.
OpenFirst ==
    stream.pc = "opening" =>
        /\ \A i \in 1 .. Len(toHost) :
               toHost[i].lid = stream.lid /\ toHost[i].cmd = "WRTE"
                   => \E j \in Okays : j < i
        /\ remote[stream.lid] = "open" => Okays # {}

ShellInv ==
    /\ ShellTyped /\ ShellShaped /\ PacketsKnown /\ OneAnswer /\ OpenFirst
    /\ Adb!AckMatchesWrite /\ Adb!EndReported

LEMMA FinishedFields ==
    ASSUME NEW s \in StreamRecord
    PROVE  /\ Adb!Finished(s) \in StreamRecord /\ Adb!Finished(s).lid = s.lid
           /\ Adb!Finished(s).pc = s.pc /\ Adb!Finished(s).mapped = s.mapped
           /\ Adb!Finished(s).v2 = s.v2 /\ Adb!Finished(s).closed = TRUE
           /\ s.told \/ s.pc = "open" => Adb!Finished(s).told = TRUE
BY DEF StreamRecord, Adb!Finished

\* A stream that is forgotten, or that ends.
LEMMA StreamFields ==
    ASSUME NEW s \in StreamRecord, NEW pc \in {"failed", "open"}
    PROVE  /\ [s EXCEPT !.mapped = FALSE, !.pc = pc] \in StreamRecord
           /\ [s EXCEPT !.mapped = FALSE, !.pc = pc].lid = s.lid
           /\ [s EXCEPT !.mapped = FALSE, !.pc = pc].pc = pc
           /\ [s EXCEPT !.mapped = FALSE, !.pc = pc].mapped = FALSE
           /\ [s EXCEPT !.mapped = FALSE, !.pc = pc].closed = s.closed
           /\ [s EXCEPT !.mapped = FALSE, !.pc = pc].told = s.told
           /\ [s EXCEPT !.mapped = FALSE, !.pc = pc].v2 = s.v2
           /\ [s EXCEPT !.mapped = FALSE] \in StreamRecord
           /\ [s EXCEPT !.mapped = FALSE].lid = s.lid
           /\ [s EXCEPT !.mapped = FALSE].pc = s.pc
           /\ [s EXCEPT !.mapped = FALSE].mapped = FALSE
           /\ [s EXCEPT !.mapped = FALSE].closed = s.closed
           /\ [s EXCEPT !.mapped = FALSE].told = s.told
           /\ [s EXCEPT !.mapped = FALSE].v2 = s.v2
BY DEF StreamRecord

\* A shell that lives no more keeps what was acknowledged, and asks for nothing new.
LEMMA ShellOver ==
    ASSUME ShellInv, HandleInv, HandleInv', adb.pc = "done" => adb'.pc = "done",
           stream' \in StreamRecord, stream'.lid = stream.lid, stream'.v2 = stream.v2,
           stream'.pc \in {stream.pc, "failed"}, stream'.pc \notin {"none", "opening"},
           stream.pc # "none",
           stream'.pc = "open" => stream.pc = "open",
           ~stream'.mapped \/ stream'.closed, stream'.mapped => stream'.pc = "open",
           stream'.pc = "open" => stream'.closed /\ stream'.told,
           writes' \in Seq(1 .. 2), armed' \in Nat, chunk' \in Nat,
           armed' # 0 => stream'.mapped /\ writes' # <<>>,
           stream'.pc # "open" => writes' = <<>> /\ armed' = 0,
           UNCHANGED <<remote, acked>>,
           toHost' \in Seq(AdbPacket),
           \A i \in 1 .. Len(toHost') : toHost'[i].lid <= stream.lid,
           toDevice' \in Seq(AdbPacket),
           \A i \in 1 .. Len(toDevice') : toDevice'[i].lid <= stream.lid
    PROVE  ShellInv'
<1>1. ShellTyped' /\ PacketsKnown'
  BY DEF ShellInv, ShellTyped, PacketsKnown
<1>2. ShellShaped'
  BY DEF ShellInv, ShellShaped
<1>3. OneAnswer' /\ OpenFirst' /\ Adb!EndReported'
  BY DEF OneAnswer, OpenFirst, Adb!EndReported
<1>4. Adb!AckMatchesWrite'
  BY DEF ShellInv, Adb!AckMatchesWrite
<1>5. QED
  BY <1>1, <1>2, <1>3, <1>4 DEF ShellInv

LEMMA HostTaken ==
    ASSUME ShellInv, toHost # <<>>, toHost' = Tail(toHost)
    PROVE  /\ toHost' \in Seq(AdbPacket) /\ Len(toHost) \in Nat \ {0}
           /\ Len(toHost') = Len(toHost) - 1
           /\ \A i \in 1 .. Len(toHost') : toHost'[i] = toHost[i + 1]
           /\ \A i \in 1 .. Len(toHost') : toHost'[i].lid <= stream.lid
           /\ Head(toHost) = toHost[1] /\ toHost[1] \in AdbPacket
           /\ toHost[1].lid <= stream.lid
<1>1. /\ toHost' \in Seq(AdbPacket) /\ Len(toHost) \in Nat \ {0}
      /\ Len(toHost') = Len(toHost) - 1
      /\ \A i \in 1 .. Len(toHost) - 1 : toHost'[i] = toHost[i + 1]
      /\ Head(toHost) = toHost[1] /\ toHost[1] \in AdbPacket
  BY Shifted DEF ShellInv, ShellTyped
<1>2. \A i \in 1 .. Len(toHost) : toHost[i].lid <= stream.lid
  BY DEF ShellInv, PacketsKnown
<1>3. QED
  BY <1>1, <1>2

LEMMA HostIgnored ==
    ASSUME ShellInv, HandleInv', adb.pc = "done" => adb'.pc = "done",
           toHost # <<>>, toHost' = Tail(toHost), stream.pc = "opening" => 1 \notin Okays,
           UNCHANGED <<stream, writes, armed, chunk, toDevice, remote, acked>>
    PROVE  ShellInv'
<1>1. ShellTyped' /\ ShellShaped' /\ PacketsKnown'
  BY HostTaken DEF ShellInv, ShellTyped, ShellShaped, PacketsKnown
<1>2. \A i \in Okays' : i + 1 \in Okays /\ toHost'[i] = toHost[i + 1] /\ i \in Int
  BY HostTaken DEF Okays
<1>3. OneAnswer'
  <2>1. Asking' = Asking
    BY DEF Asking
  <2>2. SUFFICES ASSUME stream.mapped /\ ~stream.closed
                 PROVE  /\ \A i \in Okays' : toHost'[i].n = armed
                        /\ \A i, j \in Okays' : i = j
                        /\ Asking = {} \/ Okays' = {}
                        /\ stream.pc = "open" /\ armed = 0 => Okays' = {}
    BY <2>1 DEF ShellInv, OneAnswer
  <2>3. \A i, j \in Okays' : i = j
    <3>1. SUFFICES ASSUME NEW i \in Okays', NEW j \in Okays'
                   PROVE  i = j
      OBVIOUS
    <3>2. i + 1 = j + 1 /\ i \in Int /\ j \in Int
      BY <1>2, <2>2 DEF ShellInv, OneAnswer
    <3>3. QED
      BY <3>2
  <2>4. QED
    BY <1>2, <2>2, <2>3 DEF ShellInv, OneAnswer
<1>4. OpenFirst'
  <2>1. SUFFICES ASSUME stream.pc = "opening"
                 PROVE  OpenFirst'
    BY DEF OpenFirst
  <2>2. \A j \in Okays : j - 1 \in Okays'
    BY <2>1, HostTaken DEF Okays
  <2>3. \A i \in 1 .. Len(toHost') :
            toHost'[i].lid = stream'.lid /\ toHost'[i].cmd = "WRTE" => \E j \in Okays' : j < i
    <3>1. SUFFICES ASSUME NEW i \in 1 .. Len(toHost'), toHost'[i].lid = stream.lid,
                          toHost'[i].cmd = "WRTE"
                   PROVE  \E j \in Okays' : j < i
      OBVIOUS
    <3>2. /\ i + 1 \in 1 .. Len(toHost) /\ toHost[i + 1].lid = stream.lid
          /\ toHost[i + 1].cmd = "WRTE" /\ i \in Int
      BY <3>1, HostTaken
    <3>3. PICK j \in Okays : j < i + 1
      BY <2>1, <3>2 DEF ShellInv, OpenFirst
    <3>4. j - 1 \in Okays' /\ j \in Int
      BY <2>2 DEF Okays
    <3>5. j - 1 < i
      BY <3>2, <3>3, <3>4
    <3>6. QED
      BY <3>4, <3>5
  <2>4. remote'[stream'.lid] = "open" => Okays' # {}
    BY <2>1, <2>2 DEF ShellInv, OpenFirst
  <2>5. QED
    BY <2>3, <2>4 DEF OpenFirst
<1>5. Adb!AckMatchesWrite' /\ Adb!EndReported'
  BY DEF ShellInv, Adb!AckMatchesWrite, Adb!EndReported
<1>6. QED
  BY <1>1, <1>3, <1>4, <1>5 DEF ShellInv

LEMMA WriteFailedKept ==
    ASSUME ShellInv, HandleInv, HandleInv', adb.pc = "done" => adb'.pc = "done",
           Adb!WriteFailed, writes # <<>>,
           chunk' \in Nat, UNCHANGED <<remote, acked>>, toHost' \in Seq(AdbPacket),
           \A i \in 1 .. Len(toHost') : toHost'[i].lid <= stream.lid
    PROVE  ShellInv'
<1>1. stream.pc = "open" /\ stream.lid \in Adb!Lids /\ stream \in StreamRecord
  BY DEF ShellInv, ShellShaped, ShellTyped, StreamRecord
<1>2. writes' \in Seq(1 .. 2) /\ armed' = 0 /\ armed' \in Nat
  BY Shifted DEF Adb!WriteFailed, ShellInv, ShellTyped
<1>3. CASE stream.closed
  <2>1. UNCHANGED <<stream, toDevice>> /\ stream.told
    BY <1>1, <1>3 DEF Adb!WriteFailed, ShellInv, Adb!EndReported
  <2>2. /\ toDevice' \in Seq(AdbPacket)
        /\ \A i \in 1 .. Len(toDevice') : toDevice'[i].lid <= stream.lid
    BY <2>1 DEF ShellInv, ShellTyped, PacketsKnown
  <2>3. QED
    BY <1>1, <1>2, <1>3, <2>1, <2>2, ShellOver
<1>4. CASE ~stream.closed
  <2>1. /\ stream' = [Adb!Finished(stream) EXCEPT !.mapped = FALSE]
        /\ toDevice' = Append(toDevice, Adb!Packet("CLSE", stream.lid, 0))
    BY <1>4 DEF Adb!WriteFailed
  <2>2. /\ stream' \in StreamRecord /\ stream'.lid = stream.lid /\ stream'.v2 = stream.v2
        /\ stream'.pc = stream.pc /\ ~stream'.mapped /\ stream'.closed /\ stream'.told
    <3>1. /\ Adb!Finished(stream) \in StreamRecord /\ Adb!Finished(stream).lid = stream.lid
          /\ Adb!Finished(stream).pc = stream.pc /\ Adb!Finished(stream).v2 = stream.v2
          /\ Adb!Finished(stream).closed = TRUE /\ Adb!Finished(stream).told = TRUE
      BY <1>1, FinishedFields
    <3>2. QED
      BY <2>1, <3>1, StreamFields
  <2>3. /\ toDevice' \in Seq(AdbPacket)
        /\ \A i \in 1 .. Len(toDevice') : toDevice'[i].lid <= stream.lid
    <3>1. /\ Adb!Packet("CLSE", stream.lid, 0) \in AdbPacket
          /\ Adb!Packet("CLSE", stream.lid, 0).lid = stream.lid
      BY <1>1 DEF Adb!Packet, AdbPacket
    <3>2. toDevice \in Seq(AdbPacket) /\ \A i \in 1 .. Len(toDevice) : toDevice[i].lid <= stream.lid
      BY DEF ShellInv, ShellTyped, PacketsKnown
    <3>3. stream.lid <= stream.lid
      BY <1>1 DEF Adb!Lids
    <3>4. QED
      BY <2>1, <3>1, <3>2, <3>3, Appended
  <2>4. QED
    BY <1>1, <1>2, <2>2, <2>3, ShellOver
<1>5. QED
  BY <1>3, <1>4

\* A shell that is opened, or opened again as a legacy one, has a number of its own.
LEMMA OpeningKept ==
    ASSUME ShellInv, HandleInv', adb'.pc = "done", NEW v \in BOOLEAN, Adb!Opening(v),
           v => stream.lid = 0, stream.lid <= 1, stream.pc \in {"none", "opening"},
           UNCHANGED <<writes, armed, chunk, remote, acked>>, toHost' \in Seq(AdbPacket),
           \A i \in 1 .. Len(toHost') : toHost'[i].lid <= stream.lid
    PROVE  ShellInv'
<1> DEFINE opened == Adb!Packet("OPEN", stream.lid + 1, 0)
<1>1. /\ stream \in StreamRecord /\ stream.lid \in 0 .. 1 /\ stream.lid + 1 \in Adb!Lids
      /\ writes = <<>> /\ armed = 0
  BY DEF ShellInv, ShellTyped, ShellShaped, StreamRecord, Adb!Lids
<1>2. /\ stream' \in StreamRecord /\ stream'.lid = stream.lid + 1 /\ stream'.pc = "opening"
      /\ stream'.mapped = TRUE /\ stream'.closed = FALSE /\ stream'.v2 = v
      /\ stream'.told = stream.told
  <2>1. stream' = [stream EXCEPT !.lid = stream.lid + 1, !.pc = "opening", !.mapped = TRUE,
                                 !.closed = FALSE, !.v2 = v]
    BY DEF Adb!Opening
  <2>2. QED
    BY <1>1, <2>1 DEF StreamRecord
<1>3. opened \in AdbPacket /\ opened.lid = stream.lid + 1 /\ opened.n = 0 /\ opened.cmd = "OPEN"
  BY <1>1 DEF Adb!Packet, AdbPacket
<1>4. /\ toDevice' \in Seq(AdbPacket) /\ Len(toDevice') = Len(toDevice) + 1
      /\ Len(toDevice) \in Nat
      /\ \A i \in 1 .. Len(toDevice) : toDevice'[i] = toDevice[i]
      /\ toDevice'[Len(toDevice) + 1] = opened
  BY <1>3, Appended DEF Adb!Opening, ShellInv, ShellTyped
<1>5. ShellTyped'
  BY <1>2, <1>4 DEF ShellInv, ShellTyped
<1>6. ShellShaped'
  BY <1>1, <1>2 DEF ShellInv, ShellShaped
<1>7. \A i \in 1 .. Len(toDevice) : toDevice'[i].lid <= stream.lid /\ toDevice'[i].lid \in Int
  <2>1. \A i \in 1 .. Len(toDevice) : toDevice[i] \in AdbPacket
    BY ElementOfSeq DEF ShellInv, ShellTyped
  <2>2. QED
    BY <1>4, <2>1 DEF ShellInv, PacketsKnown, AdbPacket, Adb!Lids
<1>8. \A i \in 1 .. Len(toHost') : toHost'[i].lid \in Int
  <2>1. \A i \in 1 .. Len(toHost') : toHost'[i] \in AdbPacket
    BY ElementOfSeq
  <2>2. QED
    BY <2>1 DEF AdbPacket, Adb!Lids
<1>9. PacketsKnown'
  <2>1. \A i \in 1 .. Len(toDevice') : toDevice'[i].lid <= stream'.lid
    BY <1>1, <1>2, <1>3, <1>4, <1>7
  <2>2. \A i \in 1 .. Len(toHost') : toHost'[i].lid <= stream'.lid
    BY <1>1, <1>2, <1>8
  <2>3. \A i \in Adb!Lids : i > stream'.lid => remote'[i] = "none"
    BY <1>1, <1>2 DEF ShellInv, PacketsKnown, Adb!Lids
  <2>4. QED
    BY <2>1, <2>2, <2>3 DEF PacketsKnown
<1>10. Asking' \subseteq {Len(toDevice) + 1} /\ Okays' = {}
  <2>1. \A i \in Asking' : i = Len(toDevice) + 1
    BY <1>1, <1>2, <1>4, <1>7 DEF Asking
  <2>2. Okays' = {}
    BY <1>1, <1>2, <1>8 DEF Okays
  <2>3. QED
    BY <2>1, <2>2
<1>11. OneAnswer'
  BY <1>1, <1>2, <1>3, <1>4, <1>10 DEF OneAnswer
<1>12. OpenFirst'
  <2>1. \A i \in 1 .. Len(toHost') : toHost'[i].lid # stream'.lid
    BY <1>1, <1>2, <1>8
  <2>2. remote'[stream'.lid] = "none"
    BY <1>1, <1>2 DEF ShellInv, PacketsKnown, Adb!Lids
  <2>3. QED
    BY <2>1, <2>2 DEF OpenFirst
<1>13. Adb!AckMatchesWrite' /\ Adb!EndReported'
  BY <1>2 DEF ShellInv, Adb!AckMatchesWrite, Adb!EndReported
<1>14. QED
  BY <1>5, <1>6, <1>9, <1>11, <1>12, <1>13 DEF ShellInv

\* The answer that is taken is the only one that was to come.
LEMMA AnswerTaken ==
    ASSUME ShellInv, toHost # <<>>, toHost' = Tail(toHost), 1 \in Okays,
           stream.mapped, ~stream.closed, UNCHANGED toDevice, stream'.lid = stream.lid
    PROVE  toHost[1].n = armed /\ Asking' = {} /\ Okays' = {}
<1>1. toHost[1].n = armed /\ Asking = {} /\ \A i \in Okays : i = 1
  BY DEF ShellInv, OneAnswer
<1>2. \A i \in Okays' : i + 1 \in Okays /\ i \in 1 .. Len(toHost')
  BY HostTaken DEF Okays
<1>3. Len(toHost') \in Nat
  BY HostTaken
<1>4. Okays' = {}
  <2>1. SUFFICES ASSUME NEW i \in Okays'
                 PROVE  FALSE
    OBVIOUS
  <2>2. i + 1 = 1 /\ i \in 1 .. Len(toHost')
    BY <1>1, <1>2
  <2>3. QED
    BY <1>3, <2>2
<1>5. Asking' = Asking
  BY DEF Asking
<1>6. QED
  BY <1>1, <1>4, <1>5

LEMMA OkayKept ==
    ASSUME ShellInv, HandleInv, HandleInv', adb.pc = "done" => adb'.pc = "done",
           toHost # <<>>, toHost' = Tail(toHost), toHost[1].cmd = "OKAY",
           Adb!Okay(toHost[1]), UNCHANGED <<chunk, remote>>
    PROVE  ShellInv'
<1> DEFINE p == toHost[1]
<1>1. /\ p \in AdbPacket /\ Len(toHost) \in Nat \ {0} /\ p.n \in Nat
      /\ toHost' \in Seq(AdbPacket)
      /\ \A i \in 1 .. Len(toHost') : toHost'[i].lid <= stream.lid
  <2>1. p \in AdbPacket /\ Len(toHost) \in Nat \ {0} /\ toHost' \in Seq(AdbPacket)
    BY HostTaken
  <2>2. QED
    BY <2>1, HostTaken DEF AdbPacket
<1>2. Adb!Mine(p) <=> 1 \in Okays
  BY <1>1 DEF Adb!Mine, Okays
<1>3. CASE stream.pc = "opening" /\ Adb!Mine(p)
  <2>1. /\ stream' = [stream EXCEPT !.pc = "open"]
        /\ UNCHANGED <<writes, armed, toDevice, acked>>
    BY <1>3 DEF Adb!Okay
  <2>2. /\ stream \in StreamRecord /\ stream.mapped /\ ~stream.closed /\ armed = 0
        /\ stream.lid # 0 /\ adb.pc = "done"
    BY <1>3 DEF ShellInv, ShellTyped, ShellShaped
  <2>3. /\ stream' \in StreamRecord /\ stream'.lid = stream.lid /\ stream'.pc = "open"
        /\ stream'.mapped = stream.mapped /\ stream'.closed = stream.closed
        /\ stream'.v2 = stream.v2
    BY <2>1, <2>2 DEF StreamRecord
  <2>4. Asking' = {} /\ Okays' = {}
    BY <1>2, <1>3, <2>1, <2>2, <2>3, AnswerTaken
  <2>5. OneAnswer' /\ OpenFirst'
    BY <2>3, <2>4 DEF OneAnswer, OpenFirst
  <2>6. ShellTyped' /\ PacketsKnown'
    BY <1>1, <2>1, <2>3 DEF ShellInv, ShellTyped, PacketsKnown
  <2>7. ShellShaped'
    BY <2>1, <2>2, <2>3 DEF ShellInv, ShellShaped
  <2>8. Adb!AckMatchesWrite' /\ Adb!EndReported'
    BY <2>1, <2>2, <2>3 DEF ShellInv, Adb!AckMatchesWrite, Adb!EndReported
  <2>9. QED
    BY <2>5, <2>6, <2>7, <2>8 DEF ShellInv
<1>4. CASE ~(stream.pc = "opening" /\ Adb!Mine(p)) /\ stream.mapped /\ Adb!Mine(p) /\ armed # 0
  <2>1. Adb!Ready(p)
    BY <1>4 DEF Adb!Okay
  <2>2. writes # <<>> /\ stream.pc = "open"
    BY <1>4 DEF ShellInv, ShellShaped
  <2>3. CASE stream.closed
    BY <1>1, <2>1, <2>2, <2>3, WriteFailedKept DEF Adb!Ready, ShellInv, ShellTyped
  <2>4. CASE ~stream.closed
    <3>1. /\ armed' = 0 /\ acked' = Append(acked, <<armed, p.n>>)
          /\ writes' = IF Head(writes) = 1 THEN Tail(writes)
                       ELSE [writes EXCEPT ![1] = writes[1] - 1]
          /\ UNCHANGED <<stream, toDevice>>
      BY <2>1, <2>4 DEF Adb!Ready
    <3>2. p.n = armed /\ Asking' = {} /\ Okays' = {}
      BY <1>2, <1>4, <2>4, <3>1, AnswerTaken
    <3>3. writes' \in Seq(1 .. 2)
      <4>1. writes \in Seq(1 .. 2) /\ Len(writes) \in Nat \ {0} /\ Head(writes) = writes[1]
            /\ writes[1] \in 1 .. 2 /\ Tail(writes) \in Seq(1 .. 2)
        BY <2>2, Shifted DEF ShellInv, ShellTyped
      <4>2. CASE Head(writes) = 1
        BY <3>1, <4>1, <4>2
      <4>3. CASE Head(writes) # 1
        <5>1. writes[1] - 1 \in 1 .. 2
          BY <4>1, <4>3
        <5>2. QED
          BY <3>1, <4>1, <4>3, <5>1, ExceptSeq
      <4>4. QED
        BY <4>2, <4>3
    <3>4. /\ acked' \in Seq(Nat \X Nat)
          /\ Len(acked') = Len(acked) + 1 /\ Len(acked) \in Nat
          /\ \A i \in 1 .. Len(acked) : acked'[i] = acked[i]
          /\ acked'[Len(acked) + 1] = <<armed, armed>>
      <4>1. acked \in Seq(Nat \X Nat) /\ <<armed, p.n>> \in Nat \X Nat
        BY <1>1 DEF ShellInv, ShellTyped
      <4>2. QED
        BY <3>1, <3>2, <4>1, Appended
    <3>5. ShellTyped' /\ PacketsKnown'
      BY <1>1, <3>1, <3>3, <3>4 DEF ShellInv, ShellTyped, PacketsKnown
    <3>6. ShellShaped'
      BY <2>2, <3>1 DEF ShellInv, ShellShaped
    <3>7. OneAnswer' /\ OpenFirst'
      BY <2>2, <3>1, <3>2 DEF OneAnswer, OpenFirst
    <3>8. Adb!AckMatchesWrite'
      <4>1. DOMAIN acked = 1 .. Len(acked) /\ DOMAIN acked' = 1 .. Len(acked')
        BY <3>4, LenProperties DEF ShellInv, ShellTyped
      <4>2. \A i \in 1 .. Len(acked) : acked[i][1] = acked[i][2]
        BY <4>1 DEF ShellInv, Adb!AckMatchesWrite
      <4>3. ASSUME NEW i \in 1 .. Len(acked')
            PROVE  acked'[i][1] = acked'[i][2]
        <5>1. CASE i \in 1 .. Len(acked)
          BY <3>4, <4>2, <5>1
        <5>2. CASE i = Len(acked) + 1
          <6>1. acked'[i] = <<armed, armed>>
            BY <3>4, <5>2
          <6>2. QED
            BY <6>1
        <5>3. QED
          BY <3>4, <5>1, <5>2
      <4>4. QED
        BY <4>1, <4>3 DEF Adb!AckMatchesWrite
    <3>9. Adb!EndReported'
      BY <3>1 DEF ShellInv, Adb!EndReported
    <3>10. QED
      BY <3>5, <3>6, <3>7, <3>8, <3>9 DEF ShellInv
  <2>5. QED
    BY <2>3, <2>4
<1>5. CASE ~(stream.pc = "opening" /\ Adb!Mine(p))
           /\ ~(stream.mapped /\ Adb!Mine(p) /\ armed # 0)
  <2>1. UNCHANGED <<stream, writes, armed, toDevice, acked>>
    BY <1>5 DEF Adb!Okay, Adb!Ignored
  <2>2. stream.pc = "opening" => 1 \notin Okays
    BY <1>2, <1>5
  <2>3. QED
    BY <2>1, <2>2, HostIgnored
<1>6. QED
  BY <1>3, <1>4, <1>5

\* A stream that ends by its exit frame stays mapped; it was opened before.
LEMMA OutputKept ==
    ASSUME ShellInv, HandleInv, HandleInv', adb.pc = "done" => adb'.pc = "done",
           toHost # <<>>, toHost' = Tail(toHost), toHost[1].cmd = "WRTE",
           Adb!Output(toHost[1]), UNCHANGED <<chunk, remote>>
    PROVE  ShellInv'
<1> DEFINE p == toHost[1]
<1>1. /\ UNCHANGED <<writes, armed, toDevice, acked>>
      /\ stream' = IF stream.mapped /\ Adb!Mine(p) /\ p.n = 1
                   THEN Adb!Finished(stream) ELSE stream
  BY DEF Adb!Output
<1>2. 1 \notin Okays
  BY DEF Okays
<1>3. CASE ~(stream.mapped /\ Adb!Mine(p) /\ p.n = 1)
  BY <1>1, <1>2, <1>3, HostIgnored
<1>4. CASE stream.mapped /\ Adb!Mine(p) /\ p.n = 1
  <2>1. stream' = Adb!Finished(stream)
    BY <1>1, <1>4
  <2>2. stream.pc = "open" /\ stream \in StreamRecord
    <3>1. ASSUME stream.pc = "opening"
          PROVE  FALSE
      <4>1. 1 \in 1 .. Len(toHost) /\ p.lid = stream.lid
        BY <1>4, HostTaken DEF Adb!Mine
      <4>2. PICK j \in Okays : j < 1
        BY <3>1, <4>1 DEF ShellInv, OpenFirst
      <4>3. j \in 1 .. Len(toHost) /\ Len(toHost) \in Nat
        BY HostTaken DEF Okays
      <4>4. QED
        BY <4>2, <4>3
    <3>2. QED
      BY <1>4, <3>1 DEF ShellInv, ShellShaped, ShellTyped
  <2>3. /\ stream' \in StreamRecord /\ stream'.lid = stream.lid /\ stream'.v2 = stream.v2
        /\ stream'.pc = stream.pc /\ stream'.closed = TRUE /\ stream'.told = TRUE
        /\ stream'.mapped = stream.mapped
    BY <2>1, <2>2, FinishedFields
  <2>4. /\ writes' \in Seq(1 .. 2) /\ armed' \in Nat /\ chunk' \in Nat
        /\ armed' # 0 => stream'.mapped /\ writes' # <<>>
        /\ toDevice' \in Seq(AdbPacket)
        /\ \A i \in 1 .. Len(toDevice') : toDevice'[i].lid <= stream.lid
    BY <1>1, <2>3 DEF ShellInv, ShellTyped, ShellShaped, PacketsKnown
  <2>5. /\ toHost' \in Seq(AdbPacket)
        /\ \A i \in 1 .. Len(toHost') : toHost'[i].lid <= stream.lid
    BY HostTaken
  <2>6. QED
    BY <1>1, <2>2, <2>3, <2>4, <2>5, ShellOver
<1>5. QED
  BY <1>3, <1>4

LEMMA CloseKept ==
    ASSUME ShellInv, HandleInv, HandleInv', adb'.pc = "done", adb.pc = "done",
           toHost # <<>>, toHost' = Tail(toHost), toHost[1].cmd = "CLSE",
           Adb!Close(toHost[1]), UNCHANGED <<chunk, remote>>
    PROVE  ShellInv'
<1> DEFINE p == toHost[1]
<1>1. /\ toHost' \in Seq(AdbPacket)
      /\ \A i \in 1 .. Len(toHost') : toHost'[i].lid <= stream.lid
  BY HostTaken
<1>2. CASE ~stream.mapped \/ ~Adb!Mine(p)
  <2>1. UNCHANGED <<stream, writes, armed, toDevice, acked>>
    BY <1>2 DEF Adb!Close, Adb!Ignored
  <2>2. 1 \notin Okays
    BY DEF Okays
  <2>3. QED
    BY <2>1, <2>2, HostIgnored
<1>3. CASE stream.mapped /\ Adb!Mine(p) /\ stream.pc = "opening" /\ stream.v2
  <2>1. Adb!Opening(FALSE) /\ UNCHANGED <<writes, armed, acked>>
    BY <1>3 DEF Adb!Close
  <2>2. stream.lid <= 1 /\ FALSE \in BOOLEAN
    BY <1>3 DEF ShellInv, ShellShaped
  <2>3. QED
    BY <1>1, <1>3, <2>1, <2>2, OpeningKept
<1>4. CASE stream.mapped /\ Adb!Mine(p) /\ stream.pc = "opening" /\ ~stream.v2
  <2>1. /\ stream' = [stream EXCEPT !.pc = "failed", !.mapped = FALSE, !.closed = TRUE]
        /\ UNCHANGED <<toDevice, writes, armed, acked>>
    BY <1>4 DEF Adb!Close
  <2>2. stream \in StreamRecord /\ writes = <<>> /\ armed = 0 /\ stream.lid # 0
    BY <1>4 DEF ShellInv, ShellTyped, ShellShaped
  <2>3. /\ stream' \in StreamRecord /\ stream'.lid = stream.lid /\ stream'.v2 = stream.v2
        /\ stream'.pc = "failed" /\ stream'.mapped = FALSE
    BY <2>1, <2>2 DEF StreamRecord
  <2>4. /\ writes' \in Seq(1 .. 2) /\ armed' \in Nat /\ chunk' \in Nat
        /\ toDevice' \in Seq(AdbPacket)
        /\ \A i \in 1 .. Len(toDevice') : toDevice'[i].lid <= stream.lid
    BY <2>1 DEF ShellInv, ShellTyped, PacketsKnown
  <2>5. QED
    BY <1>1, <1>4, <2>1, <2>2, <2>3, <2>4, ShellOver
<1>5. CASE stream.mapped /\ Adb!Mine(p) /\ stream.pc # "opening"
  <2>1. /\ stream' = [Adb!Finished(stream) EXCEPT !.mapped = FALSE]
        /\ writes' = (IF armed # 0 THEN Tail(writes) ELSE writes)
        /\ armed' = 0 /\ UNCHANGED <<toDevice, acked>>
    BY <1>5 DEF Adb!Close
  <2>2. stream \in StreamRecord /\ stream.pc = "open"
    BY <1>5 DEF ShellInv, ShellTyped, ShellShaped
  <2>3. /\ stream' \in StreamRecord /\ stream'.lid = stream.lid /\ stream'.v2 = stream.v2
        /\ stream'.pc = "open" /\ stream'.mapped = FALSE /\ stream'.closed = TRUE
        /\ stream'.told = TRUE
    <3>1. /\ Adb!Finished(stream) \in StreamRecord /\ Adb!Finished(stream).lid = stream.lid
          /\ Adb!Finished(stream).pc = stream.pc /\ Adb!Finished(stream).v2 = stream.v2
          /\ Adb!Finished(stream).closed = TRUE /\ Adb!Finished(stream).told = TRUE
      BY <2>2, FinishedFields
    <3>2. QED
      BY <2>1, <2>2, <3>1, StreamFields
  <2>4. /\ writes' \in Seq(1 .. 2) /\ armed' \in Nat /\ chunk' \in Nat
        /\ toDevice' \in Seq(AdbPacket)
        /\ \A i \in 1 .. Len(toDevice') : toDevice'[i].lid <= stream.lid
    <3>1. writes' \in Seq(1 .. 2)
      <4>1. CASE armed # 0
        <5>1. writes \in Seq(1 .. 2) /\ writes # <<>>
          BY <4>1 DEF ShellInv, ShellTyped, ShellShaped
        <5>2. QED
          BY <2>1, <4>1, <5>1, Shifted
      <4>2. CASE armed = 0
        BY <2>1, <4>2 DEF ShellInv, ShellTyped
      <4>3. QED
        BY <4>1, <4>2
    <3>2. QED
      BY <2>1, <3>1 DEF ShellInv, ShellTyped, PacketsKnown
  <2>5. QED
    BY <1>1, <2>1, <2>2, <2>3, <2>4, ShellOver
<1>6. QED
  BY <1>2, <1>3, <1>4, <1>5

LEMMA ReceiveKept ==
    ASSUME ShellInv, HandleInv, HandleInv', adb.pc = "done" => adb'.pc = "done", Adb!Receive
    PROVE  ShellInv'
<1>1. /\ toHost # <<>> /\ toHost' = Tail(toHost) /\ UNCHANGED <<chunk, remote>> /\ adb.running
      /\ \/ Head(toHost).cmd = "OKAY" /\ Adb!Okay(Head(toHost))
         \/ Head(toHost).cmd = "WRTE" /\ Adb!Output(Head(toHost))
         \/ Head(toHost).cmd = "CLSE" /\ Adb!Close(Head(toHost))
  BY DEF Adb!Receive
<1>2. Head(toHost) = toHost[1]
  BY <1>1, HostTaken
<1>3. adb.pc = "done"
  BY <1>1 DEF HandleInv
<1>4. QED
  BY <1>1, <1>2, <1>3, OkayKept, OutputKept, CloseKept

\* The end of the loop and disconnect reject what waits and tell the streams.
LEMMA StreamsClosedKept ==
    ASSUME ShellInv, HandleInv, HandleInv', adb.pc = "done" => adb'.pc = "done",
           Adb!StreamsClosed, UNCHANGED <<chunk, toDevice, toHost, remote, acked>>
    PROVE  ShellInv'
<1> DEFINE s == IF stream.mapped THEN Adb!Finished(stream) ELSE stream
           pc == IF stream.pc = "opening" THEN "failed" ELSE stream.pc
<1>1. /\ stream' = [s EXCEPT !.mapped = FALSE, !.pc = pc]
      /\ writes' = (IF armed # 0 THEN Tail(writes) ELSE writes) /\ armed' = 0
  BY DEF Adb!StreamsClosed
<1>2. /\ s \in StreamRecord /\ s.lid = stream.lid /\ s.pc = stream.pc /\ s.v2 = stream.v2
      /\ stream.pc = "open" => s.closed /\ s.told
  <2>1. stream \in StreamRecord
    BY DEF ShellInv, ShellTyped
  <2>2. CASE stream.mapped
    BY <2>1, <2>2, FinishedFields
  <2>3. CASE ~stream.mapped
    <3>1. s = stream
      BY <2>3
    <3>2. stream.pc = "open" => stream.closed /\ stream.told
      BY <2>3 DEF ShellInv, ShellShaped, Adb!EndReported
    <3>3. QED
      BY <2>1, <2>3, <3>1, <3>2
  <2>4. QED
    BY <2>2, <2>3
<1>3. /\ stream' \in StreamRecord /\ stream'.lid = stream.lid /\ stream'.v2 = stream.v2
      /\ stream'.pc = pc /\ stream'.mapped = FALSE
      /\ stream'.closed = s.closed /\ stream'.told = s.told
  <2> HIDE DEF s
  <2>1. pc \in {"none", "open", "failed"}
    BY DEF ShellInv, ShellTyped, StreamRecord
  <2> HIDE DEF pc
  <2>2. QED
    BY <1>1, <1>2, <2>1 DEF StreamRecord
<1>4. writes' \in Seq(1 .. 2) /\ (stream.pc # "open" => writes' = <<>>)
  <2>1. CASE armed # 0
    <3>1. writes \in Seq(1 .. 2) /\ writes # <<>> /\ stream.pc = "open"
      BY <2>1 DEF ShellInv, ShellTyped, ShellShaped
    <3>2. QED
      BY <1>1, <2>1, <3>1, Shifted
  <2>2. CASE armed = 0
    BY <1>1, <2>2 DEF ShellInv, ShellTyped, ShellShaped
  <2>3. QED
    BY <2>1, <2>2
<1>5. /\ armed' \in Nat /\ chunk' \in Nat
      /\ toHost' \in Seq(AdbPacket) /\ toDevice' \in Seq(AdbPacket)
      /\ \A i \in 1 .. Len(toHost') : toHost'[i].lid <= stream.lid
      /\ \A i \in 1 .. Len(toDevice') : toDevice'[i].lid <= stream.lid
  BY <1>1 DEF ShellInv, ShellTyped, PacketsKnown
<1>6. CASE stream.pc # "none"
  <2>1. pc \in {stream.pc, "failed"} /\ pc \notin {"none", "opening"}
        /\ (pc = "open" => stream.pc = "open")
    BY <1>6
  <2> HIDE DEF s, pc
  <2>2. stream'.pc = "open" => stream'.closed /\ stream'.told
    BY <1>2, <1>3, <2>1
  <2>3. stream'.pc # "open" => writes' = <<>> /\ armed' = 0
    <3>1. pc # "open" => stream.pc # "open"
      BY DEF pc
    <3>2. QED
      BY <1>1, <1>3, <1>4, <3>1
  <2>4. QED
    BY <1>1, <1>3, <1>4, <1>5, <1>6, <2>1, <2>2, <2>3, ShellOver
<1>7. CASE stream.pc = "none"
  <2>1. /\ ~stream.mapped /\ ~stream.closed /\ writes = <<>> /\ stream.lid = 0 /\ s = stream
        /\ armed = 0 /\ pc = "none"
    BY <1>7 DEF ShellInv, ShellShaped
  <2> HIDE DEF s, pc
  <2>2. ShellTyped' /\ PacketsKnown'
    BY <1>3, <1>4, <1>5 DEF ShellInv, ShellTyped, PacketsKnown
  <2>3. ShellShaped'
    BY <1>1, <1>3, <1>4, <1>7, <2>1 DEF ShellInv, ShellShaped
  <2>4. OneAnswer' /\ OpenFirst' /\ Adb!EndReported'
    BY <1>3, <2>1 DEF OneAnswer, OpenFirst, Adb!EndReported
  <2>5. Adb!AckMatchesWrite'
    BY DEF ShellInv, Adb!AckMatchesWrite
  <2>6. QED
    BY <2>2, <2>3, <2>4, <2>5 DEF ShellInv
<1>8. QED
  BY <1>6, <1>7

\* A write asked for, or a chunk that goes out or is given up.
LEMMA AskWriteKept ==
    ASSUME ShellInv, HandleInv, HandleInv', adb.pc = "done" => adb'.pc = "done",
           NEW n \in 1 .. 2, Adb!AskWrite(n)
    PROVE  ShellInv'
<1>1. /\ stream.pc = "open" /\ writes' = Append(writes, n)
      /\ UNCHANGED <<adb, stream, armed, chunk, toDevice, toHost, remote, acked>>
  BY DEF Adb!AskWrite
<1>2. writes' \in Seq(1 .. 2) /\ writes' # <<>>
  <2>1. writes \in Seq(1 .. 2)
    BY DEF ShellInv, ShellTyped
  <2>2. QED
    BY <1>1, <2>1, AppendProperties
<1>3. ShellTyped' /\ ShellShaped' /\ PacketsKnown'
  BY <1>1, <1>2 DEF ShellInv, ShellTyped, ShellShaped, PacketsKnown
<1>4. Asking' = Asking /\ Okays' = Okays
  BY <1>1 DEF Asking, Okays
<1>5. OneAnswer' /\ OpenFirst'
  BY <1>1, <1>4 DEF ShellInv, OneAnswer, OpenFirst
<1>6. Adb!AckMatchesWrite' /\ Adb!EndReported'
  BY <1>1 DEF ShellInv, Adb!AckMatchesWrite, Adb!EndReported
<1>7. QED
  BY <1>3, <1>5, <1>6 DEF ShellInv

LEMMA ChunkSent ==
    ASSUME ShellInv, HandleInv', adb.pc = "done" => adb'.pc = "done",
           writes # <<>>, armed = 0, ~stream.closed, armed' = chunk + 1, chunk' = chunk + 1,
           toDevice' = Append(toDevice, Adb!Packet("WRTE", stream.lid, chunk + 1)),
           UNCHANGED <<stream, writes, toHost, remote, acked>>
    PROVE  ShellInv'
<1> DEFINE sent == Adb!Packet("WRTE", stream.lid, chunk + 1)
<1>1. /\ stream.pc = "open" /\ stream.mapped /\ stream.lid \in Adb!Lids /\ chunk \in Nat
      /\ toDevice \in Seq(AdbPacket)
  BY DEF ShellInv, ShellShaped, ShellTyped, StreamRecord
<1>2. sent \in AdbPacket /\ sent.lid = stream.lid /\ sent.n = chunk + 1
  BY <1>1 DEF Adb!Packet, AdbPacket
<1>3. /\ toDevice' \in Seq(AdbPacket) /\ Len(toDevice') = Len(toDevice) + 1
      /\ Len(toDevice) \in Nat
      /\ \A i \in 1 .. Len(toDevice) : toDevice'[i] = toDevice[i]
      /\ toDevice'[Len(toDevice) + 1] = sent
  BY <1>1, <1>2, Appended
<1>4. Asking = {} /\ Okays = {}
  BY <1>1 DEF ShellInv, OneAnswer
<1>5. Asking' \subseteq {Len(toDevice) + 1} /\ Okays' = {}
  BY <1>3, <1>4 DEF Asking, Okays
<1>6. ShellTyped' /\ ShellShaped'
  BY <1>1, <1>3 DEF ShellInv, ShellTyped, ShellShaped
<1>7. PacketsKnown'
  <2>1. stream.lid <= stream.lid
    BY <1>1 DEF Adb!Lids
  <2>2. \A i \in 1 .. Len(toDevice') : toDevice'[i].lid <= stream.lid
    BY <1>2, <1>3, <2>1 DEF ShellInv, PacketsKnown
  <2>3. QED
    BY <2>2 DEF ShellInv, PacketsKnown
<1>8. OneAnswer'
  BY <1>1, <1>2, <1>3, <1>5 DEF OneAnswer
<1>9. OpenFirst' /\ Adb!AckMatchesWrite' /\ Adb!EndReported'
  BY <1>1 DEF ShellInv, OpenFirst, Adb!AckMatchesWrite, Adb!EndReported
<1>10. QED
  BY <1>6, <1>7, <1>8, <1>9 DEF ShellInv

LEMMA SendChunkKept ==
    ASSUME ShellInv, HandleInv, HandleInv', adb.pc = "done" => adb'.pc = "done",
           Adb!SendChunk
    PROVE  ShellInv'
<1>1. /\ writes # <<>> /\ armed = 0 /\ UNCHANGED <<toHost, remote, acked>>
      /\ \/ /\ ~stream.closed /\ armed' = chunk + 1 /\ chunk' = chunk + 1
            /\ toDevice' = Append(toDevice, Adb!Packet("WRTE", stream.lid, chunk + 1))
            /\ UNCHANGED <<stream, writes>>
         \/ Adb!WriteFailed /\ UNCHANGED chunk
  BY DEF Adb!SendChunk
<1>2. /\ chunk \in Nat /\ toHost' \in Seq(AdbPacket)
      /\ \A i \in 1 .. Len(toHost') : toHost'[i].lid <= stream.lid
  BY <1>1 DEF ShellInv, ShellTyped, PacketsKnown
<1>3. QED
  BY <1>1, <1>2, ChunkSent, WriteFailedKept

LEMMA WriteTimeoutKept ==
    ASSUME ShellInv, HandleInv, HandleInv', adb.pc = "done" => adb'.pc = "done",
           Adb!WriteTimeout
    PROVE  ShellInv'
<1>1. /\ Adb!WriteFailed /\ writes # <<>> /\ UNCHANGED <<chunk, toHost, remote, acked>>
  BY DEF Adb!WriteTimeout, ShellInv, ShellShaped
<1>2. /\ chunk' \in Nat /\ toHost' \in Seq(AdbPacket)
      /\ \A i \in 1 .. Len(toHost') : toHost'[i].lid <= stream.lid
  BY <1>1 DEF ShellInv, ShellTyped, PacketsKnown
<1>3. QED
  BY <1>1, <1>2, WriteFailedKept

\* The shell that is opened is the first; the one that is not answered is over.
LEMMA OpenShellKept ==
    ASSUME ShellInv, HandleInv, HandleInv', Adb!OpenShell
    PROVE  ShellInv'
<1>1. /\ adb.running /\ stream.pc = "none" /\ Adb!Opening(stream.v2) /\ adb' = adb
      /\ UNCHANGED <<writes, armed, chunk, toHost, remote, acked>>
  BY DEF Adb!OpenShell
<1>2. adb'.pc = "done"
  BY <1>1 DEF HandleInv
<1>3. stream.lid = 0 /\ stream.v2 \in BOOLEAN
  BY <1>1 DEF ShellInv, ShellShaped, ShellTyped, StreamRecord
<1>4. /\ toHost' \in Seq(AdbPacket) /\ \A i \in 1 .. Len(toHost') : toHost'[i].lid <= stream.lid
  BY <1>1 DEF ShellInv, ShellTyped, PacketsKnown
<1>5. stream.lid <= 1 /\ stream.pc \in {"none", "opening"}
  BY <1>1, <1>3
<1>6. QED
  BY <1>1, <1>2, <1>3, <1>4, <1>5, OpeningKept

LEMMA OpenTimeoutKept ==
    ASSUME ShellInv, HandleInv, HandleInv', adb.pc = "done" => adb'.pc = "done",
           Adb!OpenTimeout
    PROVE  ShellInv'
<1>1. /\ stream.pc = "opening" /\ stream' = [stream EXCEPT !.pc = "failed", !.mapped = FALSE]
      /\ UNCHANGED <<writes, armed, chunk, toDevice, toHost, remote, acked>>
  BY DEF Adb!OpenTimeout
<1>2. stream \in StreamRecord /\ writes = <<>> /\ armed = 0
  BY <1>1 DEF ShellInv, ShellTyped, ShellShaped
<1>3. /\ stream' \in StreamRecord /\ stream'.lid = stream.lid /\ stream'.v2 = stream.v2
      /\ stream'.pc = "failed" /\ stream'.mapped = FALSE
  BY <1>1, <1>2 DEF StreamRecord
<1>4. /\ writes' \in Seq(1 .. 2) /\ armed' \in Nat /\ chunk' \in Nat
      /\ toDevice' \in Seq(AdbPacket) /\ toHost' \in Seq(AdbPacket)
      /\ \A i \in 1 .. Len(toDevice') : toDevice'[i].lid <= stream.lid
      /\ \A i \in 1 .. Len(toHost') : toHost'[i].lid <= stream.lid
  BY <1>1 DEF ShellInv, ShellTyped, PacketsKnown
<1>5. QED
  BY <1>1, <1>2, <1>3, <1>4, ShellOver

\* What moves the handle only: the shell, its packets and its writes stay.
LEMMA ShellAlone ==
    ASSUME ShellInv, HandleInv', adb.pc = "done" => adb'.pc = "done",
           UNCHANGED <<stream, writes, armed, chunk, toDevice, toHost, remote, acked>>
    PROVE  ShellInv'
<1>1. ShellTyped' /\ ShellShaped' /\ PacketsKnown'
  BY DEF ShellInv, ShellTyped, ShellShaped, PacketsKnown
<1>2. Asking' = Asking /\ Okays' = Okays
  BY DEF Asking, Okays
<1>3. OneAnswer' /\ OpenFirst'
  BY <1>2 DEF ShellInv, OneAnswer, OpenFirst
<1>4. Adb!AckMatchesWrite' /\ Adb!EndReported'
  BY DEF ShellInv, Adb!AckMatchesWrite, Adb!EndReported
<1>5. QED
  BY <1>1, <1>3, <1>4 DEF ShellInv

\* Before the handshake is over no shell was opened, and nothing is on the way to the page.
LEMMA HandshakeAlone ==
    ASSUME ShellInv, HandleInv', Adb!Handshake, adb.pc # "done"
    PROVE  ShellInv'
<1>1. UNCHANGED <<stream, writes, armed, chunk, toDevice, remote, acked>>
      /\ toHost' \in {toHost, <<>>}
  BY DEF Adb!Handshake, Adb!ConnectAdb, Adb!BeginAttempt, Adb!Accepted, Adb!Challenged,
         Adb!HandshakeBreaks, Adb!EndAttempt, Adb!Reopened, Adb!Claimed, Adb!shellVars
<1>2. stream.lid = 0
  BY DEF ShellInv, ShellShaped
<1>3. toHost = <<>>
  <2>1. toHost \in Seq(AdbPacket) /\ \A i \in 1 .. Len(toHost) : toHost[i].lid <= 0
    BY <1>2 DEF ShellInv, ShellTyped, PacketsKnown
  <2>2. ASSUME toHost # <<>>
        PROVE  FALSE
    <3>1. 1 \in 1 .. Len(toHost) /\ toHost[1] \in AdbPacket
      BY <2>1, <2>2, Shifted
    <3>2. toHost[1].lid \in 1 .. 2
      BY <3>1 DEF AdbPacket, Adb!Lids
    <3>3. QED
      BY <2>1, <3>1, <3>2
  <2>3. QED
    BY <2>2
<1>4. toHost' = toHost
  BY <1>1, <1>3
<1>5. QED
  BY <1>1, <1>4, ShellAlone

\* A packet of the device goes on its way.
LEMMA HostSent ==
    ASSUME ShellInv, NEW q \in AdbPacket, q.lid <= stream.lid, toHost' = Append(toHost, q),
           stream' = stream
    PROVE  /\ toHost' \in Seq(AdbPacket) /\ Len(toHost') = Len(toHost) + 1
           /\ Len(toHost) \in Nat
           /\ \A i \in 1 .. Len(toHost) : toHost'[i] = toHost[i]
           /\ toHost'[Len(toHost) + 1] = q
           /\ \A i \in 1 .. Len(toHost') : toHost'[i].lid <= stream.lid
           /\ Okays \subseteq Okays'
           /\ \A i \in Okays' : i \in Okays \/ i = Len(toHost) + 1
           /\ q.cmd # "OKAY" \/ q.lid # stream.lid => Okays' = Okays
<1>1. /\ toHost' \in Seq(AdbPacket) /\ Len(toHost') = Len(toHost) + 1
      /\ Len(toHost) \in Nat
      /\ \A i \in 1 .. Len(toHost) : toHost'[i] = toHost[i]
      /\ toHost'[Len(toHost) + 1] = q
  BY Appended DEF ShellInv, ShellTyped
<1>2. \A i \in 1 .. Len(toHost') : toHost'[i].lid <= stream.lid
  BY <1>1 DEF ShellInv, PacketsKnown
<1>3. Okays \subseteq Okays' /\ \A i \in Okays' : i \in Okays \/ i = Len(toHost) + 1
  BY <1>1 DEF Okays
<1>4. ASSUME q.cmd # "OKAY" \/ q.lid # stream.lid
      PROVE  Okays' = Okays
  BY <1>1, <1>4 DEF Okays
<1>5. QED
  BY <1>1, <1>2, <1>3, <1>4

\* The device takes a packet: what is left asks for no more than before.
LEMMA DeviceTaken ==
    ASSUME ShellInv, toDevice # <<>>, toDevice' = Tail(toDevice), stream' = stream
    PROVE  /\ toDevice' \in Seq(AdbPacket) /\ Head(toDevice) = toDevice[1]
           /\ toDevice[1] \in AdbPacket /\ toDevice[1].lid <= stream.lid
           /\ 1 \in 1 .. Len(toDevice)
           /\ \A i \in 1 .. Len(toDevice') : toDevice'[i].lid <= stream.lid
           /\ \A i \in Asking' : i + 1 \in Asking /\ toDevice'[i] = toDevice[i + 1]
                                 /\ i \in Nat \ {0}
<1>1. /\ toDevice' \in Seq(AdbPacket) /\ Len(toDevice) \in Nat \ {0}
      /\ Len(toDevice') = Len(toDevice) - 1
      /\ \A i \in 1 .. Len(toDevice) - 1 : toDevice'[i] = toDevice[i + 1]
      /\ Head(toDevice) = toDevice[1] /\ toDevice[1] \in AdbPacket
  BY Shifted DEF ShellInv, ShellTyped
<1>2. \A i \in 1 .. Len(toDevice) : toDevice[i].lid <= stream.lid
  BY DEF ShellInv, PacketsKnown
<1>3. \A i \in 1 .. Len(toDevice') : toDevice'[i].lid <= stream.lid
  BY <1>1, <1>2
<1>4. \A i \in Asking' : i + 1 \in Asking /\ toDevice'[i] = toDevice[i + 1] /\ i \in Nat \ {0}
  BY <1>1 DEF Asking
<1>5. 1 \in 1 .. Len(toDevice)
  BY <1>1
<1>6. toDevice[1].lid <= stream.lid
  BY <1>2, <1>5
<1>7. QED
  BY <1>1, <1>3, <1>4, <1>5, <1>6

LEMMA AskingLess ==
    ASSUME ShellInv, toDevice # <<>>, toDevice' = Tail(toDevice), stream' = stream,
           stream.mapped, ~stream.closed
    PROVE  /\ \A i \in Asking' : toDevice'[i].n = armed
           /\ \A i, j \in Asking' : i = j
           /\ Asking = {} => Asking' = {}
           /\ 1 \in Asking => Asking' = {}
<1>1. /\ \A i \in Asking : toDevice[i].n = armed
      /\ \A i, j \in Asking : i = j
  BY DEF ShellInv, OneAnswer
<1>2. \A i \in Asking' : i + 1 \in Asking /\ toDevice'[i] = toDevice[i + 1] /\ i \in Nat \ {0}
  BY DeviceTaken
<1>3. \A i, j \in Asking' : i = j
  <2>1. SUFFICES ASSUME NEW i \in Asking', NEW j \in Asking'
                 PROVE  i = j
    OBVIOUS
  <2>2. i + 1 = j + 1 /\ i \in Nat /\ j \in Nat
    BY <1>1, <1>2
  <2>3. QED
    BY <2>2
<1>4. ASSUME 1 \in Asking
      PROVE  Asking' = {}
  <2>1. SUFFICES ASSUME NEW i \in Asking'
                 PROVE  FALSE
    OBVIOUS
  <2>2. i + 1 = 1 /\ i \in Nat \ {0}
    BY <1>1, <1>2, <1>4
  <2>3. QED
    BY <2>2
<1>5. QED
  BY <1>1, <1>2, <1>3, <1>4

\* Four ways to take a packet.
DeviceAnswered(p) ==
    \/ p.cmd = "OPEN" /\ Adb!Answer("OKAY", p) /\ remote' = [remote EXCEPT ![p.lid] = "open"]
    \/ p.cmd = "OPEN" /\ Adb!Answer("CLSE", p) /\ UNCHANGED remote
    \/ p.cmd = "WRTE" /\ UNCHANGED remote
       /\ IF remote[p.lid] = "open" THEN Adb!Answer("OKAY", p) ELSE UNCHANGED toHost
    \/ p.cmd = "CLSE" /\ UNCHANGED toHost /\ remote' = [remote EXCEPT ![p.lid] = "closed"]

\* The answer of the device says OKAY only to the one packet that asks for it.
LEMMA DeviceTakesKept ==
    ASSUME ShellInv, HandleInv', adb.pc = "done" => adb'.pc = "done", Adb!DeviceTakes
    PROVE  ShellInv'
<1> DEFINE p == toDevice[1]
<1>1. /\ toDevice # <<>> /\ toDevice' = Tail(toDevice) /\ DeviceAnswered(Head(toDevice))
      /\ UNCHANGED <<stream, writes, armed, chunk, acked>>
  BY DEF Adb!DeviceTakes, DeviceAnswered
<1>2. /\ p \in AdbPacket /\ p.lid <= stream.lid /\ 1 \in 1 .. Len(toDevice)
      /\ DeviceAnswered(p) /\ p.lid \in Adb!Lids /\ p.n \in Nat
      /\ toDevice' \in Seq(AdbPacket)
      /\ \A i \in 1 .. Len(toDevice') : toDevice'[i].lid <= stream.lid
  <2>1. p \in AdbPacket /\ DeviceAnswered(p)
    BY <1>1, DeviceTaken
  <2>2. p.lid \in Adb!Lids /\ p.n \in Nat
    BY <2>1 DEF AdbPacket
  <2>3. QED
    BY <1>1, <2>1, <2>2, DeviceTaken
<1>3. \/ toHost' = toHost /\ p.cmd # "OPEN"
      \/ /\ toHost' = Append(toHost, Adb!Packet("OKAY", p.lid, p.n))
         /\ p.cmd \in {"OPEN", "WRTE"}
         /\ p.cmd # "OPEN" => remote[p.lid] = "open" /\ remote' = remote
      \/ toHost' = Append(toHost, Adb!Packet("CLSE", p.lid, p.n)) /\ remote' = remote
  BY <1>2 DEF DeviceAnswered, Adb!Answer
<1>4. /\ remote' \in [Adb!Lids -> {"none", "open", "closed"}]
      /\ \A i \in Adb!Lids : remote'[i] # remote[i] => i = p.lid /\ p.cmd \in {"OPEN", "CLSE"}
      /\ p.cmd = "CLSE" => remote'[p.lid] # "open"
  <2>1. remote \in [Adb!Lids -> {"none", "open", "closed"}]
    BY DEF ShellInv, ShellTyped
  <2>2. QED
    BY <1>2, <2>1 DEF DeviceAnswered
<1>5. PICK cmd \in {"OKAY", "CLSE"} :
          toHost' = toHost \/ toHost' = Append(toHost, Adb!Packet(cmd, p.lid, p.n))
  BY <1>3
<1> DEFINE q == Adb!Packet(cmd, p.lid, p.n)
<1>6. /\ \A c \in {"OKAY", "CLSE"} :
             /\ Adb!Packet(c, p.lid, p.n) \in AdbPacket
             /\ Adb!Packet(c, p.lid, p.n).lid = p.lid
             /\ Adb!Packet(c, p.lid, p.n).n = p.n
             /\ Adb!Packet(c, p.lid, p.n).cmd = c
  BY <1>2 DEF Adb!Packet, AdbPacket
<1>7. /\ toHost' \in Seq(AdbPacket)
      /\ \A i \in 1 .. Len(toHost') : toHost'[i].lid <= stream.lid
  <2>1. CASE toHost' = toHost
    BY <2>1 DEF ShellInv, ShellTyped, PacketsKnown
  <2>2. CASE toHost' = Append(toHost, q)
    <3>1. q \in AdbPacket /\ q.lid <= stream.lid /\ stream' = stream
      BY <1>1, <1>2, <1>6
    <3>2. QED
      BY <2>2, <3>1, HostSent
  <2>3. QED
    BY <1>5, <2>1, <2>2
<1>8. ShellTyped' /\ ShellShaped'
  BY <1>1, <1>2, <1>4, <1>7 DEF ShellInv, ShellTyped, ShellShaped
<1>9. PacketsKnown'
  <2>1. stream.lid \in {0} \cup Adb!Lids
    BY DEF ShellInv, ShellTyped, StreamRecord
  <2>2. \A i \in Adb!Lids : i > stream.lid => remote'[i] = "none"
    BY <1>2, <1>4, <2>1 DEF ShellInv, PacketsKnown, Adb!Lids
  <2>3. QED
    BY <1>1, <1>2, <1>7, <2>2 DEF PacketsKnown
<1>10. p.cmd \in {"OPEN", "WRTE"} /\ p.lid = stream.lid <=> 1 \in Asking
  BY <1>2 DEF Asking
<1>11. \/ Okays' = Okays
       \/ /\ 1 \in Asking /\ Okays \subseteq Okays' /\ Okays' # {}
          /\ \A i \in Okays' : i \in Okays \/ i = Len(toHost) + 1
          /\ toHost'[Len(toHost) + 1].n = p.n
          /\ \A i \in 1 .. Len(toHost) : toHost'[i] = toHost[i]
          /\ p.cmd # "OPEN" => remote[p.lid] = "open" /\ remote' = remote
  <2>1. CASE toHost' = toHost
    BY <1>1, <2>1 DEF Okays
  <2>2. CASE toHost' = Append(toHost, Adb!Packet("CLSE", p.lid, p.n))
    <3>1. Adb!Packet("CLSE", p.lid, p.n) \in AdbPacket
          /\ Adb!Packet("CLSE", p.lid, p.n).lid <= stream.lid /\ stream' = stream
          /\ Adb!Packet("CLSE", p.lid, p.n).cmd # "OKAY"
      BY <1>1, <1>2, <1>6
    <3>2. QED
      BY <2>2, <3>1, HostSent
  <2>3. CASE /\ toHost' = Append(toHost, Adb!Packet("OKAY", p.lid, p.n))
             /\ p.cmd \in {"OPEN", "WRTE"}
             /\ p.cmd # "OPEN" => remote[p.lid] = "open" /\ remote' = remote
    <3> DEFINE a == Adb!Packet("OKAY", p.lid, p.n)
    <3>1. a \in AdbPacket /\ a.lid <= stream.lid /\ stream' = stream /\ a.lid = p.lid
          /\ a.n = p.n /\ a.cmd = "OKAY" /\ toHost' = Append(toHost, a)
      BY <1>1, <1>2, <1>6, <2>3
    <3> HIDE DEF a
    <3>2. /\ Len(toHost') = Len(toHost) + 1 /\ Len(toHost) \in Nat
          /\ \A i \in 1 .. Len(toHost) : toHost'[i] = toHost[i]
          /\ toHost'[Len(toHost) + 1] = a
          /\ Okays \subseteq Okays'
          /\ \A i \in Okays' : i \in Okays \/ i = Len(toHost) + 1
          /\ a.lid # stream.lid => Okays' = Okays
      BY <3>1, HostSent
    <3>3. CASE a.lid # stream.lid
      BY <3>2, <3>3
    <3>4. CASE a.lid = stream.lid
      <4>1. Len(toHost) + 1 \in Okays'
        BY <3>1, <3>2, <3>4 DEF Okays
      <4>2. QED
        BY <1>10, <2>3, <3>1, <3>2, <3>4, <4>1
    <3>5. QED
      BY <3>3, <3>4
  <2>4. QED
    BY <1>3, <2>1, <2>2, <2>3
<1>12. \A i \in Okays : toHost'[i] = toHost[i]
  <2>1. CASE toHost' = toHost
    BY <2>1
  <2>2. CASE toHost' = Append(toHost, q)
    <3>1. q \in AdbPacket /\ q.lid <= stream.lid /\ stream' = stream
      BY <1>1, <1>2, <1>6
    <3>2. QED
      BY <2>2, <3>1, HostSent DEF Okays
  <2>3. QED
    BY <1>5, <2>1, <2>2
<1>13. OneAnswer'
  <2>1. SUFFICES ASSUME stream.mapped, ~stream.closed
                 PROVE  /\ \A i \in Asking' : toDevice'[i].n = armed
                        /\ \A i \in Okays' : toHost'[i].n = armed
                        /\ \A i, j \in Asking' : i = j
                        /\ \A i, j \in Okays' : i = j
                        /\ Asking' = {} \/ Okays' = {}
                        /\ stream.pc = "open" /\ armed = 0 => Asking' = {} /\ Okays' = {}
    BY <1>1 DEF OneAnswer
  <2>2. /\ \A i \in Asking : toDevice[i].n = armed
        /\ \A i \in Okays : toHost[i].n = armed
        /\ \A i, j \in Okays : i = j
        /\ Asking = {} \/ Okays = {}
        /\ stream.pc = "open" /\ armed = 0 => Asking = {} /\ Okays = {}
    BY <2>1 DEF ShellInv, OneAnswer
  <2>3. /\ \A i \in Asking' : toDevice'[i].n = armed
        /\ \A i, j \in Asking' : i = j
        /\ Asking = {} => Asking' = {}
        /\ 1 \in Asking => Asking' = {}
    BY <1>1, <2>1, AskingLess
  <2>4. CASE Okays' = Okays
    BY <1>12, <2>2, <2>3, <2>4
  <2>5. CASE Okays' # Okays
    <3>1. /\ 1 \in Asking /\ Okays = {} /\ Asking' = {} /\ p.n = armed
          /\ \A i \in Okays' : i = Len(toHost) + 1
          /\ toHost'[Len(toHost) + 1].n = p.n
      BY <1>11, <2>2, <2>3, <2>5
    <3>2. QED
      BY <2>2, <3>1
  <2>6. QED
    BY <2>4, <2>5
<1>14. OpenFirst'
  <2>1. SUFFICES ASSUME stream.pc = "opening"
                 PROVE  /\ \A i \in 1 .. Len(toHost') :
                               toHost'[i].lid = stream.lid /\ toHost'[i].cmd = "WRTE"
                                   => \E j \in Okays' : j < i
                        /\ remote'[stream.lid] = "open" => Okays' # {}
    BY <1>1 DEF OpenFirst
  <2>2. /\ \A i \in 1 .. Len(toHost) :
               toHost[i].lid = stream.lid /\ toHost[i].cmd = "WRTE" => \E j \in Okays : j < i
        /\ remote[stream.lid] = "open" => Okays # {}
    BY <2>1 DEF ShellInv, OpenFirst
  <2>3. Okays \subseteq Okays'
    BY <1>11
  <2>4. /\ \A i \in 1 .. Len(toHost') : toHost'[i].cmd = "WRTE"
               => i \in 1 .. Len(toHost) /\ toHost'[i] = toHost[i]
    <3>1. CASE toHost' = toHost
      BY <3>1
    <3>2. CASE toHost' = Append(toHost, q)
      <4>1. q \in AdbPacket /\ q.lid <= stream.lid /\ stream' = stream /\ q.cmd # "WRTE"
        BY <1>1, <1>2, <1>6
      <4> HIDE DEF q
      <4>2. /\ Len(toHost') = Len(toHost) + 1 /\ Len(toHost) \in Nat
            /\ \A i \in 1 .. Len(toHost) : toHost'[i] = toHost[i]
            /\ toHost'[Len(toHost) + 1] = q
        BY <3>2, <4>1, HostSent
      <4>3. QED
        BY <4>1, <4>2
    <3>3. QED
      BY <1>5, <3>1, <3>2
  <2>5. ASSUME remote'[stream.lid] = "open"
        PROVE  Okays' # {}
    <3>1. CASE remote[stream.lid] = "open"
      BY <2>2, <2>3, <3>1
    <3>2. CASE remote[stream.lid] # "open"
      <4>1. stream.lid \in Adb!Lids
        BY <2>1 DEF ShellInv, ShellShaped, ShellTyped, StreamRecord
      <4>2. p.lid = stream.lid /\ p.cmd = "OPEN"
        BY <1>4, <2>5, <3>2, <4>1
      <4>3. toHost' = Append(toHost, Adb!Packet("OKAY", p.lid, p.n))
        BY <1>3, <2>5, <3>2, <4>2
      <4> DEFINE a == Adb!Packet("OKAY", p.lid, p.n)
      <4>4. a \in AdbPacket /\ a.lid <= stream.lid /\ a.lid = stream.lid /\ a.cmd = "OKAY"
        BY <1>2, <1>6, <4>2
      <4>5. /\ Len(toHost') = Len(toHost) + 1 /\ Len(toHost) \in Nat
            /\ toHost'[Len(toHost) + 1] = a
        BY <1>1, <4>3, <4>4, HostSent
      <4>6. Len(toHost) + 1 \in Okays'
        BY <1>1, <4>4, <4>5 DEF Okays
      <4>7. QED
        BY <4>6
    <3>3. QED
      BY <3>1, <3>2
  <2>6. QED
    BY <2>2, <2>3, <2>4, <2>5
<1>15. Adb!AckMatchesWrite' /\ Adb!EndReported'
  BY <1>1 DEF ShellInv, Adb!AckMatchesWrite, Adb!EndReported
<1>16. QED
  BY <1>8, <1>9, <1>13, <1>14, <1>15 DEF ShellInv

\* Output and the end of a shell that the device opened: the answer to OPEN is ahead of them.
LEMMA DeviceSpeaks ==
    ASSUME ShellInv, HandleInv', adb.pc = "done" => adb'.pc = "done",
           NEW id \in Adb!Lids, NEW cmd \in {"WRTE", "CLSE"}, NEW n \in 0 .. 1,
           remote[id] = "open", remote' \in {remote, [remote EXCEPT ![id] = "closed"]},
           toHost' = Append(toHost, Adb!Packet(cmd, id, n)),
           UNCHANGED <<stream, writes, armed, chunk, toDevice, acked>>
    PROVE  ShellInv'
<1> DEFINE q == Adb!Packet(cmd, id, n)
<1>1. id <= stream.lid /\ stream.lid \in 0 .. 2
  BY DEF ShellInv, PacketsKnown, ShellTyped, StreamRecord, Adb!Lids
<1>2. q \in AdbPacket /\ q.lid <= stream.lid /\ q.lid = id /\ q.cmd = cmd /\ q.cmd # "OKAY"
  BY <1>1 DEF Adb!Packet, AdbPacket
<1>3. toHost' = Append(toHost, q)
  OBVIOUS
<1> HIDE DEF q
<1>4. /\ toHost' \in Seq(AdbPacket) /\ Len(toHost') = Len(toHost) + 1
      /\ Len(toHost) \in Nat
      /\ \A i \in 1 .. Len(toHost) : toHost'[i] = toHost[i]
      /\ toHost'[Len(toHost) + 1] = q
      /\ \A i \in 1 .. Len(toHost') : toHost'[i].lid <= stream.lid
      /\ Okays' = Okays
  BY <1>2, <1>3, HostSent
<1>5. /\ remote' \in [Adb!Lids -> {"none", "open", "closed"}]
      /\ \A i \in Adb!Lids : remote'[i] = "open" => remote[i] = "open"
      /\ \A i \in Adb!Lids : i # id => remote'[i] = remote[i]
  BY DEF ShellInv, ShellTyped
<1>6. ShellTyped' /\ ShellShaped'
  BY <1>4, <1>5 DEF ShellInv, ShellTyped, ShellShaped
<1>7. PacketsKnown'
  <2>1. \A i \in Adb!Lids : i > stream.lid => remote'[i] = "none"
    BY <1>1, <1>5 DEF ShellInv, PacketsKnown, Adb!Lids
  <2>2. QED
    BY <1>4, <2>1 DEF ShellInv, PacketsKnown
<1>8. OneAnswer'
  <2>1. Asking' = Asking /\ \A i \in Okays : toHost'[i] = toHost[i]
    BY <1>4 DEF Asking, Okays
  <2>2. QED
    BY <1>4, <2>1 DEF ShellInv, OneAnswer
<1>9. OpenFirst'
  <2>1. SUFFICES ASSUME stream.pc = "opening"
                 PROVE  /\ \A i \in 1 .. Len(toHost') :
                               toHost'[i].lid = stream.lid /\ toHost'[i].cmd = "WRTE"
                                   => \E j \in Okays : j < i
                        /\ remote'[stream.lid] = "open" => Okays # {}
    BY <1>4 DEF OpenFirst
  <2>2. /\ \A i \in 1 .. Len(toHost) :
               toHost[i].lid = stream.lid /\ toHost[i].cmd = "WRTE" => \E j \in Okays : j < i
        /\ remote[stream.lid] = "open" => Okays # {}
        /\ stream.lid \in Adb!Lids
    BY <2>1 DEF ShellInv, OpenFirst, ShellShaped, ShellTyped, StreamRecord
  <2>3. \A j \in Okays : j \in 1 .. Len(toHost) /\ j < Len(toHost) + 1
    BY <1>4 DEF Okays
  <2>4. ASSUME NEW i \in 1 .. Len(toHost'), toHost'[i].lid = stream.lid,
               toHost'[i].cmd = "WRTE"
        PROVE  \E j \in Okays : j < i
    <3>1. CASE i \in 1 .. Len(toHost)
      BY <1>4, <2>2, <2>4, <3>1
    <3>2. CASE i = Len(toHost) + 1
      <4>1. stream.lid = id
        BY <1>2, <1>4, <2>4, <3>2
      <4>2. QED
        BY <2>2, <2>3, <3>2, <4>1
    <3>3. QED
      BY <1>4, <3>1, <3>2
  <2>5. QED
    BY <1>5, <2>2, <2>4
<1>10. Adb!AckMatchesWrite' /\ Adb!EndReported'
  BY DEF ShellInv, Adb!AckMatchesWrite, Adb!EndReported
<1>11. QED
  BY <1>6, <1>7, <1>8, <1>9, <1>10 DEF ShellInv

LEMMA ShellStep ==
    ASSUME ShellInv, HandleInv, [Adb!Next]_adbVars
    PROVE  ShellInv'
<1>1. HandleInv' /\ (adb.pc = "done" => adb'.pc = "done")
  BY HandleStep
<1>2. CASE Adb!Handshake
  <2>1. adb.pc # "done"
    BY <1>2, HandshakeKept
  <2>2. QED
    BY <1>1, <1>2, <2>1, HandshakeAlone
<1>3. CASE Adb!OpenShell
  BY <1>1, <1>3, OpenShellKept
<1>4. CASE Adb!OpenTimeout
  BY <1>1, <1>4, OpenTimeoutKept
<1>5. ASSUME NEW n \in 1 .. 2, Adb!AskWrite(n)
      PROVE  ShellInv'
  BY <1>1, <1>5, AskWriteKept
<1>6. CASE Adb!SendChunk \/ Adb!WriteTimeout
  BY <1>1, <1>6, SendChunkKept, WriteTimeoutKept
<1>7. CASE Adb!Receive
  BY <1>1, <1>7, ReceiveKept
<1>8. CASE Adb!LoopFails \/ Adb!DisconnectAdb
  <2>1. Adb!StreamsClosed /\ UNCHANGED <<chunk, toDevice, toHost, remote, acked>>
    BY <1>8 DEF Adb!LoopFails, Adb!DisconnectAdb
  <2>2. QED
    BY <1>1, <2>1, StreamsClosedKept
<1>9. CASE Adb!ReleaseInterface \/ Adb!CloseUsb \/ Adb!Unplug \/ UNCHANGED adbVars
  <2>1. UNCHANGED <<stream, writes, armed, chunk, toDevice, toHost, remote, acked>>
    BY <1>9 DEF Adb!ReleaseInterface, Adb!CloseUsb, Adb!Unplug, Adb!shellVars, adbVars
  <2>2. QED
    BY <1>1, <2>1, ShellAlone
<1>10. CASE Adb!DeviceTakes
  BY <1>1, <1>10, DeviceTakesKept
<1>11. ASSUME NEW id \in Adb!Lids, NEW n \in 0 .. 1, Adb!DeviceOutputs(id, n)
       PROVE  ShellInv'
  <2>1. /\ remote[id] = "open" /\ remote' = remote
        /\ toHost' = Append(toHost, Adb!Packet("WRTE", id, n))
        /\ UNCHANGED <<stream, writes, armed, chunk, toDevice, acked>>
    BY <1>11 DEF Adb!DeviceOutputs
  <2>2. QED
    BY <1>1, <2>1, DeviceSpeaks
<1>12. ASSUME NEW id \in Adb!Lids, Adb!DeviceExits(id)
       PROVE  ShellInv'
  <2>1. /\ remote[id] = "open" /\ remote' = [remote EXCEPT ![id] = "closed"]
        /\ toHost' = Append(toHost, Adb!Packet("CLSE", id, 0)) /\ 0 \in 0 .. 1
        /\ UNCHANGED <<stream, writes, armed, chunk, toDevice, acked>>
    BY <1>12 DEF Adb!DeviceExits
  <2>2. QED
    BY <1>1, <2>1, DeviceSpeaks
<1>13. QED
  BY <1>2, <1>3, <1>4, <1>5, <1>6, <1>7, <1>8, <1>9, <1>10, <1>11, <1>12
     DEF Adb!Next, Adb!Shell, Adb!Device

LEMMA AdbInit ==
    ASSUME Adb!Init
    PROVE  HandleInv /\ ShellInv
<1>1. HandleInv
  BY AdbHolds DEF Adb!AdbAssumption, Adb!Init, HandleInv, AdbRecord, UsbState
<1>2. /\ stream \in StreamRecord /\ stream.lid = 0 /\ stream.pc = "none"
      /\ stream.mapped = FALSE /\ stream.closed = FALSE
  <2>1. stream \in [lid : {0}, pc : {"none"}, mapped : {FALSE}, closed : {FALSE},
                    told : {FALSE}, v2 : BOOLEAN]
    BY DEF Adb!Init
  <2>2. QED
    BY <2>1 DEF StreamRecord
<1>3. /\ writes = <<>> /\ armed = 0 /\ chunk = 0 /\ toDevice = <<>> /\ toHost = <<>>
      /\ remote = [i \in Adb!Lids |-> "none"] /\ acked = <<>>
  BY DEF Adb!Init
<1>4. ShellTyped /\ ShellShaped
  BY <1>2, <1>3 DEF ShellTyped, ShellShaped
<1>5. PacketsKnown /\ OneAnswer /\ OpenFirst
  BY <1>2, <1>3 DEF PacketsKnown, OneAnswer, OpenFirst
<1>6. Adb!AckMatchesWrite /\ Adb!EndReported
  BY <1>2, <1>3 DEF Adb!AckMatchesWrite, Adb!EndReported
<1>7. QED
  BY <1>1, <1>4, <1>5, <1>6 DEF ShellInv

\* The transport's shapes, and its three promises, for any number of attempts, writes and
\* outputs: a late acknowledgement resolves no later write, the end of a shell that was
\* opened is reported, and what disconnect leaves behind is free for the next connection.
THEOREM TransportSafe ==
    Adb!Spec => [](Adb!TypeOK /\ Adb!AckMatchesWrite /\ Adb!EndReported /\ Adb!InterfaceFreed)
<1> DEFINE I == HandleInv /\ ShellInv
<1>1. Adb!Init => I
  BY AdbInit
<1>2. I /\ [Adb!Next]_adbVars => I'
  BY HandleStep, ShellStep
<1>3. Adb!Spec => []I
  <2>1. Adb!adbVars = adbVars
    BY DEF Adb!adbVars, adbVars
  <2>2. Adb!Spec <=> Adb!Init /\ [][Adb!Next]_adbVars
    BY DEF Adb!Spec, Adb!adbVars, adbVars
  <2> HIDE DEF I
  <2>3. QED
    BY <1>1, <1>2, <2>2, PTL
<1>4. I => Adb!TypeOK /\ Adb!AckMatchesWrite /\ Adb!EndReported /\ Adb!InterfaceFreed
  BY DEF HandleInv, ShellInv, ShellTyped, ShellShaped, AdbRecord, StreamRecord, UsbState,
         Adb!TypeOK, Adb!InterfaceFreed, Adb!Settled
<1> HIDE DEF I
<1>5. QED
  BY <1>3, <1>4, PTL

\* A session over USB in the page is a behaviour of the transport.
LEMMA AdbOfPage == Spec => Adb!Spec
<1>1. Init => Adb!Init
  BY DEF Init
<1>2. [Next]_<<focus, adbVars, uploadVars, fileVars, commandVars, listVars,
               mailVars, viewVars, chatVars, sheetVars, remoteVars>>
      => [Adb!Next]_adbVars
  BY DEF Next
<1>3. Adb!Spec <=> Adb!Init /\ [][Adb!Next]_adbVars
  BY DEF Adb!Spec, Adb!adbVars, adbVars
<1>4. QED
  BY <1>1, <1>2, <1>3, PTL DEF Spec

\* In the page, an acknowledgement resolves the chunk the device acknowledged, never a
\* later one, and the end of a shell that was opened is always reported.
THEOREM AckMatchesWriteAlways == Spec => []AckMatchesWrite
<1>1. AckMatchesWrite <=> Adb!AckMatchesWrite /\ Adb!EndReported
  BY DEF AckMatchesWrite
<1>2. QED
  BY <1>1, AdbOfPage, TransportSafe, PTL

\* In the page, once disconnect and the connect it interrupted have both ended, the
\* interface is free for the next connection.
THEOREM InterfaceFreedAlways == Spec => []InterfaceFreed
<1>1. InterfaceFreed <=> Adb!InterfaceFreed
  BY DEF InterfaceFreed
<1>2. QED
  BY <1>1, AdbOfPage, TransportSafe, PTL

-----------------------------------------------------------------------------
(* The terminal view *)

\* The pieces of a sequence are consecutive outputs, the last of which is m.
Consecutive(s, m) == \A i \in 1 .. Len(s) : s[i] = m - Len(s) + i

\* Erase comes first or not at all.
EraseFirst(s) == \A i \in 2 .. Len(s) : s[i] # 0

LEMMA SeqOf ==
    ASSUME NEW S, NEW T, NEW s \in Seq(S), \A i \in 1 .. Len(s) : s[i] \in T
    PROVE  s \in Seq(T)
<1>1. Len(s) \in Nat /\ s \in [1 .. Len(s) -> S]
  BY LenProperties
<1>2. s \in [1 .. Len(s) -> T]
  BY <1>1
<1>3. QED
  BY <1>1, <1>2, SeqDef

LEMMA ParsedFields ==
    ASSUME NEW s \in Seq(0 .. MaxEmitted), EraseFirst(s)
    PROVE  /\ Terminal!Parsed(s) \in Seq(1 .. MaxEmitted)
           /\ Len(s) \in Nat /\ Len(Terminal!Parsed(s)) \in Nat
           /\ s = <<>> \/ s[1] # 0 => Terminal!Parsed(s) = s
           /\ s # <<>> /\ s[1] = 0 =>
                  /\ Terminal!Parsed(s) = Tail(s) /\ Len(Tail(s)) = Len(s) - 1
                  /\ \A i \in 1 .. Len(s) - 1 : Tail(s)[i] = s[i + 1]
<1>1. Len(s) \in Nat /\ \A i \in 1 .. Len(s) : s[i] \in 0 .. MaxEmitted
  BY LenProperties, ElementOfSeq
<1>2. CASE s # <<>> /\ s[1] = 0
  <2>1. Terminal!Parsed(s) = Tail(s)
    BY <1>2 DEF Terminal!Parsed, Terminal!Erase
  <2>2. /\ Tail(s) \in Seq(0 .. MaxEmitted) /\ Len(s) \in Nat \ {0}
        /\ Len(Tail(s)) = Len(s) - 1 /\ \A i \in 1 .. Len(s) - 1 : Tail(s)[i] = s[i + 1]
    BY <1>2, Shifted
  <2>3. \A i \in 1 .. Len(Tail(s)) : Tail(s)[i] \in 1 .. MaxEmitted
    BY <1>1, <2>2 DEF EraseFirst
  <2>4. Tail(s) \in Seq(1 .. MaxEmitted)
    BY <2>2, <2>3, SeqOf, Zenon
  <2>5. Len(Terminal!Parsed(s)) \in Nat /\ ~(s = <<>> \/ s[1] # 0)
    BY <1>2, <2>1, <2>2
  <2>6. Terminal!Parsed(s) \in Seq(1 .. MaxEmitted)
    BY <2>1, <2>4
  <2>7. QED
    BY <1>1, <2>1, <2>2, <2>5, <2>6, Zenon
<1>3. CASE ~(s # <<>> /\ s[1] = 0)
  <2>1. Terminal!Parsed(s) = s
    BY <1>3 DEF Terminal!Parsed, Terminal!Erase
  <2>2. \A i \in 1 .. Len(s) : s[i] \in 1 .. MaxEmitted
    <3>1. CASE s = <<>>
      <4>1. Len(s) = 0
        BY <3>1, EmptySeq
      <4>2. QED
        BY <4>1
    <3>2. CASE s # <<>>
      BY <1>1, <1>3, <3>2 DEF EraseFirst
    <3>3. QED
      BY <3>1, <3>2
  <2>3. s \in Seq(1 .. MaxEmitted)
    BY <2>2, SeqOf, Zenon
  <2>4. QED
    BY <1>1, <1>3, <2>1, <2>3
<1>4. QED
  BY <1>2, <1>3

\* Output is the same whether it is parsed with what waits or after it.
LEMMA ParsedConcat ==
    ASSUME NEW s \in Seq(0 .. MaxEmitted), EraseFirst(s), NEW d \in Seq(1 .. MaxEmitted)
    PROVE  /\ s \o d \in Seq(0 .. MaxEmitted) /\ EraseFirst(s \o d)
           /\ Len(s \o d) = Len(s) + Len(d)
           /\ Terminal!Parsed(s \o d) = Terminal!Parsed(s) \o d
           /\ s \o d # <<>> /\ (s \o d)[1] = 0 => s # <<>> /\ s[1] = 0
<1>1. /\ Len(s) \in Nat /\ Len(d) \in Nat /\ d \in Seq(0 .. MaxEmitted)
      /\ \A i \in 1 .. Len(d) : d[i] \in 1 .. MaxEmitted
  <2>1. Len(s) \in Nat /\ Len(d) \in Nat /\ \A i \in 1 .. Len(d) : d[i] \in 1 .. MaxEmitted
    BY LenProperties, ElementOfSeq
  <2>2. \A i \in 1 .. Len(d) : d[i] \in 0 .. MaxEmitted
    BY <2>1
  <2>3. QED
    <3>1. d \in Seq(0 .. MaxEmitted)
      BY <2>2, SeqOf, Zenon
    <3>2. QED
      BY <2>1, <3>1
<1>2. /\ s \o d \in Seq(0 .. MaxEmitted) /\ Len(s \o d) = Len(s) + Len(d)
      /\ \A i \in 1 .. Len(s) + Len(d) :
             (s \o d)[i] = IF i <= Len(s) THEN s[i] ELSE d[i - Len(s)]
  BY <1>1, ConcatProperties
<1>3. EraseFirst(s \o d)
  BY <1>1, <1>2 DEF EraseFirst
<1>4. CASE s # <<>> /\ s[1] = 0
  <2>1. /\ Len(s) \in Nat \ {0} /\ Terminal!Parsed(s) = Tail(s) /\ Len(Tail(s)) = Len(s) - 1
        /\ Tail(s) \in Seq(1 .. MaxEmitted)
        /\ \A i \in 1 .. Len(s) - 1 : Tail(s)[i] = s[i + 1]
    BY <1>4, ParsedFields, EmptySeq
  <2>2. s \o d # <<>> /\ (s \o d)[1] = 0
    <3>1. Len(s \o d) # 0
      BY <1>1, <1>2, <2>1
    <3>2. QED
      BY <1>1, <1>2, <1>4, <2>1, <3>1, EmptySeq
  <2>3. /\ Terminal!Parsed(s \o d) = Tail(s \o d) /\ Len(Tail(s \o d)) = Len(s \o d) - 1
        /\ Tail(s \o d) \in Seq(1 .. MaxEmitted)
        /\ \A i \in 1 .. Len(s \o d) - 1 : Tail(s \o d)[i] = (s \o d)[i + 1]
    BY <1>2, <1>3, <2>2, ParsedFields
  <2>4. /\ Tail(s) \o d \in Seq(1 .. MaxEmitted)
        /\ Len(Tail(s) \o d) = Len(s) - 1 + Len(d)
        /\ \A i \in 1 .. Len(s) - 1 + Len(d) :
               (Tail(s) \o d)[i] = IF i <= Len(s) - 1 THEN Tail(s)[i] ELSE d[i - (Len(s) - 1)]
    BY <2>1, ConcatProperties
  <2>5. Len(Tail(s \o d)) = Len(Tail(s) \o d)
    BY <1>1, <1>2, <2>1, <2>3, <2>4
  <2>6. ASSUME NEW i \in 1 .. Len(Tail(s \o d))
        PROVE  Tail(s \o d)[i] = (Tail(s) \o d)[i]
    <3>1. i \in 1 .. Len(s) - 1 + Len(d) /\ i + 1 \in 1 .. Len(s) + Len(d)
      BY <1>1, <1>2, <2>1, <2>3
    <3>2. Tail(s \o d)[i] = IF i + 1 <= Len(s) THEN s[i + 1] ELSE d[i + 1 - Len(s)]
      BY <1>2, <2>3, <3>1
    <3>3. CASE i + 1 <= Len(s)
      BY <1>1, <2>1, <2>4, <3>1, <3>2, <3>3
    <3>4. CASE ~(i + 1 <= Len(s))
      <4>1. i + 1 - Len(s) = i - (Len(s) - 1) /\ ~(i <= Len(s) - 1)
        BY <1>1, <3>1, <3>4
      <4>2. QED
        BY <2>4, <3>1, <3>2, <3>4, <4>1
    <3>5. QED
      BY <3>3, <3>4
  <2>7. Tail(s \o d) = Tail(s) \o d
    BY <2>3, <2>4, <2>5, <2>6, SeqEqual
  <2>8. QED
    BY <1>2, <1>3, <1>4, <2>1, <2>3, <2>7
<1>5. CASE ~(s # <<>> /\ s[1] = 0)
  <2>1. Terminal!Parsed(s) = s
    BY <1>5, ParsedFields
  <2>2. ~(s \o d # <<>> /\ (s \o d)[1] = 0)
    <3>1. SUFFICES ASSUME s \o d # <<>>
                   PROVE  (s \o d)[1] # 0
      OBVIOUS
    <3>2. Len(s \o d) \in Nat \ {0}
      BY <1>2, <3>1, EmptySeq
    <3>3. CASE s # <<>>
      <4>1. Len(s) \in Nat \ {0}
        BY <3>3, EmptySeq
      <4>2. QED
        BY <1>1, <1>2, <1>5, <3>3, <4>1
    <3>4. CASE s = <<>>
      <4>1. Len(s) = 0
        BY <3>4, EmptySeq
      <4>2. (s \o d)[1] = d[1] /\ 1 \in 1 .. Len(d)
        BY <1>1, <1>2, <3>2, <4>1
      <4>3. QED
        BY <1>1, <4>2
    <3>5. QED
      BY <3>3, <3>4
  <2>3. Terminal!Parsed(s \o d) = s \o d
    BY <1>2, <1>3, <2>2, ParsedFields
  <2>4. QED
    BY <1>2, <1>3, <2>1, <2>2, <2>3
<1>6. QED
  BY <1>4, <1>5

LEMMA ConsecutiveConcat ==
    ASSUME NEW S, NEW s \in Seq(S), NEW d \in Seq(S), NEW m \in Int, NEW k \in Int,
           Consecutive(s, m), Consecutive(d, k), k = m + Len(d)
    PROVE  /\ Consecutive(s \o d, k) /\ s \o d \in Seq(S)
           /\ Len(s \o d) = Len(s) + Len(d) /\ Len(s) \in Nat /\ Len(d) \in Nat
<1>1. /\ Len(s) \in Nat /\ Len(d) \in Nat /\ s \o d \in Seq(S)
      /\ Len(s \o d) = Len(s) + Len(d)
      /\ \A i \in 1 .. Len(s) + Len(d) :
             (s \o d)[i] = IF i <= Len(s) THEN s[i] ELSE d[i - Len(s)]
  BY ConcatProperties, LenProperties
<1>2. ASSUME NEW i \in 1 .. Len(s \o d)
      PROVE  (s \o d)[i] = k - Len(s \o d) + i
  <2>1. CASE i <= Len(s)
    BY <1>1, <2>1 DEF Consecutive
  <2>2. CASE ~(i <= Len(s))
    <3>1. i - Len(s) \in 1 .. Len(d)
      BY <1>1, <2>2
    <3>2. (s \o d)[i] = k - Len(d) + (i - Len(s))
      BY <1>1, <2>2, <3>1 DEF Consecutive
    <3>3. QED
      BY <1>1, <3>2
  <2>3. QED
    BY <2>1, <2>2
<1>3. QED
  BY <1>1, <1>2 DEF Consecutive

\* The latest of consecutive outputs are.
LEMMA LatestConsecutive ==
    ASSUME NEW S, NEW s \in Seq(S), NEW m \in Int, Consecutive(s, m), NEW n \in Nat
    PROVE  /\ Terminal!Latest(s, n) \in Seq(S) /\ Consecutive(Terminal!Latest(s, n), m)
           /\ Len(Terminal!Latest(s, n)) = IF Len(s) > n THEN n ELSE Len(s)
<1> DEFINE k == IF Len(s) > n THEN Len(s) - n + 1 ELSE 1
<1>1. /\ Len(s) \in Nat /\ k \in 1 .. Len(s) + 1 /\ \A i \in k .. Len(s) : s[i] \in S
  BY LenProperties, ElementOfSeq
<1>2. Terminal!Latest(s, n) = SubSeq(s, k, Len(s))
  BY DEF Terminal!Latest
<1> HIDE DEF k
<1>3. k \in Int /\ Len(s) \in Int
  BY <1>1
<1>4. /\ SubSeq(s, k, Len(s)) \in Seq(S)
      /\ Len(SubSeq(s, k, Len(s))) = IF k <= Len(s) THEN Len(s) - k + 1 ELSE 0
      /\ \A i \in 1 .. Len(s) - k + 1 : SubSeq(s, k, Len(s))[i] = s[k + i - 1]
  BY <1>1, <1>3, SubSeqProperties
<1>5. Len(SubSeq(s, k, Len(s))) = Len(s) - k + 1
  BY <1>1, <1>4
<1>6. Len(s) - k + 1 = IF Len(s) > n THEN n ELSE Len(s)
  BY <1>1 DEF k
<1>7. ASSUME NEW i \in 1 .. Len(s) - k + 1
      PROVE  SubSeq(s, k, Len(s))[i] = m - (Len(s) - k + 1) + i
  <2>1. k + i - 1 \in 1 .. Len(s)
    BY <1>1
  <2>2. s[k + i - 1] = m - Len(s) + (k + i - 1)
    BY <2>1 DEF Consecutive
  <2>3. QED
    BY <1>1, <1>4, <2>2
<1>8. QED
  BY <1>2, <1>4, <1>5, <1>6, <1>7 DEF Consecutive

\* s is cut after its first n elements.
Cut(s, n, a, b) == a = SubSeq(s, 1, n) /\ b = SubSeq(s, n + 1, Len(s))

\* A piece taken from what waits, and the rest.
LEMMA PieceTaken ==
    ASSUME NEW s \in Seq(0 .. MaxEmitted), EraseFirst(s), NEW l \in Nat, Len(s) = l,
           NEW n \in 1 .. l, NEW a, NEW b, Cut(s, n, a, b)
    PROVE  /\ a \in Seq(0 .. MaxEmitted) /\ EraseFirst(a) /\ a # <<>>
           /\ b \in Seq(0 .. MaxEmitted) /\ EraseFirst(b)
           /\ ~(b # <<>> /\ b[1] = 0) /\ Terminal!Parsed(b) = b
           /\ Len(a) = n /\ (\A i \in 1 .. n : a[i] = s[i]) /\ a[1] = s[1] /\ s # <<>>
           /\ Len(b) = l - n /\ \A i \in 1 .. l - n : b[i] = s[n + i]
<1>1. /\ l \in Nat /\ n \in Int /\ n + 1 \in Int /\ 1 \in Int /\ l \in Int
      /\ \A i \in 1 .. l : s[i] \in 0 .. MaxEmitted
  <2>1. l \in Nat
    OBVIOUS
  <2>2. \A i \in 1 .. l : s[i] \in 0 .. MaxEmitted
    BY ElementOfSeq
  <2>3. QED
    BY <2>1, <2>2
<1>2. /\ a \in Seq(0 .. MaxEmitted) /\ Len(a) = n
      /\ \A i \in 1 .. n : a[i] = s[i]
  <2>1. \A i \in 1 .. n : s[i] \in 0 .. MaxEmitted
    BY <1>1
  <2>2. /\ SubSeq(s, 1, n) \in Seq(0 .. MaxEmitted)
        /\ Len(SubSeq(s, 1, n)) = IF 1 <= n THEN n - 1 + 1 ELSE 0
        /\ \A i \in 1 .. n - 1 + 1 : SubSeq(s, 1, n)[i] = s[1 + i - 1]
    BY <1>1, <2>1, SubSeqProperties
  <2>3. \A i \in 1 .. n : i \in 1 .. n - 1 + 1 /\ 1 + i - 1 = i
    BY <1>1
  <2>4. a = SubSeq(s, 1, n)
    BY DEF Cut
  <2>5. Len(a) = n
    BY <1>1, <2>2, <2>4
  <2>6. \A i \in 1 .. n : a[i] = s[i]
    BY <2>2, <2>3, <2>4
  <2>7. QED
    BY <2>2, <2>4, <2>5, <2>6
<1>3. /\ b \in Seq(0 .. MaxEmitted) /\ Len(b) = l - n
      /\ \A i \in 1 .. l - n : b[i] = s[n + i]
  <2>1. \A i \in n + 1 .. l : s[i] \in 0 .. MaxEmitted
    BY <1>1
  <2>2. /\ SubSeq(s, n + 1, l) \in Seq(0 .. MaxEmitted)
        /\ Len(SubSeq(s, n + 1, l)) = IF n + 1 <= l THEN l - (n + 1) + 1 ELSE 0
        /\ \A i \in 1 .. l - (n + 1) + 1 : SubSeq(s, n + 1, l)[i] = s[n + 1 + i - 1]
    BY <1>1, <2>1, SubSeqProperties
  <2>3. \A i \in 1 .. l - n : i \in 1 .. l - (n + 1) + 1 /\ n + 1 + i - 1 = n + i
    BY <1>1
  <2>4. b = SubSeq(s, n + 1, l)
    BY DEF Cut
  <2>5. Len(b) = l - n
    BY <1>1, <2>2, <2>4
  <2>6. \A i \in 1 .. l - n : b[i] = s[n + i]
    BY <2>2, <2>3, <2>4
  <2>7. QED
    BY <2>2, <2>4, <2>5, <2>6
<1>4. EraseFirst(a) /\ EraseFirst(b) /\ ~(b # <<>> /\ b[1] = 0)
  <2>1. EraseFirst(a)
    BY <1>1, <1>2 DEF EraseFirst
  <2>2. \A i \in 1 .. Len(b) : b[i] # 0
    BY <1>1, <1>3 DEF EraseFirst
  <2>3. b # <<>> => 1 \in 1 .. Len(b)
    BY <1>3, EmptySeq
  <2>4. QED
    BY <1>1, <1>3, <2>1, <2>2, <2>3 DEF EraseFirst
<1>5. a # <<>> /\ s # <<>> /\ a[1] = s[1]
  <2>1. Len(a) # 0 /\ Len(s) # 0 /\ 1 \in 1 .. n
    BY <1>1, <1>2
  <2>2. a # <<>> /\ s # <<>>
    BY <1>2, <2>1, EmptySeq
  <2>3. QED
    BY <1>2, <2>1, <2>2
<1>6. Terminal!Parsed(b) = b
  BY <1>3, <1>4, ParsedFields
<1>7. QED
  BY <1>2, <1>3, <1>4, <1>5, <1>6

\* Their outputs are consecutive, as those of the whole were.
LEMMA ParsedSplit ==
    ASSUME NEW s \in Seq(0 .. MaxEmitted), EraseFirst(s), NEW l \in Nat, Len(s) = l,
           NEW n \in 1 .. l, NEW m \in Int, Consecutive(Terminal!Parsed(s), m),
           NEW a, NEW b, Cut(s, n, a, b)
    PROVE  /\ a \in Seq(0 .. MaxEmitted) /\ EraseFirst(a) /\ a # <<>>
           /\ b \in Seq(0 .. MaxEmitted) /\ EraseFirst(b)
           /\ ~(b # <<>> /\ b[1] = 0) /\ Terminal!Parsed(b) = b
           /\ Consecutive(b, m) /\ Consecutive(Terminal!Parsed(a), m - Len(b))
           /\ Len(Terminal!Parsed(a)) \in Nat /\ Len(b) \in Nat
           /\ Len(Terminal!Parsed(a)) + Len(b) = Len(Terminal!Parsed(s))
<1>1. l \in Int /\ n \in Int /\ Len(s) = l
  OBVIOUS
<1>2. a \in Seq(0 .. MaxEmitted) /\ Len(a) = n /\ (\A i \in 1 .. n : a[i] = s[i])
  BY PieceTaken
<1>3. b \in Seq(0 .. MaxEmitted) /\ Len(b) = l - n /\ (\A i \in 1 .. l - n : b[i] = s[n + i])
  BY PieceTaken
<1>4. EraseFirst(a) /\ EraseFirst(b) /\ ~(b # <<>> /\ b[1] = 0)
  BY PieceTaken
<1>5. a # <<>> /\ s # <<>> /\ a[1] = s[1]
  BY PieceTaken
<1>6. Terminal!Parsed(b) = b
  BY PieceTaken
<1>7. CASE s[1] = 0
  <2>1. /\ Terminal!Parsed(s) = Tail(s) /\ Len(Tail(s)) = l - 1
        /\ \A i \in 1 .. l - 1 : Tail(s)[i] = s[i + 1]
    BY <1>5, <1>7, ParsedFields
  <2>2. /\ Terminal!Parsed(a) = Tail(a) /\ Len(Tail(a)) = n - 1
        /\ \A i \in 1 .. n - 1 : Tail(a)[i] = a[i + 1]
    BY <1>2, <1>4, <1>5, <1>7, ParsedFields
  <2>3. \A i \in 1 .. l - 1 : s[i + 1] = m - (l - 1) + i
    BY <2>1 DEF Consecutive
  <2>4. \A i \in 2 .. l : s[i] = m - l + i
    <3>1. ASSUME NEW i \in 2 .. l
          PROVE  s[i] = m - l + i
      <4>1. i - 1 \in 1 .. l - 1 /\ (i - 1) + 1 = i
        BY <1>1
      <4>2. s[(i - 1) + 1] = m - (l - 1) + (i - 1)
        BY <2>3, <4>1
      <4>3. s[i] = m - (l - 1) + (i - 1)
        BY <4>1, <4>2
      <4>4. m - (l - 1) + (i - 1) = m - l + i
        BY <1>1
      <4>5. QED
        BY <4>3, <4>4
    <3>2. QED
      BY <3>1
  <2>5. Consecutive(b, m)
    <3>1. ASSUME NEW i \in 1 .. Len(b)
          PROVE  b[i] = m - Len(b) + i
      <4>1. n + i \in 2 .. l /\ i \in 1 .. l - n
        BY <1>1, <1>3
      <4>2. b[i] = s[n + i] /\ s[n + i] = m - l + (n + i)
        BY <1>3, <2>4, <4>1
      <4>3. m - l + (n + i) = m - (l - n) + i
        BY <1>1, <4>1
      <4>4. QED
        BY <1>3, <4>2, <4>3
    <3>2. QED
      BY <3>1 DEF Consecutive
  <2>6. Consecutive(Tail(a), m - Len(b))
    <3>1. ASSUME NEW i \in 1 .. Len(Tail(a))
          PROVE  Tail(a)[i] = (m - Len(b)) - Len(Tail(a)) + i
      <4>1. i + 1 \in 2 .. l /\ i + 1 \in 1 .. n /\ i \in 1 .. n - 1
        <5>1. i \in 1 .. n - 1
          BY <2>2
        <5>2. QED
          BY <1>1, <5>1
      <4>2. Tail(a)[i] = m - l + (i + 1)
        BY <1>2, <2>2, <2>4, <4>1
      <4>3. m - l + (i + 1) = (m - (l - n)) - (n - 1) + i
        BY <1>1, <4>1
      <4>4. QED
        BY <1>3, <2>2, <4>2, <4>3
    <3>2. QED
      BY <3>1 DEF Consecutive
  <2>7. Len(Tail(a)) \in Nat /\ Len(b) \in Nat /\ Len(Tail(a)) + Len(b) = Len(Tail(s))
    <3>1. n - 1 \in Nat /\ l - n \in Nat /\ (n - 1) + (l - n) = l - 1
      BY <1>1
    <3>2. QED
      BY <1>3, <2>1, <2>2, <3>1
  <2>8. QED
    BY <1>2, <1>3, <1>4, <1>5, <1>6, <2>1, <2>2, <2>5, <2>6, <2>7
<1>8. CASE s[1] # 0
  <2>1. Terminal!Parsed(s) = s /\ Terminal!Parsed(a) = a
    BY <1>2, <1>4, <1>5, <1>8, ParsedFields
  <2>2. \A i \in 1 .. l : s[i] = m - l + i
    BY <2>1 DEF Consecutive
  <2>3. Consecutive(b, m)
    <3>1. ASSUME NEW i \in 1 .. Len(b)
          PROVE  b[i] = m - Len(b) + i
      <4>1. n + i \in 1 .. l /\ i \in 1 .. l - n
        BY <1>1, <1>3
      <4>2. b[i] = s[n + i] /\ s[n + i] = m - l + (n + i)
        BY <1>3, <2>2, <4>1
      <4>3. m - l + (n + i) = m - (l - n) + i
        BY <1>1, <4>1
      <4>4. QED
        BY <1>3, <4>2, <4>3
    <3>2. QED
      BY <3>1 DEF Consecutive
  <2>4. Consecutive(a, m - Len(b))
    <3>1. ASSUME NEW i \in 1 .. Len(a)
          PROVE  a[i] = (m - Len(b)) - Len(a) + i
      <4>1. i \in 1 .. l /\ i \in 1 .. n
        BY <1>1, <1>2
      <4>2. a[i] = m - l + i
        BY <1>2, <2>2, <4>1
      <4>3. m - l + i = (m - (l - n)) - n + i
        BY <1>1, <4>1
      <4>4. QED
        BY <1>2, <1>3, <4>2, <4>3
    <3>2. QED
      BY <3>1 DEF Consecutive
  <2>5. Len(a) \in Nat /\ Len(b) \in Nat /\ Len(a) + Len(b) = l
    BY <1>1, <1>2, <1>3
  <2>6. QED
    BY <1>2, <1>3, <1>4, <1>5, <1>6, <2>1, <2>3, <2>4, <2>5
<1>9. QED
  BY <1>7, <1>8

-----------------------------------------------------------------------------

ViewRecord ==
    [shown : BOOLEAN, pending : Seq(0 .. MaxEmitted), reset : BOOLEAN,
     writing : Seq(0 .. MaxEmitted), timer : BOOLEAN]

ViewTyped ==
    /\ emitted \in 0 .. MaxEmitted /\ clearedAt \in 0 .. emitted
    /\ transcript \in Seq(1 .. MaxEmitted) /\ screen \in Seq(1 .. MaxEmitted)
    /\ view \in ViewRecord

\* Erase waits only while the emulator is to be reset.
EraseResets ==
    /\ EraseFirst(view.pending) /\ EraseFirst(view.writing)
    /\ view.pending # <<>> /\ view.pending[1] = 0 => view.reset

TranscriptLast ==
    /\ Consecutive(transcript, emitted)
    /\ Len(transcript) <= Limit /\ Len(transcript) <= emitted - clearedAt

\* How much the screen will show.
Ahead ==
    Len(Terminal!Parsed(view.pending))
    + IF view.reset THEN 0 ELSE Len(Terminal!Parsed(view.writing)) + Len(screen)

\* ScreenFollows says of the whole what this says of its three parts.
PartsFollow ==
    LET waits == Terminal!Parsed(view.pending)
        piece == Terminal!Parsed(view.writing)
    IN /\ Consecutive(waits, emitted)
       /\ ~view.reset =>
              /\ Consecutive(piece, emitted - Len(waits))
              /\ Consecutive(screen, emitted - Len(waits) - Len(piece))
       /\ Len(transcript) <= Ahead /\ Ahead <= emitted - clearedAt
       /\ view.pending # <<>> => view.timer \/ view.writing # <<>>

ViewInv == ViewTyped /\ EraseResets /\ TranscriptLast /\ (view.shown => PartsFollow)

LEMMA ViewFields ==
    ASSUME ViewTyped, EraseResets
    PROVE  /\ view.pending \in Seq(0 .. MaxEmitted) /\ view.writing \in Seq(0 .. MaxEmitted)
           /\ Terminal!Parsed(view.pending) \in Seq(1 .. MaxEmitted)
           /\ Terminal!Parsed(view.writing) \in Seq(1 .. MaxEmitted)
           /\ Len(Terminal!Parsed(view.pending)) \in Nat
           /\ Len(Terminal!Parsed(view.writing)) \in Nat
           /\ Len(screen) \in Nat /\ Len(transcript) \in Nat
           /\ emitted \in Nat /\ clearedAt \in Nat
<1>1. view.pending \in Seq(0 .. MaxEmitted) /\ view.writing \in Seq(0 .. MaxEmitted)
  BY DEF ViewTyped, ViewRecord
<1>2. /\ Terminal!Parsed(view.pending) \in Seq(1 .. MaxEmitted)
      /\ Terminal!Parsed(view.writing) \in Seq(1 .. MaxEmitted)
      /\ Len(Terminal!Parsed(view.pending)) \in Nat
      /\ Len(Terminal!Parsed(view.writing)) \in Nat
  BY <1>1, ParsedFields DEF EraseResets
<1>3. Len(screen) \in Nat /\ Len(transcript) \in Nat /\ emitted \in Nat /\ clearedAt \in Nat
  BY LenProperties DEF ViewTyped
<1>4. QED
  BY <1>1, <1>2, <1>3

LEMMA ReceivedFields ==
    ASSUME view \in ViewRecord, NEW d, view.pending \o d \in Seq(0 .. MaxEmitted),
           NEW t \in Seq(0 .. MaxEmitted), view' = Terminal!Received(view, d, t)
    PROVE  /\ view' \in ViewRecord /\ view'.shown = view.shown /\ view'.writing = view.writing
           /\ view.timer \/ view.writing = <<>> => view'.timer
           /\ view'.pending \in {view.pending \o d, t}
           /\ ~view'.reset => ~view.reset /\ view'.pending = view.pending \o d
           /\ view'.reset => view.reset \/ view'.pending = t
<1> DEFINE q == view.pending \o d
           u == [view EXCEPT !.pending = q]
           w == Terminal!Overflowed(u, t)
<1>1. /\ u \in ViewRecord /\ u.shown = view.shown /\ u.writing = view.writing
      /\ u.timer = view.timer
      /\ u.pending = q /\ u.reset = view.reset
  BY DEF ViewRecord
<1> HIDE DEF u, q
<1>2. /\ w \in ViewRecord /\ w.shown = view.shown /\ w.writing = view.writing
      /\ w.timer = view.timer
      /\ \/ w.pending = q /\ w.reset = view.reset
         \/ w.pending = t /\ w.reset = TRUE
  <2>1. w = u \/ w = [u EXCEPT !.pending = t, !.reset = TRUE]
    BY DEF Terminal!Overflowed
  <2> HIDE DEF w
  <2>2. CASE w = u
    BY <1>1, <2>2
  <2>3. CASE w = [u EXCEPT !.pending = t, !.reset = TRUE]
    BY <1>1, <2>3 DEF ViewRecord
  <2>4. QED
    BY <2>1, <2>2, <2>3
<1>3. view' = [w EXCEPT !.timer = w.timer \/ w.writing = <<>>]
  BY DEF Terminal!Received, Terminal!Armed, u, q
<1> HIDE DEF w
<1>4. /\ view' \in ViewRecord /\ view'.shown = w.shown /\ view'.writing = w.writing
      /\ view'.pending = w.pending /\ view'.reset = w.reset
      /\ w.timer \/ w.writing = <<>> => view'.timer
  BY <1>2, <1>3 DEF ViewRecord
<1>5. QED
  BY <1>2, <1>4 DEF q

\* What is output joins the transcript and what waits.
LEMMA OutputData ==
    ASSUME ViewTyped, NEW n \in Nat, emitted + n <= MaxEmitted,
           NEW d, d = [i \in 1 .. n |-> emitted + i]
    PROVE  d \in Seq(1 .. MaxEmitted) /\ Len(d) = n /\ Consecutive(d, emitted + n)
<1>1. emitted \in Nat /\ MaxEmitted \in Nat
  BY TerminalHolds DEF Terminal!ViewAssumption, ViewTyped
<1>2. d \in [1 .. n -> 1 .. MaxEmitted] /\ \A i \in 1 .. n : d[i] = emitted + i
  BY <1>1
<1>3. d \in Seq(1 .. MaxEmitted)
  BY <1>2, SeqDef
<1>4. DOMAIN d = 1 .. n /\ DOMAIN d = 1 .. Len(d) /\ Len(d) \in Nat
  BY <1>2, <1>3, LenProperties
<1>5. Len(d) = n
  BY <1>4
<1>6. \A i \in 1 .. n : d[i] = (emitted + n) - n + i
  BY <1>1, <1>2
<1>7. QED
  BY <1>3, <1>5, <1>6 DEF Consecutive

LEMMA SeqWider ==
    ASSUME NEW s \in Seq(1 .. MaxEmitted)
    PROVE  /\ s \in Seq(0 .. MaxEmitted) /\ EraseFirst(s) /\ ~(s # <<>> /\ s[1] = 0)
           /\ Terminal!Parsed(s) = s
<1>1. /\ Len(s) \in Nat /\ \A i \in 1 .. Len(s) : s[i] \in 1 .. MaxEmitted
  BY LenProperties, ElementOfSeq
<1>2. \A i \in 1 .. Len(s) : s[i] \in 0 .. MaxEmitted /\ s[i] # 0
  BY <1>1
<1>3. s \in Seq(0 .. MaxEmitted)
  BY <1>2, SeqOf, Zenon
<1>4. s # <<>> => 1 \in 1 .. Len(s)
  BY <1>1, EmptySeq
<1>5. EraseFirst(s) /\ ~(s # <<>> /\ s[1] = 0)
  BY <1>1, <1>2, <1>4 DEF EraseFirst
<1>6. QED
  BY <1>3, <1>5, ParsedFields

LEMMA OutputStep ==
    ASSUME ViewInv, NEW n \in 1 .. Burst, Terminal!Output(n)
    PROVE  ViewInv'
<1> DEFINE d == [i \in 1 .. n |-> emitted + i]
           t == transcript \o d
<1>1. /\ emitted + n <= MaxEmitted /\ emitted' = emitted + n
      /\ transcript' = Terminal!Latest(t, Limit)
      /\ view' = IF view.shown THEN Terminal!Received(view, d, transcript') ELSE view
      /\ UNCHANGED <<clearedAt, screen>>
  BY DEF Terminal!Output
<1>2. /\ ViewTyped /\ EraseResets /\ TranscriptLast /\ (view.shown => PartsFollow)
  BY DEF ViewInv
<1>3. n \in Nat /\ Limit \in Nat \ {0} /\ MaxEmitted \in Nat /\ emitted \in Nat /\ clearedAt \in Nat
      /\ clearedAt <= emitted
  BY <1>2, TerminalHolds DEF Terminal!ViewAssumption, ViewTyped
<1>4. d \in Seq(1 .. MaxEmitted) /\ Len(d) = n /\ Consecutive(d, emitted + n)
  BY <1>1, <1>2, <1>3, OutputData
<1> HIDE DEF d
<1>5. /\ t \in Seq(1 .. MaxEmitted) /\ Consecutive(t, emitted + n)
      /\ Len(t) = Len(transcript) + n /\ Len(transcript) \in Nat
  <2>1. /\ transcript \in Seq(1 .. MaxEmitted) /\ Consecutive(transcript, emitted)
        /\ emitted \in Int /\ emitted + n \in Int /\ emitted + n = emitted + Len(d)
    BY <1>2, <1>3, <1>4 DEF ViewTyped, TranscriptLast
  <2>2. QED
    BY <1>4, <2>1, ConsecutiveConcat
<1> HIDE DEF t
<1>6. /\ transcript' \in Seq(1 .. MaxEmitted) /\ Consecutive(transcript', emitted')
      /\ Len(transcript') = (IF Len(transcript) + n > Limit THEN Limit ELSE Len(transcript) + n)
      /\ Len(transcript') \in Nat
  <2>1. emitted + n \in Int /\ Limit \in Nat
    BY <1>3
  <2>2. QED
    BY <1>1, <1>3, <1>5, <2>1, LatestConsecutive
<1>7. TranscriptLast'
  BY <1>1, <1>2, <1>3, <1>5, <1>6 DEF TranscriptLast
<1>8. CASE ~view.shown
  <2>1. view' = view
    BY <1>1, <1>8
  <2>2. ViewTyped' /\ EraseResets'
    BY <1>1, <1>2, <1>3, <1>6, <2>1 DEF ViewTyped, EraseResets
  <2>3. QED
    BY <1>7, <1>8, <2>1, <2>2 DEF ViewInv
<1>9. CASE view.shown
  <2>1. view' = Terminal!Received(view, d, transcript')
    BY <1>1, <1>9
  <2>2. view \in ViewRecord /\ view.pending \in Seq(0 .. MaxEmitted) /\ EraseFirst(view.pending)
    BY <1>2, ViewFields DEF ViewTyped, EraseResets
  <2>3. /\ view.pending \o d \in Seq(0 .. MaxEmitted) /\ EraseFirst(view.pending \o d)
        /\ Terminal!Parsed(view.pending \o d) = Terminal!Parsed(view.pending) \o d
        /\ view.pending \o d # <<>> /\ (view.pending \o d)[1] = 0
               => view.pending # <<>> /\ view.pending[1] = 0
    BY <1>4, <2>2, ParsedConcat
  <2>4. /\ transcript' \in Seq(0 .. MaxEmitted) /\ EraseFirst(transcript')
        /\ ~(transcript' # <<>> /\ transcript'[1] = 0)
        /\ Terminal!Parsed(transcript') = transcript'
    BY <1>6, SeqWider
  <2>5. /\ view' \in ViewRecord /\ view'.shown = view.shown /\ view'.writing = view.writing
        /\ view.timer \/ view.writing = <<>> => view'.timer
        /\ view'.pending \in {view.pending \o d, transcript'}
        /\ ~view'.reset => ~view.reset /\ view'.pending = view.pending \o d
        /\ view'.reset => view.reset \/ view'.pending = transcript'
    <3>1. /\ view \in ViewRecord /\ view.pending \o d \in Seq(0 .. MaxEmitted)
          /\ transcript' \in Seq(0 .. MaxEmitted)
      BY <2>2, <2>3, <2>4
    <3>2. QED
      BY <2>1, <3>1, ReceivedFields
  <2>6. ViewTyped'
    BY <1>1, <1>2, <1>3, <1>6, <2>5 DEF ViewTyped
  <2>7. EraseResets'
    BY <1>2, <2>3, <2>4, <2>5 DEF EraseResets
  <2>8. PartsFollow'
    <3>1. CASE view'.pending = transcript' /\ view'.reset
      <4>1. Terminal!Parsed(view'.pending) = transcript' /\ Ahead' = Len(transcript')
        BY <1>6, <2>4, <3>1 DEF Ahead
      <4>2. Len(transcript') <= Ahead' /\ Ahead' <= emitted' - clearedAt'
        BY <1>6, <1>7, <4>1 DEF TranscriptLast
      <4>3. view'.timer \/ view'.writing # <<>>
        BY <2>5
      <4>4. QED
        BY <1>6, <3>1, <4>1, <4>2, <4>3 DEF PartsFollow
    <3>2. CASE view'.pending = view.pending \o d /\ (view'.reset <=> view.reset)
      <4> DEFINE w == Terminal!Parsed(view.pending)
                 p == Terminal!Parsed(view.writing)
      <4>1. /\ w \in Seq(1 .. MaxEmitted) /\ Len(w) \in Nat /\ Len(p) \in Nat
            /\ Len(screen) \in Nat
        BY <1>2, ViewFields
      <4>2. /\ Consecutive(w, emitted)
            /\ ~view.reset => /\ Consecutive(p, emitted - Len(w))
                              /\ Consecutive(screen, emitted - Len(w) - Len(p))
            /\ Len(transcript) <= Ahead /\ Ahead <= emitted - clearedAt
            /\ Ahead = Len(w) + IF view.reset THEN 0 ELSE Len(p) + Len(screen)
        BY <1>2, <1>9 DEF PartsFollow, Ahead
      <4>3. Consecutive(w \o d, emitted + n) /\ Len(w \o d) = Len(w) + n
        <5>1. emitted \in Int /\ emitted + n \in Int /\ emitted + n = emitted + Len(d)
          BY <1>3, <1>4
        <5>2. QED
          BY <1>4, <4>1, <4>2, <5>1, ConsecutiveConcat
      <4>4. Terminal!Parsed(view'.pending) = w \o d /\ Terminal!Parsed(view'.writing) = p
        BY <2>3, <2>5, <3>2
      <4> HIDE DEF w, p
      <4>5. Ahead' = Len(w) + n + IF view.reset THEN 0 ELSE Len(p) + Len(screen)
        BY <1>1, <3>2, <4>3, <4>4 DEF Ahead
      <4>6. Ahead' = Ahead + n /\ Ahead \in Nat
        <5>1. CASE view.reset
          BY <1>3, <4>1, <4>2, <4>5, <5>1
        <5>2. CASE ~view.reset
          BY <1>3, <4>1, <4>2, <4>5, <5>2
        <5>3. QED
          BY <5>1, <5>2
      <4>7. /\ emitted' - (Len(w) + n) = emitted - Len(w)
            /\ emitted' - (Len(w) + n) - Len(p) = emitted - Len(w) - Len(p)
        BY <1>1, <1>3, <4>1
      <4>8. Len(transcript') <= Ahead' /\ Ahead' <= emitted' - clearedAt'
        <5>1. Len(transcript') <= Len(transcript) + n
          BY <1>3, <1>5, <1>6
        <5>2. emitted' - clearedAt' = emitted - clearedAt + n
          BY <1>1, <1>3
        <5>3. Len(transcript) <= Ahead /\ Ahead <= emitted - clearedAt
          BY <4>2
        <5>4. QED
          BY <1>3, <1>5, <1>6, <4>6, <5>1, <5>2, <5>3
      <4>9. view'.pending # <<>> => view'.timer \/ view'.writing # <<>>
        BY <2>5
      <4>10. /\ Consecutive(w \o d, emitted')
             /\ ~view'.reset => /\ Consecutive(p, emitted' - Len(w \o d))
                                /\ Consecutive(screen', emitted' - Len(w \o d) - Len(p))
        BY <1>1, <3>2, <4>2, <4>3, <4>7
      <4>11. QED
        BY <4>4, <4>8, <4>9, <4>10 DEF PartsFollow
    <3>3. QED
      BY <2>5, <3>1, <3>2
  <2>9. QED
    BY <1>7, <2>6, <2>7, <2>8 DEF ViewInv
<1>10. QED
  BY <1>8, <1>9

LEMMA OneErase ==
    /\ <<0>> \in Seq(0 .. MaxEmitted) /\ EraseFirst(<<0>>) /\ <<0>> # <<>> /\ <<0>>[1] = 0
    /\ Terminal!Parsed(<<0>>) = <<>> /\ Len(Terminal!Parsed(<<0>>)) = 0
<1>1. 0 \in 0 .. MaxEmitted
  BY TerminalHolds DEF Terminal!ViewAssumption
<1>2. <<0>> \in Seq(0 .. MaxEmitted) /\ Len(<<0>>) = 1 /\ <<0>>[1] = 0 /\ <<0>> # <<>>
  BY <1>1
<1>3. EraseFirst(<<0>>)
  BY <1>2 DEF EraseFirst
<1>4. Terminal!Parsed(<<0>>) = Tail(<<0>>)
  BY <1>2 DEF Terminal!Parsed, Terminal!Erase
<1>5. Tail(<<0>>) = <<>>
  OBVIOUS
<1>6. QED
  BY <1>2, <1>3, <1>4, <1>5, EmptySeq

LEMMA NothingParsed == Terminal!Parsed(<<>>) = <<>> /\ Len(<<>>) = 0
BY EmptySeq DEF Terminal!Parsed

LEMMA ClearStep ==
    ASSUME ViewInv, Terminal!Clear
    PROVE  ViewInv'
<1>1. /\ transcript' = <<>> /\ clearedAt' = emitted /\ UNCHANGED <<emitted, screen>>
      /\ view' = IF view.shown THEN Terminal!Cleared(view) ELSE view
  BY DEF Terminal!Clear
<1>2. ViewTyped /\ EraseResets /\ emitted \in Nat /\ Limit \in Nat
  <2>1. ViewTyped /\ EraseResets
    BY DEF ViewInv
  <2>2. QED
    BY <2>1, ViewFields, TerminalHolds DEF Terminal!ViewAssumption
<1>3. /\ transcript' \in Seq(1 .. MaxEmitted) /\ Len(transcript') = 0
      /\ \A i \in 1 .. Len(transcript') : FALSE
  BY <1>1, EmptySeq
<1>4. TranscriptLast'
  BY <1>1, <1>2, <1>3 DEF TranscriptLast, Consecutive
<1>5. /\ emitted' \in 0 .. MaxEmitted /\ clearedAt' \in 0 .. emitted'
      /\ screen' \in Seq(1 .. MaxEmitted)
  BY <1>1, <1>2 DEF ViewTyped
<1>6. CASE ~view.shown
  <2>1. ViewTyped' /\ EraseResets' /\ view' = view
    BY <1>1, <1>2, <1>3, <1>5, <1>6 DEF ViewTyped, EraseResets
  <2>2. QED
    BY <1>4, <1>6, <2>1 DEF ViewInv
<1>7. CASE view.shown
  <2> DEFINE u == [view EXCEPT !.pending = <<0>>, !.reset = TRUE]
  <2>1. view' = [u EXCEPT !.timer = u.timer \/ u.writing = <<>>]
    BY <1>1, <1>7 DEF Terminal!Cleared, Terminal!Armed, Terminal!Erase
  <2>2. /\ u \in ViewRecord /\ u.pending = <<0>> /\ u.reset = TRUE /\ u.writing = view.writing
        /\ u.shown = view.shown
    BY <1>2, OneErase DEF ViewTyped, ViewRecord
  <2> HIDE DEF u
  <2>3. /\ view' \in ViewRecord /\ view'.pending = <<0>> /\ view'.reset
        /\ view'.writing = view.writing /\ view'.shown = view.shown
        /\ view'.timer \/ view'.writing # <<>>
    BY <2>1, <2>2 DEF ViewRecord
  <2>4. ViewTyped' /\ EraseResets'
    BY <1>2, <1>3, <1>5, <2>3, OneErase DEF ViewTyped, EraseResets
  <2>5. Ahead' = 0
    BY <2>3, OneErase DEF Ahead
  <2>6. Consecutive(Terminal!Parsed(view'.pending), emitted')
    <3>1. \A i \in 1 .. Len(Terminal!Parsed(view'.pending)) : FALSE
      BY <2>3, OneErase
    <3>2. QED
      BY <3>1 DEF Consecutive
  <2>7. PartsFollow'
    BY <1>1, <1>2, <1>3, <2>3, <2>5, <2>6 DEF PartsFollow
  <2>8. QED
    BY <1>4, <2>4, <2>7 DEF ViewInv
<1>8. QED
  BY <1>6, <1>7

LEMMA MountStep ==
    ASSUME ViewInv, Terminal!Mount
    PROVE  ViewInv'
<1>1. /\ view' = [Terminal!Hidden EXCEPT !.shown = TRUE, !.pending = transcript, !.timer = TRUE]
      /\ screen' = <<>> /\ UNCHANGED <<emitted, clearedAt, transcript>>
  BY DEF Terminal!Mount
<1>2. ViewTyped /\ EraseResets /\ TranscriptLast /\ emitted \in Nat /\ Len(transcript) \in Nat
  <2>1. ViewTyped /\ EraseResets /\ TranscriptLast
    BY DEF ViewInv
  <2>2. QED
    BY <2>1, ViewFields
<1>3. /\ transcript \in Seq(0 .. MaxEmitted) /\ EraseFirst(transcript)
      /\ ~(transcript # <<>> /\ transcript[1] = 0) /\ Terminal!Parsed(transcript) = transcript
  BY <1>2, SeqWider DEF ViewTyped
<1>4. <<>> \in Seq(0 .. MaxEmitted) /\ <<>> \in Seq(1 .. MaxEmitted) /\ Len(<<>>) = 0
      /\ EraseFirst(<<>>)
  BY EmptySeq DEF EraseFirst
<1>5. /\ view' \in ViewRecord /\ view'.shown /\ view'.pending = transcript /\ view'.timer
      /\ ~view'.reset /\ view'.writing = <<>>
  BY <1>1, <1>3, <1>4 DEF Terminal!Hidden, ViewRecord
<1>6. ViewTyped' /\ EraseResets' /\ TranscriptLast'
  BY <1>1, <1>2, <1>3, <1>4, <1>5 DEF ViewTyped, EraseResets, TranscriptLast
<1>7. Ahead' = Len(transcript)
  BY <1>1, <1>2, <1>3, <1>4, <1>5, NothingParsed DEF Ahead
<1>8. \A m \in Int : Consecutive(<<>>, m)
  BY <1>4 DEF Consecutive
<1>9. PartsFollow'
  <2>1. Terminal!Parsed(view'.pending) = transcript /\ Terminal!Parsed(view'.writing) = <<>>
    BY <1>3, <1>5, NothingParsed
  <2>2. emitted - Len(transcript) \in Int /\ emitted - Len(transcript) - Len(<<>>) \in Int
    BY <1>2, <1>4
  <2>3. Consecutive(<<>>, emitted - Len(transcript))
        /\ Consecutive(<<>>, emitted - Len(transcript) - Len(<<>>))
    BY <1>8, <2>2
  <2>4. Len(transcript) <= Ahead' /\ Ahead' <= emitted - clearedAt
    BY <1>2, <1>7 DEF TranscriptLast
  <2>5. Consecutive(transcript, emitted)
    BY <1>2 DEF TranscriptLast
  <2>6. QED
    BY <1>1, <1>5, <2>1, <2>3, <2>4, <2>5 DEF PartsFollow
<1>10. QED
  BY <1>6, <1>9 DEF ViewInv

LEMMA UnmountStep ==
    ASSUME ViewInv, Terminal!Unmount
    PROVE  ViewInv'
<1>1. /\ view' = Terminal!Hidden /\ screen' = <<>>
      /\ UNCHANGED <<emitted, clearedAt, transcript>>
  BY DEF Terminal!Unmount
<1>2. <<>> \in Seq(0 .. MaxEmitted) /\ <<>> \in Seq(1 .. MaxEmitted) /\ Len(<<>>) = 0
      /\ EraseFirst(<<>>)
  BY EmptySeq DEF EraseFirst
<1>3. /\ view' \in ViewRecord /\ ~view'.shown /\ view'.pending = <<>> /\ view'.writing = <<>>
  BY <1>1, <1>2 DEF Terminal!Hidden, ViewRecord
<1>4. QED
  BY <1>1, <1>2, <1>3 DEF ViewInv, ViewTyped, EraseResets, TranscriptLast

\* The next piece is taken from what waits, after the emulator was reset if asked for.
LEMMA PumpStep ==
    ASSUME ViewInv, Terminal!Pump
    PROVE  ViewInv'
<1>1. ViewTyped /\ EraseResets /\ TranscriptLast /\ (view.shown => PartsFollow)
  BY DEF ViewInv
<1>2. UNCHANGED <<emitted, clearedAt, transcript>> /\ TranscriptLast'
  BY <1>1 DEF Terminal!Pump, TranscriptLast
<1>3. /\ view.pending \in Seq(0 .. MaxEmitted) /\ view.writing \in Seq(0 .. MaxEmitted)
      /\ Len(Terminal!Parsed(view.pending)) \in Nat
      /\ Len(Terminal!Parsed(view.writing)) \in Nat
      /\ Len(screen) \in Nat /\ emitted \in Nat /\ clearedAt \in Nat /\ Len(view.pending) \in Nat
  BY <1>1, ViewFields, LenProperties
<1>4. CASE view.writing # <<>> \/ view.pending = <<>>
  <2>1. view' = [view EXCEPT !.timer = FALSE] /\ screen' = screen
    BY <1>4 DEF Terminal!Pump
  <2>2. /\ view' \in ViewRecord /\ view'.pending = view.pending /\ view'.writing = view.writing
        /\ view'.reset = view.reset /\ view'.shown = view.shown
    BY <1>1, <2>1 DEF ViewTyped, ViewRecord
  <2>3. ViewTyped' /\ EraseResets' /\ Ahead' = Ahead
    BY <1>1, <1>2, <2>1, <2>2 DEF ViewTyped, EraseResets, Ahead
  <2>4. view.shown => PartsFollow'
    BY <1>1, <1>2, <1>4, <2>1, <2>2, <2>3 DEF PartsFollow
  <2>5. QED
    BY <1>2, <2>2, <2>3, <2>4 DEF ViewInv
<1>5. CASE ~(view.writing # <<>> \/ view.pending = <<>>)
  <2> DEFINE l == Len(view.pending)
             n == IF l > Piece THEN Piece ELSE l
             a == SubSeq(view.pending, 1, n)
             b == SubSeq(view.pending, n + 1, l)
  <2>1. /\ screen' = IF view.reset THEN <<>> ELSE screen
        /\ view' = [view EXCEPT !.timer = FALSE, !.reset = FALSE, !.writing = a, !.pending = b]
    BY <1>5 DEF Terminal!Pump
  <2>2. l \in Nat \ {0} /\ n \in 1 .. l
    <3>1. l \in Nat \ {0}
      BY <1>3, <1>5, EmptySeq
    <3>2. QED
      BY <3>1, TerminalHolds DEF Terminal!ViewAssumption
  <2>3. EraseFirst(view.pending) /\ view.writing = <<>>
    BY <1>1, <1>5 DEF EraseResets
  <2> HIDE DEF l, n
  <2>4. Cut(view.pending, n, a, b) /\ Len(view.pending) = l
    BY DEF l, Cut
  <2> HIDE DEF a, b
  <2>5. /\ a \in Seq(0 .. MaxEmitted) /\ EraseFirst(a) /\ a # <<>>
        /\ b \in Seq(0 .. MaxEmitted) /\ EraseFirst(b)
        /\ ~(b # <<>> /\ b[1] = 0) /\ Terminal!Parsed(b) = b
    <3>1. CASE view.shown
      BY <1>1, <1>3, <2>2, <2>3, <2>4, <3>1, ParsedSplit DEF PartsFollow
    <3>2. CASE ~view.shown
      BY <1>3, <2>2, <2>3, <2>4, PieceTaken
    <3>3. QED
      BY <3>1, <3>2
  <2>6. /\ view' \in ViewRecord /\ view'.pending = b /\ view'.writing = a
        /\ ~view'.reset /\ view'.shown = view.shown
    BY <1>1, <2>1, <2>5 DEF ViewTyped, ViewRecord
  <2>7. screen' \in Seq(1 .. MaxEmitted)
    BY <1>1, <2>1, EmptySeq DEF ViewTyped
  <2>8. ViewTyped' /\ EraseResets'
    BY <1>1, <1>2, <2>5, <2>6, <2>7 DEF ViewTyped, EraseResets
  <2>9. ASSUME view.shown
        PROVE  PartsFollow'
    <3> DEFINE w == Terminal!Parsed(view.pending)
               p == Terminal!Parsed(a)
    <3>1. /\ Consecutive(w, emitted) /\ Len(w) \in Nat
          /\ ~view.reset => Consecutive(screen, emitted - Len(w))
          /\ Len(transcript) <= Ahead /\ Ahead <= emitted - clearedAt
          /\ Ahead = Len(w) + IF view.reset THEN 0 ELSE Len(screen)
      <4>1. Terminal!Parsed(view.writing) = <<>> /\ Len(<<>>) = 0
        BY <2>3, NothingParsed
      <4>2. /\ Consecutive(w, emitted)
            /\ ~view.reset =>
                   Consecutive(screen, emitted - Len(w) - Len(Terminal!Parsed(view.writing)))
            /\ Len(transcript) <= Ahead /\ Ahead <= emitted - clearedAt
        BY <1>1, <2>9 DEF PartsFollow
      <4>3. emitted - Len(w) - 0 = emitted - Len(w) /\ 0 + Len(screen) = Len(screen)
        BY <1>3
      <4>4. Ahead = Len(w) + IF view.reset THEN 0 ELSE Len(screen)
        <5>1. Ahead = Len(w) + IF view.reset THEN 0 ELSE 0 + Len(screen)
          BY <4>1 DEF Ahead
        <5>2. QED
          BY <4>3, <5>1
      <4>5. Len(Terminal!Parsed(view.writing)) = 0
        BY <4>1
      <4>6. QED
        BY <1>3, <4>2, <4>3, <4>4, <4>5
    <3>2. /\ Consecutive(b, emitted) /\ Consecutive(p, emitted - Len(b))
          /\ Len(p) \in Nat /\ Len(b) \in Nat /\ Len(p) + Len(b) = Len(w)
      BY <1>3, <2>2, <2>3, <2>4, <3>1, ParsedSplit
    <3>3. Terminal!Parsed(view'.pending) = b /\ Terminal!Parsed(view'.writing) = p
      BY <2>5, <2>6
    <3> HIDE DEF w, p
    <3>4. Ahead' = Len(b) + (Len(p) + Len(screen'))
      BY <2>6, <3>3 DEF Ahead
    <3>5. /\ Ahead' = Ahead
          /\ Consecutive(screen', emitted - Len(b) - Len(p))
      <4>1. CASE view.reset
        <5>1. screen' = <<>> /\ Len(screen') = 0 /\ Ahead = Len(w) + 0
          BY <2>1, <3>1, <4>1, EmptySeq
        <5>2. Consecutive(screen', emitted - Len(b) - Len(p))
          BY <5>1 DEF Consecutive
        <5>3. QED
          BY <3>1, <3>2, <3>4, <5>1, <5>2
      <4>2. CASE ~view.reset
        <5>1. screen' = screen /\ Ahead = Len(w) + Len(screen)
              /\ Consecutive(screen, emitted - Len(w))
          BY <2>1, <3>1, <4>2
        <5>2. emitted - Len(b) - Len(p) = emitted - Len(w)
          BY <1>3, <3>2
        <5>3. Ahead' = Ahead
          BY <1>3, <3>2, <3>4, <5>1
        <5>4. QED
          BY <5>1, <5>2, <5>3
      <4>3. QED
        BY <4>1, <4>2
    <3>6. QED
      BY <1>2, <2>5, <2>6, <3>1, <3>2, <3>3, <3>5 DEF PartsFollow
  <2>10. QED
    BY <1>2, <2>6, <2>8, <2>9 DEF ViewInv
<1>6. QED
  BY <1>4, <1>5

\* The piece that was parsed joins the screen, and a timer waits for the rest.
LEMMA WrittenStep ==
    ASSUME ViewInv, Terminal!Written
    PROVE  ViewInv'
<1> DEFINE w == Terminal!Parsed(view.pending)
           p == Terminal!Parsed(view.writing)
<1>1. ViewTyped /\ EraseResets /\ TranscriptLast /\ (view.shown => PartsFollow)
  BY DEF ViewInv
<1>2. /\ screen' = screen \o p
      /\ view' = [view EXCEPT !.writing = <<>>, !.timer = view.pending # <<>>]
      /\ UNCHANGED <<emitted, clearedAt, transcript>>
  BY DEF Terminal!Written
<1>3. /\ w \in Seq(1 .. MaxEmitted) /\ p \in Seq(1 .. MaxEmitted)
      /\ Len(w) \in Nat /\ Len(p) \in Nat /\ Len(screen) \in Nat
      /\ emitted \in Nat /\ clearedAt \in Nat
  BY <1>1, ViewFields
<1>4. screen \in Seq(1 .. MaxEmitted) /\ view \in ViewRecord
  BY <1>1 DEF ViewTyped
<1>5. /\ view' \in ViewRecord /\ view'.pending = view.pending /\ view'.writing = <<>>
      /\ view'.reset = view.reset /\ view'.shown = view.shown
      /\ view'.timer = (view.pending # <<>>)
  <2>1. <<>> \in Seq(0 .. MaxEmitted) /\ (view.pending # <<>>) \in BOOLEAN
    BY EmptySeq
  <2>2. QED
    BY <1>2, <1>4, <2>1 DEF ViewRecord
<1>6. /\ screen' \in Seq(1 .. MaxEmitted) /\ Len(screen') = Len(screen) + Len(p)
  BY <1>2, <1>3, <1>4, ConcatProperties
<1>7. ViewTyped' /\ TranscriptLast'
  BY <1>1, <1>2, <1>5, <1>6 DEF ViewTyped, TranscriptLast
<1>8. EraseResets'
  <2>1. EraseFirst(<<>>)
    BY EmptySeq DEF EraseFirst
  <2>2. QED
    BY <1>1, <1>5, <2>1 DEF EraseResets
<1>9. ASSUME view.shown
      PROVE  PartsFollow'
  <2>1. /\ Consecutive(w, emitted)
        /\ ~view.reset => /\ Consecutive(p, emitted - Len(w))
                          /\ Consecutive(screen, emitted - Len(w) - Len(p))
        /\ Len(transcript) <= Ahead /\ Ahead <= emitted - clearedAt
    BY <1>1, <1>9 DEF PartsFollow
  <2>2. Ahead = Len(w) + IF view.reset THEN 0 ELSE Len(p) + Len(screen)
    BY DEF Ahead
  <2>3. /\ Terminal!Parsed(view'.pending) = w /\ Terminal!Parsed(view'.writing) = <<>>
        /\ Len(<<>>) = 0
    BY <1>5, NothingParsed
  <2> HIDE DEF w, p
  <2>4. Ahead' = Len(w) + IF view.reset THEN 0 ELSE Len(<<>>) + Len(screen')
    BY <1>5, <2>3 DEF Ahead
  <2>5. Len(<<>>) + Len(screen') = Len(p) + Len(screen)
    BY <1>3, <1>6, <2>3
  <2>6. Ahead' = Ahead
    BY <2>2, <2>4, <2>5
  <2>7. ASSUME ~view.reset
        PROVE  /\ Consecutive(<<>>, emitted - Len(w))
               /\ Consecutive(screen', emitted - Len(w) - Len(<<>>))
    <3>1. /\ emitted - Len(w) \in Int /\ emitted - Len(w) - Len(p) \in Int
          /\ emitted - Len(w) = (emitted - Len(w) - Len(p)) + Len(p)
          /\ emitted - Len(w) - Len(<<>>) = emitted - Len(w)
      BY <1>3, <2>3
    <3>2. Consecutive(p, emitted - Len(w)) /\ Consecutive(screen, emitted - Len(w) - Len(p))
      BY <2>1, <2>7
    <3>3. Consecutive(screen \o p, emitted - Len(w))
      BY <1>3, <1>4, <3>1, <3>2, ConsecutiveConcat
    <3>4. Consecutive(<<>>, emitted - Len(w))
      BY <2>3 DEF Consecutive
    <3>5. QED
      BY <1>2, <3>1, <3>3, <3>4
  <2>8. QED
    BY <1>2, <1>5, <2>1, <2>3, <2>6, <2>7 DEF PartsFollow
<1>10. QED
  BY <1>5, <1>7, <1>8, <1>9 DEF ViewInv

LEMMA ViewInit == Terminal!Init => ViewInv
<1>1. SUFFICES ASSUME Terminal!Init
               PROVE  ViewInv
  OBVIOUS
<1>2. <<>> \in Seq(0 .. MaxEmitted) /\ <<>> \in Seq(1 .. MaxEmitted) /\ Len(<<>>) = 0
      /\ EraseFirst(<<>>)
  BY EmptySeq DEF EraseFirst
<1>3. 0 \in 0 .. MaxEmitted /\ Limit \in Nat
  BY TerminalHolds DEF Terminal!ViewAssumption
<1>4. /\ emitted = 0 /\ clearedAt = 0 /\ transcript = <<>> /\ screen = <<>>
      /\ view = Terminal!Hidden
  BY <1>1 DEF Terminal!Init
<1>5. /\ view \in ViewRecord /\ ~view.shown /\ view.pending = <<>> /\ view.writing = <<>>
  BY <1>2, <1>4 DEF Terminal!Hidden, ViewRecord
<1>6. ViewTyped /\ EraseResets
  BY <1>2, <1>3, <1>4, <1>5 DEF ViewTyped, EraseResets
<1>7. Consecutive(<<>>, 0)
  BY <1>2 DEF Consecutive
<1>8. TranscriptLast
  BY <1>2, <1>3, <1>4, <1>7 DEF TranscriptLast
<1>9. QED
  BY <1>5, <1>6, <1>8 DEF ViewInv

LEMMA ViewStep == ViewInv /\ [Terminal!Next]_(Terminal!viewVars) => ViewInv'
<1>1. SUFFICES ASSUME ViewInv, [Terminal!Next]_(Terminal!viewVars)
               PROVE  ViewInv'
  OBVIOUS
<1>2. CASE \E n \in 1 .. Burst : Terminal!Output(n)
  BY <1>1, <1>2, OutputStep
<1>3. CASE Terminal!Clear
  BY <1>1, <1>3, ClearStep
<1>4. CASE Terminal!Mount
  BY <1>1, <1>4, MountStep
<1>5. CASE Terminal!Unmount
  BY <1>1, <1>5, UnmountStep
<1>6. CASE Terminal!Pump
  BY <1>1, <1>6, PumpStep
<1>7. CASE Terminal!Written
  BY <1>1, <1>7, WrittenStep
<1>8. CASE UNCHANGED Terminal!viewVars
  BY <1>1, <1>8 DEF Terminal!viewVars, ViewInv, ViewTyped, EraseResets, TranscriptLast,
                    PartsFollow, Ahead
<1>9. QED
  BY <1>1, <1>2, <1>3, <1>4, <1>5, <1>6, <1>7, <1>8 DEF Terminal!Next

\* The three parts put together are the screen that is coming.
LEMMA ViewFollows == ViewInv => Terminal!TypeOK /\ Terminal!ScreenFollows
<1>1. SUFFICES ASSUME ViewInv
               PROVE  Terminal!TypeOK /\ Terminal!ScreenFollows
  OBVIOUS
<1>2. ViewTyped /\ EraseResets /\ TranscriptLast /\ (view.shown => PartsFollow)
  BY <1>1 DEF ViewInv
<1>3. Terminal!TypeOK
  BY <1>2 DEF ViewTyped, ViewRecord, TranscriptLast, Terminal!TypeOK
<1>4. ASSUME view.shown
      PROVE  /\ Terminal!Coming = [i \in 1 .. Len(Terminal!Coming) |->
                                       emitted - Len(Terminal!Coming) + i]
             /\ Len(transcript) <= Len(Terminal!Coming)
             /\ Len(Terminal!Coming) <= emitted - clearedAt
             /\ view.pending # <<>> => view.timer \/ view.writing # <<>>
  <2> DEFINE w == Terminal!Parsed(view.pending)
             p == Terminal!Parsed(view.writing)
  <2>1. /\ w \in Seq(1 .. MaxEmitted) /\ p \in Seq(1 .. MaxEmitted)
        /\ Len(w) \in Nat /\ Len(p) \in Nat /\ Len(screen) \in Nat
        /\ emitted \in Nat /\ clearedAt \in Nat /\ screen \in Seq(1 .. MaxEmitted)
    BY <1>2, ViewFields DEF ViewTyped
  <2>2. /\ Consecutive(w, emitted)
        /\ ~view.reset => /\ Consecutive(p, emitted - Len(w))
                          /\ Consecutive(screen, emitted - Len(w) - Len(p))
        /\ Len(transcript) <= Ahead /\ Ahead <= emitted - clearedAt
        /\ view.pending # <<>> => view.timer \/ view.writing # <<>>
    BY <1>2, <1>4 DEF PartsFollow
  <2>3. Ahead = Len(w) + IF view.reset THEN 0 ELSE Len(p) + Len(screen)
    BY DEF Ahead
  <2>4. Terminal!Coming = IF view.reset THEN w ELSE (screen \o p) \o w
    BY DEF Terminal!Coming
  <2> HIDE DEF w, p
  <2>5. /\ Consecutive(Terminal!Coming, emitted) /\ Terminal!Coming \in Seq(1 .. MaxEmitted)
        /\ Len(Terminal!Coming) = Ahead
    <3>1. CASE view.reset
      BY <2>1, <2>2, <2>3, <2>4, <3>1
    <3>2. CASE ~view.reset
      <4>1. /\ emitted - Len(w) \in Int /\ emitted - Len(w) - Len(p) \in Int /\ emitted \in Int
            /\ emitted - Len(w) = (emitted - Len(w) - Len(p)) + Len(p)
            /\ emitted = (emitted - Len(w)) + Len(w)
        BY <2>1
      <4>2. Consecutive(p, emitted - Len(w)) /\ Consecutive(screen, emitted - Len(w) - Len(p))
        BY <2>2, <3>2
      <4>3. /\ Consecutive(screen \o p, emitted - Len(w)) /\ screen \o p \in Seq(1 .. MaxEmitted)
            /\ Len(screen \o p) = Len(screen) + Len(p)
        BY <2>1, <4>1, <4>2, ConsecutiveConcat
      <4>4. /\ Consecutive((screen \o p) \o w, emitted)
            /\ (screen \o p) \o w \in Seq(1 .. MaxEmitted)
            /\ Len((screen \o p) \o w) = Len(screen \o p) + Len(w)
        BY <2>1, <2>2, <4>1, <4>3, ConsecutiveConcat
      <4>5. Ahead = Len(w) + (Len(p) + Len(screen))
        BY <2>3, <3>2
      <4>6. Len(screen) + Len(p) + Len(w) = Ahead
        BY <2>1, <4>5
      <4>7. QED
        BY <2>4, <3>2, <4>3, <4>4, <4>6
    <3>3. QED
      BY <3>1, <3>2
  <2>6. Terminal!Coming = [i \in 1 .. Len(Terminal!Coming) |->
                               emitted - Len(Terminal!Coming) + i]
    <3> DEFINE c == Terminal!Coming
    <3> HIDE DEF c
    <3>1. c \in [1 .. Len(c) -> 1 .. MaxEmitted]
      BY <2>5, LenProperties DEF c
    <3>2. \A i \in 1 .. Len(c) : c[i] = emitted - Len(c) + i
      BY <2>5 DEF Consecutive, c
    <3>3. c = [i \in 1 .. Len(c) |-> emitted - Len(c) + i]
      BY <3>1, <3>2
    <3>4. QED
      BY <3>3 DEF c
  <2>7. QED
    BY <2>2, <2>5, <2>6
<1>5. Terminal!ScreenFollows
  BY <1>4 DEF Terminal!ScreenFollows
<1>6. QED
  BY <1>3, <1>5

\* The shapes of the view, the transcript and the screen, and that the screen ends up
\* as an unbroken tail of the output since the last clear, no shorter than the
\* transcript, and is never left waiting without a timer or a write that goes on,
\* for every limit, piece and burst.
THEOREM ViewSafe == Terminal!Spec => [](Terminal!TypeOK /\ Terminal!ScreenFollows)
<1>1. Terminal!Init => ViewInv
  BY ViewInit
<1>2. ViewInv /\ [Terminal!Next]_(Terminal!viewVars) => ViewInv'
  BY ViewStep
<1>3. ViewInv => Terminal!TypeOK /\ Terminal!ScreenFollows
  BY ViewFollows
<1>4. QED
  BY <1>1, <1>2, <1>3, PTL DEF Terminal!Spec

\* A session of the terminal in the page is a behaviour of the view.
LEMMA ViewOfPage == Spec => Terminal!Spec
<1>1. Init => Terminal!Init
  BY DEF Init
<1>2. [Next]_<<focus, adbVars, uploadVars, fileVars, commandVars, listVars,
               mailVars, viewVars, chatVars, sheetVars, remoteVars>>
      => [Terminal!Next]_viewVars
  BY DEF Next
<1>3. Terminal!Spec <=> Terminal!Init /\ [][Terminal!Next]_viewVars
  BY DEF Terminal!Spec, Terminal!viewVars, viewVars
<1>4. QED
  BY <1>1, <1>2, <1>3, PTL DEF Spec

\* In the page, whatever arrives, is cleared or overflows while a piece is being parsed,
\* the screen ends up as the output since the last clear.
THEOREM ScreenFollowsAlways == Spec => []ScreenFollows
<1>1. ScreenFollows <=> Terminal!ScreenFollows
  BY DEF ScreenFollows
<1>2. QED
  BY <1>1, ViewOfPage, ViewSafe, PTL

-----------------------------------------------------------------------------
(* The assistant *)

EventRecord == [kind : {"text", "sources", "error", "done"}, attempt : Nat, n : 0 .. Chunks]

TurnRecord ==
    [text : Seq(EventRecord), state : {"loading", "shown", "answered", "failed"}]

RouteRecord ==
    [pc : {"none", "calling", "ended"}, provider : 0 .. Providers, retry : 0 .. Retries,
     attempt : Nat, emitted : 0 .. Chunks]

Carriable == UNION {[D -> TurnRecord] : D \in SUBSET Nat}

ChatTyped ==
    /\ chat \in Seq(TurnRecord) /\ carried \in Seq(Carriable) /\ events \in Seq(EventRecord)
    /\ thinking \in BOOLEAN /\ reading \in BOOLEAN /\ broken \in BOOLEAN
    /\ route \in RouteRecord

\* A stream as one attempt makes it: its text comes first and in order, and it is done
\* when an error or the whole text came before.
OneAttempt(e, attempt) ==
    \A i \in 1 .. Len(e) :
        /\ e[i].kind = "text" =>
               /\ e[i].n = i /\ i <= Chunks /\ e[i].attempt = attempt
               /\ \A j \in 1 .. i : e[j].kind = "text"
        /\ e[i].kind = "done" => i = Len(e)
        /\ e[i].kind = "done" =>
               \/ \E j \in 1 .. i - 1 : e[j].kind = "error"
               \/ Chunks <= i - 1 /\ \A j \in 1 .. Chunks : e[j].kind = "text"

\* f is w and then s.
Extends(w, f, s) ==
    /\ Len(f) = Len(w) + Len(s)
    /\ \A i \in 1 .. Len(w) : f[i] = w[i]
    /\ \A i \in 1 .. Len(s) : f[Len(w) + i] = s[i]

AllText(w) == \A i \in 1 .. Len(w) : w[i].kind = "text"

\* What was read of the stream and what was not.
Whole == chat[Len(chat)].text \o events

\* A turn that is over.
Over(t) ==
    /\ t.state \in {"answered", "failed"}
    /\ \A k \in Assistant!Words(t) : t.text[k].attempt = t.text[1].attempt /\ t.text[k].n = k
    /\ t.state = "answered" => Assistant!Words(t) = 1 .. Chunks

TurnsOver == \A i \in 1 .. Len(chat) : ~(thinking /\ i = Len(chat)) => Over(chat[i])

\* What is carried are turns that were answered.
CarriedAnswered ==
    \A q \in 1 .. Len(carried) : \A k \in DOMAIN carried[q] :
        Assistant!Answered(carried[q][k]) /\ Assistant!Words(carried[q][k]) = 1 .. Chunks

\* The answer being read.
OpenTurn ==
    LET t == chat[Len(chat)]
    IN /\ Len(chat) # 0 /\ t.state \in {"loading", "shown"}
       /\ OneAttempt(Whole, route.attempt)
       /\ route.pc = "calling" =>
              Len(Whole) = route.emitted /\ AllText(Whole)
       /\ (\E i \in 1 .. Len(t.text) : t.text[i].kind = "error") => reading

ChatInv == ChatTyped /\ TurnsOver /\ CarriedAnswered /\ (thinking => OpenTurn)

-----------------------------------------------------------------------------

LEMMA HeadMoved ==
    ASSUME NEW S, NEW t \in Seq(S), NEW e \in Seq(S), e # <<>>
    PROVE  /\ Head(e) \in S /\ Tail(e) \in Seq(S) /\ Append(t, Head(e)) \in Seq(S)
           /\ Append(t, Head(e)) \o Tail(e) = t \o e
           /\ Len(t) \in Nat /\ Len(Append(t, Head(e))) = Len(t) + 1
           /\ (t \o e)[Len(t) + 1] = Head(e) /\ Len(t) + 1 \in 1 .. Len(t \o e)
           /\ \A i \in 1 .. Len(t) : Append(t, Head(e))[i] = t[i]
           /\ Append(t, Head(e))[Len(t) + 1] = Head(e)
<1> DEFINE a == Append(t, Head(e))
<1>1. /\ Len(t) \in Nat /\ Len(e) \in Nat \ {0} /\ Head(e) \in S /\ Head(e) = e[1]
      /\ Tail(e) \in Seq(S) /\ Len(Tail(e)) = Len(e) - 1
      /\ \A i \in 1 .. Len(e) - 1 : Tail(e)[i] = e[i + 1]
  BY HeadTailProperties, EmptySeq, LenProperties
<1>2. /\ a \in Seq(S) /\ Len(a) = Len(t) + 1 /\ a[Len(t) + 1] = Head(e)
      /\ \A i \in 1 .. Len(t) : a[i] = t[i]
  BY <1>1, AppendProperties
<1>3. /\ t \o e \in Seq(S) /\ Len(t \o e) = Len(t) + Len(e)
      /\ \A i \in 1 .. Len(t) + Len(e) :
             (t \o e)[i] = IF i <= Len(t) THEN t[i] ELSE e[i - Len(t)]
  BY <1>1, ConcatProperties
<1> HIDE DEF a
<1>4. /\ a \o Tail(e) \in Seq(S) /\ Len(a \o Tail(e)) = Len(a) + Len(Tail(e))
      /\ \A i \in 1 .. Len(a) + Len(Tail(e)) :
             (a \o Tail(e))[i] = IF i <= Len(a) THEN a[i] ELSE Tail(e)[i - Len(a)]
  BY <1>1, <1>2, ConcatProperties
<1>5. Len(a \o Tail(e)) = Len(t \o e)
  BY <1>1, <1>2, <1>3, <1>4
<1>6. ASSUME NEW i \in 1 .. Len(t \o e)
      PROVE  (a \o Tail(e))[i] = (t \o e)[i]
  <2>1. i \in 1 .. Len(t) + Len(e) /\ i \in 1 .. Len(a) + Len(Tail(e))
    BY <1>1, <1>2, <1>3
  <2>2. CASE i <= Len(t)
    BY <1>1, <1>2, <1>3, <1>4, <2>1, <2>2
  <2>3. CASE i = Len(t) + 1
    <3>1. i - Len(t) = 1 /\ ~(i <= Len(t)) /\ i <= Len(a)
      BY <1>1, <1>2, <2>3
    <3>2. (t \o e)[i] = e[i - Len(t)] /\ (a \o Tail(e))[i] = a[i]
      BY <1>3, <1>4, <2>1, <3>1
    <3>3. QED
      BY <1>1, <1>2, <2>3, <3>1, <3>2
  <2>4. CASE i > Len(t) + 1
    <3>1. /\ ~(i <= Len(t)) /\ ~(i <= Len(a)) /\ i - Len(a) \in 1 .. Len(e) - 1
          /\ (i - Len(a)) + 1 = i - Len(t)
      BY <1>1, <1>2, <2>1, <2>4
    <3>2. (t \o e)[i] = e[i - Len(t)] /\ (a \o Tail(e))[i] = Tail(e)[i - Len(a)]
      BY <1>3, <1>4, <2>1, <3>1
    <3>3. Tail(e)[i - Len(a)] = e[(i - Len(a)) + 1]
      BY <1>1, <3>1
    <3>4. QED
      BY <3>1, <3>2, <3>3
  <2>5. QED
    BY <1>1, <2>1, <2>2, <2>3, <2>4
<1>7. a \o Tail(e) = t \o e
  BY <1>3, <1>4, <1>5, <1>6, SeqEqual
<1>8. (t \o e)[Len(t) + 1] = Head(e) /\ Len(t) + 1 \in 1 .. Len(t \o e)
  <2>1. Len(t) + 1 \in 1 .. Len(t) + Len(e) /\ ~(Len(t) + 1 <= Len(t))
        /\ (Len(t) + 1) - Len(t) = 1
    BY <1>1
  <2>2. (t \o e)[Len(t) + 1] = e[(Len(t) + 1) - Len(t)]
    BY <1>3, <2>1
  <2>3. QED
    BY <1>1, <1>3, <2>1, <2>2
<1>9. QED
  BY <1>1, <1>2, <1>7, <1>8 DEF a

\* A stream that is cut short is a beginning of what it was.
LEMMA CutShort ==
    ASSUME NEW S, NEW t \in Seq(S), NEW e \in Seq(S), NEW k \in 0 .. Len(e),
           NEW c, c = SubSeq(e, 1, k)
    PROVE  /\ c \in Seq(S) /\ t \o c \in Seq(S)
           /\ Len(t \o c) \in Nat /\ Len(t \o e) \in Nat /\ Len(t \o c) <= Len(t \o e)
           /\ Len(t \o c) = Len(t \o e) \/ Len(t \o c) < Len(t \o e)
           /\ \A i \in 1 .. Len(t \o c) : (t \o c)[i] = (t \o e)[i]
<1>1. /\ Len(t) \in Nat /\ Len(e) \in Nat /\ \A i \in 1 .. Len(e) : e[i] \in S
  BY LenProperties, ElementOfSeq
<1>2. /\ c \in Seq(S) /\ Len(c) = k /\ k \in Nat /\ \A i \in 1 .. k : c[i] = e[i]
  <2>1. k \in Int /\ 1 \in Int /\ \A i \in 1 .. k : e[i] \in S
    BY <1>1
  <2>2. /\ SubSeq(e, 1, k) \in Seq(S)
        /\ Len(SubSeq(e, 1, k)) = IF 1 <= k THEN k - 1 + 1 ELSE 0
        /\ \A i \in 1 .. k - 1 + 1 : SubSeq(e, 1, k)[i] = e[1 + i - 1]
    BY <2>1, SubSeqProperties
  <2>3. k \in Nat /\ \A i \in 1 .. k : i \in 1 .. k - 1 + 1 /\ 1 + i - 1 = i
    BY <1>1
  <2>4. Len(c) = k
    BY <1>1, <2>2, <2>3
  <2>5. \A i \in 1 .. k : c[i] = e[i]
    BY <2>2, <2>3
  <2>6. QED
    BY <2>2, <2>3, <2>4, <2>5
<1>3. /\ t \o c \in Seq(S) /\ Len(t \o c) = Len(t) + k
      /\ \A i \in 1 .. Len(t) + k : (t \o c)[i] = IF i <= Len(t) THEN t[i] ELSE c[i - Len(t)]
  BY <1>2, ConcatProperties
<1>4. /\ Len(t \o e) = Len(t) + Len(e)
      /\ \A i \in 1 .. Len(t) + Len(e) :
             (t \o e)[i] = IF i <= Len(t) THEN t[i] ELSE e[i - Len(t)]
  BY <1>1, ConcatProperties
<1>5. ASSUME NEW i \in 1 .. Len(t) + k
      PROVE  (t \o c)[i] = (t \o e)[i]
  <2>1. i \in 1 .. Len(t) + Len(e) /\ (~(i <= Len(t)) => i - Len(t) \in 1 .. k)
    BY <1>1, <1>2
  <2>2. CASE i <= Len(t)
    BY <1>3, <1>4, <2>1, <2>2
  <2>3. CASE ~(i <= Len(t))
    <3>1. (t \o c)[i] = c[i - Len(t)] /\ (t \o e)[i] = e[i - Len(t)]
      BY <1>3, <1>4, <2>1, <2>3
    <3>2. c[i - Len(t)] = e[i - Len(t)]
      BY <1>2, <2>1, <2>3
    <3>3. QED
      BY <3>1, <3>2
  <2>4. QED
    BY <2>2, <2>3
<1>6. Len(t \o c) \in Nat /\ Len(t \o e) \in Nat /\ Len(t \o c) <= Len(t \o e)
  BY <1>1, <1>2, <1>3, <1>4
<1>7. QED
  BY <1>2, <1>3, <1>5, <1>6

\* What is sent comes after what was there.
LEMMA SentAfter ==
    ASSUME NEW S, NEW t \in Seq(S), NEW e \in Seq(S), NEW s \in Seq(S)
    PROVE  /\ e \o s \in Seq(S) /\ t \o (e \o s) \in Seq(S)
           /\ Len(t \o e) \in Nat /\ Len(s) \in Nat
           /\ Extends(t \o e, t \o (e \o s), s)
<1>1. Len(t) \in Nat /\ Len(e) \in Nat /\ Len(s) \in Nat
  BY LenProperties
<1>2. /\ t \o e \in Seq(S) /\ Len(t \o e) = Len(t) + Len(e)
  BY ConcatProperties
<1>3. /\ (t \o e) \o s \in Seq(S) /\ Len((t \o e) \o s) = Len(t \o e) + Len(s)
      /\ \A i \in 1 .. Len(t \o e) + Len(s) :
             ((t \o e) \o s)[i] = IF i <= Len(t \o e) THEN (t \o e)[i] ELSE s[i - Len(t \o e)]
  BY <1>2, ConcatProperties
<1>4. t \o (e \o s) = (t \o e) \o s /\ e \o s \in Seq(S)
  BY ConcatAssociative, ConcatProperties
<1>5. ASSUME NEW i \in 1 .. Len(s)
      PROVE  ((t \o e) \o s)[Len(t \o e) + i] = s[i]
  <2>1. /\ Len(t \o e) + i \in 1 .. Len(t \o e) + Len(s) /\ ~(Len(t \o e) + i <= Len(t \o e))
        /\ (Len(t \o e) + i) - Len(t \o e) = i
    BY <1>1, <1>2
  <2>2. QED
    BY <1>3, <2>1
<1>6. \A i \in 1 .. Len(t \o e) : ((t \o e) \o s)[i] = (t \o e)[i]
  BY <1>1, <1>2, <1>3
<1>7. QED
  BY <1>1, <1>2, <1>3, <1>4, <1>5, <1>6 DEF Extends

\* The last turn is replaced.
LEMMA LastReplaced ==
    ASSUME NEW S, NEW q \in Seq(S), Len(q) # 0, NEW t \in S, NEW c, c = [q EXCEPT ![Len(q)] = t]
    PROVE  /\ c \in Seq(S) /\ Len(c) = Len(q) /\ c[Len(q)] = t
           /\ \A i \in 1 .. Len(q) : i # Len(q) => c[i] = q[i]
<1>1. Len(q) \in Nat \ {0} /\ Len(q) \in 1 .. Len(q) /\ q \in [1 .. Len(q) -> S]
  BY LenProperties
<1>2. c \in [1 .. Len(q) -> S] /\ c[Len(q)] = t /\ \A i \in 1 .. Len(q) : i # Len(q) => c[i] = q[i]
  BY <1>1
<1>3. c \in Seq(S)
  <2> DEFINE n == Len(q)
  <2>1. n \in Nat /\ c \in [1 .. n -> S]
    BY <1>1, <1>2
  <2> HIDE DEF n
  <2>2. QED
    BY <2>1, SeqDef
<1>4. Len(c) \in Nat /\ c \in [1 .. Len(c) -> S]
  BY <1>3, LenProperties
<1>5. Len(c) = Len(q)
  <2>1. DOMAIN c = 1 .. Len(q)
    BY <1>2
  <2>2. DOMAIN c = 1 .. Len(c)
    BY <1>4
  <2>3. QED
    BY <1>1, <1>4, <2>1, <2>2
<1>6. QED
  BY <1>2, <1>3, <1>5

LEMMA TurnFields ==
    ASSUME NEW t \in TurnRecord
    PROVE  t.text \in Seq(EventRecord) /\ t.state \in {"loading", "shown", "answered", "failed"}
BY DEF TurnRecord

LEMMA TurnMade ==
    ASSUME NEW s \in Seq(EventRecord), NEW k \in {"loading", "shown", "answered", "failed"}
    PROVE  /\ [text |-> s, state |-> k] \in TurnRecord
           /\ [text |-> s, state |-> k].text = s /\ [text |-> s, state |-> k].state = k
BY DEF TurnRecord

LEMMA RouteFields ==
    ASSUME NEW r \in RouteRecord
    PROVE  /\ r.pc \in {"none", "calling", "ended"} /\ r.provider \in 0 .. Providers
           /\ r.retry \in 0 .. Retries /\ r.attempt \in Nat /\ r.emitted \in 0 .. Chunks
BY DEF RouteRecord

\* The answer that is read, and the rest of the stream.
LEMMA OpenFields ==
    ASSUME ChatTyped, Len(chat) # 0
    PROVE  /\ Len(chat) \in Nat \ {0} /\ Len(chat) \in 1 .. Len(chat)
           /\ chat[Len(chat)] \in TurnRecord
           /\ chat[Len(chat)].text \in Seq(EventRecord) /\ events \in Seq(EventRecord)
           /\ Whole \in Seq(EventRecord) /\ Len(Whole) \in Nat
<1>1. chat \in Seq(TurnRecord) /\ events \in Seq(EventRecord)
  BY DEF ChatTyped
<1>2. Len(chat) \in Nat \ {0} /\ Len(chat) \in 1 .. Len(chat) /\ chat[Len(chat)] \in TurnRecord
  BY <1>1, LenProperties, ElementOfSeq
<1>3. chat[Len(chat)].text \in Seq(EventRecord)
  BY <1>2, TurnFields
<1>4. Whole \in Seq(EventRecord) /\ Len(Whole) \in Nat
  <2>1. Whole \in Seq(EventRecord)
    BY <1>1, <1>3, ConcatProperties DEF Whole
  <2>2. QED
    BY <2>1, LenProperties
<1>5. QED
  BY <1>1, <1>2, <1>3, <1>4

-----------------------------------------------------------------------------

\* One more piece of the text.
LEMMA TextSent ==
    ASSUME NEW w, NEW f, NEW s, NEW a, Extends(w, f, s), AllText(w), OneAttempt(w, a),
           Len(w) \in Nat, Len(w) < Chunks, Len(s) = 1,
           s[1].kind = "text", s[1].attempt = a, s[1].n = Len(w) + 1
    PROVE  OneAttempt(f, a) /\ AllText(f) /\ Len(f) = Len(w) + 1
<1> DEFINE l == Len(w)
<1>0. /\ l \in Nat /\ Len(w) = l /\ Len(f) = l + 1 /\ l < Chunks
      /\ (\A i \in 1 .. l : f[i] = w[i]) /\ (\A i \in 1 .. l : w[i].kind = "text")
      /\ f[l + 1].kind = "text" /\ f[l + 1].attempt = a /\ f[l + 1].n = l + 1
  <2>1. Len(f) = l + 1 /\ 1 \in 1 .. Len(s) /\ \A i \in 1 .. l : f[i] = w[i]
    BY DEF Extends
  <2>2. f[l + 1] = s[1]
    BY <2>1 DEF Extends
  <2>3. QED
    BY <2>1, <2>2 DEF AllText
<1> HIDE DEF l
<1>1. Chunks \in Nat
  BY AssistantHolds DEF Assistant!ChatAssumption
<1>2. \A i \in 1 .. l + 1 : i \in 1 .. l \/ i = l + 1
  BY <1>0
<1>3. \A i \in 1 .. l + 1 : f[i].kind = "text"
  BY <1>0, <1>2
<1>4. ASSUME NEW i \in 1 .. l + 1
      PROVE  f[i].n = i /\ i <= Chunks /\ f[i].attempt = a /\ \A j \in 1 .. i : f[j].kind = "text"
  <2>1. i <= Chunks /\ \A j \in 1 .. i : j \in 1 .. l + 1
    BY <1>0, <1>1
  <2>2. CASE i \in 1 .. l
    <3>1. w[i].n = i /\ w[i].attempt = a
      BY <1>0, <2>2 DEF OneAttempt
    <3>2. QED
      BY <1>0, <1>3, <2>1, <2>2, <3>1
  <2>3. CASE i = l + 1
    BY <1>0, <1>3, <2>1, <2>3
  <2>4. QED
    BY <1>2, <2>2, <2>3
<1>5. QED
  BY <1>0, <1>3, <1>4 DEF OneAttempt, AllText

\* The stream is closed, after the whole text or with an error.
LEMMA StreamClosed ==
    ASSUME NEW w, NEW f, NEW s, NEW a, Extends(w, f, s), AllText(w), OneAttempt(w, a),
           Len(w) \in Nat, NEW m \in {1, 2}, Len(s) = m,
           s[m].kind = "done", m = 2 => s[1].kind \in {"sources", "error"},
           Len(w) = Chunks \/ (m = 2 /\ s[1].kind = "error")
    PROVE  OneAttempt(f, a)
<1> DEFINE l == Len(w)
<1>0. /\ l \in Nat /\ Len(w) = l /\ Len(f) = l + m
      /\ (\A i \in 1 .. l : f[i] = w[i]) /\ (\A i \in 1 .. l : w[i].kind = "text")
      /\ f[l + m].kind = "done" /\ (m = 2 => f[l + 1].kind \in {"sources", "error"})
      /\ l = Chunks \/ (m = 2 /\ f[l + 1].kind = "error")
  <2>1. Len(f) = l + m /\ 1 \in 1 .. Len(s) /\ m \in 1 .. Len(s) /\ \A i \in 1 .. l : f[i] = w[i]
    BY DEF Extends
  <2>2. f[l + 1] = s[1] /\ f[l + m] = s[m]
    BY <2>1 DEF Extends
  <2>3. QED
    BY <2>1, <2>2 DEF AllText
<1> HIDE DEF l
<1>1. \A i \in 1 .. l + m : i \in 1 .. l \/ (i = l + 1 /\ m = 2) \/ i = l + m
  BY <1>0
<1>2. ASSUME NEW i \in 1 .. l
      PROVE  /\ f[i].kind = "text" /\ f[i].n = i /\ i <= Chunks /\ f[i].attempt = a
             /\ \A j \in 1 .. i : f[j].kind = "text"
  <2>1. /\ w[i].kind = "text" /\ w[i].n = i /\ i <= Chunks /\ w[i].attempt = a
        /\ \A j \in 1 .. i : w[j].kind = "text"
    BY <1>0 DEF OneAttempt
  <2>2. \A j \in 1 .. i : j \in 1 .. l
    BY <1>0
  <2>3. QED
    BY <1>0, <2>1, <2>2
<1>3. \/ \E j \in 1 .. (l + m) - 1 : f[j].kind = "error"
      \/ Chunks <= (l + m) - 1 /\ \A j \in 1 .. Chunks : f[j].kind = "text"
  <2>1. CASE l = Chunks
    BY <1>0, <1>2, <2>1
  <2>2. CASE m = 2 /\ f[l + 1].kind = "error"
    <3>1. l + 1 \in 1 .. (l + m) - 1
      BY <1>0, <2>2
    <3>2. QED
      BY <2>2, <3>1
  <2>3. QED
    BY <1>0, <2>1, <2>2
<1>4. ASSUME NEW i \in 1 .. l + m
      PROVE  /\ f[i].kind = "text" =>
                    /\ f[i].n = i /\ i <= Chunks /\ f[i].attempt = a
                    /\ \A j \in 1 .. i : f[j].kind = "text"
             /\ f[i].kind = "done" => i = l + m
             /\ f[i].kind = "done" =>
                    \/ \E j \in 1 .. i - 1 : f[j].kind = "error"
                    \/ Chunks <= i - 1 /\ \A j \in 1 .. Chunks : f[j].kind = "text"
  <2>1. CASE i \in 1 .. l
    BY <1>0, <1>2, <2>1
  <2>2. CASE i = l + 1 /\ m = 2
    BY <1>0, <2>2
  <2>3. CASE i = l + m
    BY <1>0, <1>3, <2>3
  <2>4. QED
    BY <1>1, <2>1, <2>2, <2>3
<1>5. QED
  BY <1>0, <1>4 DEF OneAttempt

\* A beginning of a stream is as one attempt makes it.
LEMMA StreamCut ==
    ASSUME NEW w, NEW f, NEW l \in Nat, Len(w) = l, NEW k \in Nat, Len(f) = k, k <= l, NEW a,
           \A i \in 1 .. k : f[i] = w[i], OneAttempt(w, a)
    PROVE  OneAttempt(f, a)
<1>1. ASSUME NEW i \in 1 .. k
      PROVE  /\ f[i].kind = "text" =>
                    /\ f[i].n = i /\ i <= Chunks /\ f[i].attempt = a
                    /\ \A j \in 1 .. i : f[j].kind = "text"
             /\ f[i].kind = "done" => i = k
             /\ f[i].kind = "done" =>
                    \/ \E j \in 1 .. i - 1 : f[j].kind = "error"
                    \/ Chunks <= i - 1 /\ \A j \in 1 .. Chunks : f[j].kind = "text"
  <2>1. i \in 1 .. l /\ f[i] = w[i] /\ (\A j \in 1 .. i : j \in 1 .. k)
        /\ (\A j \in 1 .. i - 1 : j \in 1 .. k)
    OBVIOUS
  <2>2. /\ w[i].kind = "text" =>
               /\ w[i].n = i /\ i <= Chunks /\ w[i].attempt = a
               /\ \A j \in 1 .. i : w[j].kind = "text"
        /\ w[i].kind = "done" => i = l
        /\ w[i].kind = "done" =>
               \/ \E j \in 1 .. i - 1 : w[j].kind = "error"
               \/ Chunks <= i - 1 /\ \A j \in 1 .. Chunks : w[j].kind = "text"
    BY <2>1 DEF OneAttempt
  <2>3. Chunks <= i - 1 => \A j \in 1 .. Chunks : j \in 1 .. k
    BY AssistantHolds DEF Assistant!ChatAssumption
  <2>4. f[i].kind = "text" =>
               /\ f[i].n = i /\ i <= Chunks /\ f[i].attempt = a
               /\ \A j \in 1 .. i : f[j].kind = "text"
    BY <2>1, <2>2
  <2>5. f[i].kind = "done" => i = k
    BY <2>1, <2>2
  <2>6. f[i].kind = "done" =>
               \/ \E j \in 1 .. i - 1 : f[j].kind = "error"
               \/ Chunks <= i - 1 /\ \A j \in 1 .. Chunks : f[j].kind = "text"
    BY <2>1, <2>2, <2>3
  <2>7. QED
    BY <2>4, <2>5, <2>6
<1>2. QED
  BY <1>1 DEF OneAttempt

\* The steps of the server leave the turns alone.
LEMMA ServerStep ==
    ASSUME ChatInv, UNCHANGED <<chat, carried, thinking, reading, broken>>,
           events' \in Seq(EventRecord), route' \in RouteRecord,
           thinking => /\ OneAttempt(Whole', route'.attempt)
                       /\ route'.pc = "calling" =>
                              Len(Whole') = route'.emitted /\ AllText(Whole')
    PROVE  ChatInv'
<1>1. ChatTyped' /\ TurnsOver' /\ CarriedAnswered'
  BY DEF ChatInv, ChatTyped, TurnsOver, CarriedAnswered
<1>2. ASSUME thinking
      PROVE  OpenTurn'
  <2>1. OpenTurn
    BY <1>2 DEF ChatInv
  <2>2. QED
    BY <1>2, <2>1 DEF OpenTurn
<1>3. QED
  BY <1>1, <1>2 DEF ChatInv

LEMMA CallingWhole ==
    ASSUME ChatInv, thinking
    PROVE  /\ ChatTyped /\ Len(chat) # 0 /\ Whole \in Seq(EventRecord) /\ Len(Whole) \in Nat
           /\ chat[Len(chat)].text \in Seq(EventRecord) /\ events \in Seq(EventRecord)
           /\ OneAttempt(Whole, route.attempt)
           /\ route.pc = "calling" =>
                  Len(Whole) = route.emitted /\ AllText(Whole)
<1>1. ChatTyped /\ OpenTurn
  BY DEF ChatInv
<1>2. Len(chat) # 0
  BY <1>1 DEF OpenTurn
<1>3. QED
  BY <1>1, <1>2, OpenFields DEF OpenTurn

LEMMA EmitStep ==
    ASSUME ChatInv, Assistant!Emit
    PROVE  ChatInv'
<1> DEFINE s == <<Assistant!Fragment(route.attempt, route.emitted + 1)>>
<1>1. /\ route.pc = "calling" /\ route.emitted < Chunks
      /\ route' = [route EXCEPT !.emitted = route.emitted + 1]
      /\ events' = events \o s
      /\ UNCHANGED <<chat, carried, thinking, reading, broken>>
  BY DEF Assistant!Emit, Assistant!Sends
<1>2. route \in RouteRecord /\ events \in Seq(EventRecord)
  BY DEF ChatInv, ChatTyped
<1>3. Chunks \in Nat \ {0} /\ route.emitted \in 0 .. Chunks /\ route.attempt \in Nat
  BY <1>2, RouteFields, AssistantHolds DEF Assistant!ChatAssumption
<1>4. /\ route' \in RouteRecord /\ route'.pc = "calling" /\ route'.emitted = route.emitted + 1
      /\ route'.attempt = route.attempt
  <2>1. route.emitted + 1 \in 0 .. Chunks
    BY <1>1, <1>3
  <2>2. QED
    BY <1>1, <1>2, <2>1 DEF RouteRecord
<1>5. /\ s \in Seq(EventRecord) /\ Len(s) = 1 /\ s[1].kind = "text"
      /\ s[1].attempt = route.attempt /\ s[1].n = route.emitted + 1
  <2> DEFINE f == Assistant!Fragment(route.attempt, route.emitted + 1)
  <2>1. route.emitted + 1 \in 0 .. Chunks
    BY <1>1, <1>3
  <2>2. f \in EventRecord /\ f.kind = "text" /\ f.attempt = route.attempt
        /\ f.n = route.emitted + 1
    BY <1>3, <2>1 DEF EventRecord, Assistant!Fragment
  <2> HIDE DEF f
  <2>3. <<f>> \in Seq(EventRecord) /\ Len(<<f>>) = 1 /\ <<f>>[1] = f
    BY <2>2
  <2>4. QED
    BY <2>2, <2>3 DEF f
<1> HIDE DEF s
<1>6. events' \in Seq(EventRecord)
  BY <1>1, <1>2, <1>5, ConcatProperties
<1>7. ASSUME thinking
      PROVE  /\ OneAttempt(Whole', route'.attempt)
             /\ Len(Whole') = route'.emitted /\ AllText(Whole')
  <2> DEFINE t == chat[Len(chat)].text
             w == t \o events
             f == t \o (events \o s)
  <2>1. Whole = w /\ Whole' = f
    BY <1>1 DEF Whole
  <2>2. /\ t \in Seq(EventRecord) /\ Len(w) \in Nat /\ Len(w) = route.emitted
        /\ OneAttempt(w, route.attempt) /\ AllText(w)
    BY <1>1, <1>7, <2>1, CallingWhole
  <2> HIDE DEF t
  <2>3. Extends(w, f, s)
    BY <1>2, <1>5, <2>2, SentAfter
  <2> HIDE DEF w, f
  <2>4. Len(w) < Chunks /\ s[1].n = Len(w) + 1
    BY <1>1, <1>5, <2>2
  <2>5. OneAttempt(f, route.attempt) /\ AllText(f) /\ Len(f) = Len(w) + 1
    BY <1>5, <2>2, <2>3, <2>4, TextSent
  <2>6. QED
    BY <1>4, <2>1, <2>2, <2>5
<1>8. QED
  BY <1>1, <1>4, <1>6, <1>7, ServerStep

\* The stream is closed by one or two events.
LEMMA ClosingStep ==
    ASSUME ChatInv, route.pc = "calling",
           NEW s \in Seq(EventRecord), NEW m \in {1, 2}, Len(s) = m, s[m].kind = "done",
           m = 2 => s[1].kind \in {"sources", "error"},
           route.emitted = Chunks \/ (m = 2 /\ s[1].kind = "error"),
           route' = [route EXCEPT !.pc = "ended"], events' = events \o s,
           UNCHANGED <<chat, carried, thinking, reading, broken>>
    PROVE  ChatInv'
<1>1. route \in RouteRecord /\ events \in Seq(EventRecord)
  BY DEF ChatInv, ChatTyped
<1>2. route' \in RouteRecord /\ route'.pc = "ended" /\ route'.attempt = route.attempt
  BY <1>1 DEF RouteRecord
<1>3. events' \in Seq(EventRecord)
  BY <1>1, ConcatProperties
<1>4. ASSUME thinking
      PROVE  OneAttempt(Whole', route.attempt)
  <2> DEFINE t == chat[Len(chat)].text
             w == t \o events
             f == t \o (events \o s)
  <2>1. Whole = w /\ Whole' = f
    BY DEF Whole
  <2>2. /\ t \in Seq(EventRecord) /\ Len(w) \in Nat /\ Len(w) = route.emitted
        /\ OneAttempt(w, route.attempt) /\ AllText(w)
    BY <1>4, <2>1, CallingWhole
  <2> HIDE DEF t
  <2>3. Extends(w, f, s)
    BY <1>1, <2>2, SentAfter
  <2> HIDE DEF w, f
  <2>4. Len(w) = Chunks \/ (m = 2 /\ s[1].kind = "error")
    BY <2>2
  <2>5. OneAttempt(f, route.attempt)
    BY <2>2, <2>3, <2>4, StreamClosed
  <2>6. QED
    BY <2>1, <2>5
<1>5. QED
  BY <1>2, <1>3, <1>4, ServerStep

LEMMA EventMade ==
    ASSUME NEW k \in {"sources", "error", "done"}
    PROVE  Assistant!Event(k) \in EventRecord /\ Assistant!Event(k).kind = k
BY AssistantHolds DEF EventRecord, Assistant!Event, Assistant!ChatAssumption

LEMMA OneOrTwo ==
    ASSUME NEW x \in EventRecord, NEW y \in EventRecord
    PROVE  /\ <<x>> \in Seq(EventRecord) /\ Len(<<x>>) = 1 /\ <<x>>[1] = x
           /\ <<x, y>> \in Seq(EventRecord) /\ Len(<<x, y>>) = 2
           /\ <<x, y>>[1] = x /\ <<x, y>>[2] = y
OBVIOUS

LEMMA EmitEndsStep ==
    ASSUME ChatInv, Assistant!EmitEnds
    PROVE  ChatInv'
<1>1. /\ route.pc = "calling" /\ route.emitted = Chunks
      /\ route' = [route EXCEPT !.pc = "ended"]
      /\ UNCHANGED <<chat, carried, thinking, reading, broken>>
  BY DEF Assistant!EmitEnds
<1> DEFINE d == Assistant!Event("done")
           x == Assistant!Event("sources")
<1>2. events' = events \o <<d>> \/ events' = events \o <<x, d>>
  BY DEF Assistant!EmitEnds, Assistant!Sends
<1>3. /\ d \in EventRecord /\ d.kind = "done" /\ x \in EventRecord /\ x.kind = "sources"
  BY EventMade
<1> HIDE DEF d, x
<1>4. /\ <<d>> \in Seq(EventRecord) /\ Len(<<d>>) = 1 /\ <<d>>[1] = d
      /\ <<x, d>> \in Seq(EventRecord) /\ Len(<<x, d>>) = 2
      /\ <<x, d>>[1] = x /\ <<x, d>>[2] = d
  BY <1>3, OneOrTwo
<1>5. CASE events' = events \o <<d>>
  <2> DEFINE s == <<d>>
  <2>1. /\ s \in Seq(EventRecord) /\ 1 \in {1, 2} /\ Len(s) = 1 /\ s[1].kind = "done"
        /\ events' = events \o s
    BY <1>3, <1>4, <1>5
  <2> HIDE DEF s
  <2>2. QED
    BY <1>1, <2>1, ClosingStep
<1>6. CASE events' = events \o <<x, d>>
  <2> DEFINE s == <<x, d>>
  <2>1. /\ s \in Seq(EventRecord) /\ 2 \in {1, 2} /\ Len(s) = 2 /\ s[2].kind = "done"
        /\ events' = events \o s /\ s[1].kind \in {"sources", "error"}
    BY <1>3, <1>4, <1>6
  <2> HIDE DEF s
  <2>2. QED
    BY <1>1, <2>1, ClosingStep
<1>7. QED
  BY <1>2, <1>5, <1>6

\* An attempt is given up for another only before any of its text.
LEMMA EmitFailsStep ==
    ASSUME ChatInv, NEW reason \in {"transient", "other", "fatal"}, Assistant!EmitFails(reason)
    PROVE  ChatInv'
<1>1. /\ route.pc = "calling" /\ UNCHANGED <<chat, carried, thinking, reading, broken>>
  BY DEF Assistant!EmitFails
<1>2. route \in RouteRecord /\ events \in Seq(EventRecord)
  BY DEF ChatInv, ChatTyped
<1>3. /\ route.retry \in 0 .. Retries /\ route.provider \in 0 .. Providers
      /\ route.attempt \in Nat /\ route.emitted \in 0 .. Chunks
      /\ Retries \in Nat /\ Providers \in Nat /\ Chunks \in Nat
  BY <1>2, RouteFields, AssistantHolds DEF Assistant!ChatAssumption
<1>4. ASSUME route.emitted = 0, UNCHANGED events, route' \in RouteRecord, route'.emitted = 0,
             route'.pc = "calling"
      PROVE  ChatInv'
  <2>1. ASSUME thinking
        PROVE  /\ OneAttempt(Whole', route'.attempt) /\ Len(Whole') = route'.emitted
               /\ AllText(Whole')
    <3>1. Len(Whole) = 0
      BY <1>1, <1>4, <2>1, CallingWhole
    <3>2. Whole' = Whole
      BY <1>1, <1>4 DEF Whole
    <3>3. \A i \in 1 .. Len(Whole') : FALSE
      BY <3>1, <3>2
    <3>4. QED
      BY <1>4, <3>1, <3>2, <3>3 DEF OneAttempt, AllText
  <2>2. QED
    BY <1>1, <1>2, <1>4, <2>1, ServerStep
<1>5. CASE /\ Assistant!Again(reason)
           /\ route' = [Assistant!NextAttempt EXCEPT !.retry = route.retry + 1]
           /\ UNCHANGED events
  <2>1. route.emitted = 0 /\ route.retry + 1 \in 0 .. Retries /\ 0 \in 0 .. Chunks
        /\ route.attempt + 1 \in Nat
    BY <1>3, <1>5 DEF Assistant!Again
  <2>2. route' \in RouteRecord /\ route'.emitted = 0 /\ route'.pc = "calling"
    BY <1>1, <1>2, <1>5, <2>1 DEF RouteRecord, Assistant!NextAttempt
  <2>3. QED
    BY <1>4, <1>5, <2>1, <2>2
<1>6. CASE /\ Assistant!Another(reason)
           /\ route' = [Assistant!NextAttempt EXCEPT !.provider = route.provider + 1,
                                                     !.retry = 0]
           /\ UNCHANGED events
  <2>1. route.emitted = 0 /\ route.provider + 1 \in 0 .. Providers /\ 0 \in 0 .. Chunks
        /\ 0 \in 0 .. Retries /\ route.attempt + 1 \in Nat
    BY <1>3, <1>6 DEF Assistant!Another
  <2>2. route' \in RouteRecord /\ route'.emitted = 0 /\ route'.pc = "calling"
    BY <1>1, <1>2, <1>6, <2>1 DEF RouteRecord, Assistant!NextAttempt
  <2>3. QED
    BY <1>4, <1>6, <2>1, <2>2
<1>7. CASE /\ route' = [route EXCEPT !.pc = "ended"]
           /\ Assistant!Sends(<<Assistant!Event("error"), Assistant!Event("done")>>)
  <2> DEFINE x == Assistant!Event("error")
             d == Assistant!Event("done")
             s == <<x, d>>
  <2>1. /\ x \in EventRecord /\ x.kind = "error" /\ d \in EventRecord /\ d.kind = "done"
    BY EventMade
  <2> HIDE DEF x, d
  <2>2. /\ s \in Seq(EventRecord) /\ 2 \in {1, 2} /\ Len(s) = 2 /\ s[2].kind = "done"
        /\ s[1].kind = "error"
    BY <2>1, OneOrTwo
  <2>3. events' = events \o s
    BY <1>7 DEF Assistant!Sends, x, d
  <2> HIDE DEF s
  <2>4. QED
    BY <1>1, <1>7, <2>2, <2>3, ClosingStep
<1>8. QED
  BY <1>5, <1>6, <1>7 DEF Assistant!EmitFails

\* What was not delivered is lost.
LEMMA BreakStep ==
    ASSUME ChatInv, Assistant!Break
    PROVE  ChatInv'
<1>1. /\ thinking /\ broken' = TRUE /\ route' = [route EXCEPT !.pc = "ended"]
      /\ UNCHANGED <<chat, carried, thinking, reading>>
  BY DEF Assistant!Break
<1>2. PICK k \in 0 .. Len(events) : events' = SubSeq(events, 1, k)
  BY DEF Assistant!Break
<1> DEFINE t == chat[Len(chat)].text
<1>3. /\ ChatTyped /\ Whole \in Seq(EventRecord) /\ Len(Whole) \in Nat
      /\ t \in Seq(EventRecord) /\ events \in Seq(EventRecord)
      /\ OneAttempt(Whole, route.attempt)
  BY <1>1, CallingWhole
<1>4. Whole = t \o events /\ Whole' = t \o events'
  BY <1>1 DEF Whole
<1> HIDE DEF t
<1>5. /\ events' \in Seq(EventRecord) /\ Len(Whole') \in Nat /\ Len(Whole') <= Len(Whole)
      /\ \A i \in 1 .. Len(Whole') : Whole'[i] = Whole[i]
  BY <1>2, <1>3, <1>4, CutShort
<1>6. OneAttempt(Whole', route.attempt)
  BY <1>3, <1>5, StreamCut
<1>7. route \in RouteRecord
  BY <1>3 DEF ChatTyped
<1>8. route' \in RouteRecord /\ route'.pc = "ended" /\ route'.attempt = route.attempt
  BY <1>1, <1>7 DEF RouteRecord
<1>9. ChatTyped' /\ TurnsOver' /\ CarriedAnswered'
  BY <1>1, <1>5, <1>8 DEF ChatInv, ChatTyped, TurnsOver, CarriedAnswered
<1>10. OpenTurn'
  <2>1. OpenTurn
    BY <1>1 DEF ChatInv
  <2>2. QED
    BY <1>1, <1>6, <1>8, <2>1 DEF OpenTurn
<1>11. QED
  BY <1>9, <1>10 DEF ChatInv

LEMMA NoWords ==
    ASSUME NEW t, t.text = <<>>
    PROVE  Assistant!Words(t) = {}
BY DEF Assistant!Words

LEMMA AskStep ==
    ASSUME ChatInv, NEW k \in 0 .. MaxHistory, Assistant!Ask(k)
    PROVE  ChatInv'
<1> DEFINE h == Assistant!History(k)
           t == [text |-> <<>>, state |-> "loading"]
<1>1. /\ ~thinking /\ carried' = Append(carried, h) /\ chat' = Append(chat, t)
      /\ thinking' = TRUE /\ reading' = FALSE /\ events' = <<>> /\ broken' = FALSE
      /\ route' = [Assistant!NoRoute EXCEPT !.pc = "calling", !.provider = 1, !.attempt = 1]
  BY DEF Assistant!Ask
<1>2. ChatTyped /\ TurnsOver /\ CarriedAnswered
  BY DEF ChatInv
<1>3. /\ chat \in Seq(TurnRecord) /\ carried \in Seq(Carriable) /\ Len(chat) \in Nat
      /\ \A i \in 1 .. Len(chat) : chat[i] \in TurnRecord
  BY <1>2, LenProperties, ElementOfSeq DEF ChatTyped
<1>4. /\ <<>> \in Seq(EventRecord) /\ t \in TurnRecord /\ t.text = <<>> /\ t.state = "loading"
      /\ Len(<<>>) = 0
  BY EmptySeq, TurnMade
<1>5. /\ h \in Carriable
      /\ \A i \in DOMAIN h : Assistant!Answered(h[i]) /\ Assistant!Words(h[i]) = 1 .. Chunks
  <2> DEFINE kept == DOMAIN h
  <2>1. h = [i \in kept |-> chat[i]] /\ kept \subseteq Assistant!Kept
    BY DEF Assistant!History
  <2>2. \A i \in kept : i \in DOMAIN chat /\ Assistant!Answered(chat[i])
    BY <2>1 DEF Assistant!Kept
  <2> HIDE DEF kept, h
  <2>3. DOMAIN chat = 1 .. Len(chat)
    BY <1>3, LenProperties
  <2>4. kept \in SUBSET Nat /\ \A i \in kept : i \in 1 .. Len(chat) /\ chat[i] \in TurnRecord
    <3>1. \A i \in kept : i \in 1 .. Len(chat)
      BY <2>2, <2>3
    <3>2. \A i \in kept : i \in Nat
      BY <1>3, <3>1
    <3>3. QED
      BY <1>3, <3>1, <3>2
  <2>5. h \in [kept -> TurnRecord]
    BY <2>1, <2>4
  <2>6. h \in Carriable
    BY <2>4, <2>5 DEF Carriable
  <2>7. ASSUME NEW i \in DOMAIN h
        PROVE  Assistant!Answered(h[i]) /\ Assistant!Words(h[i]) = 1 .. Chunks
    <3>1. i \in kept /\ h[i] = chat[i]
      BY <2>1, <2>7
    <3>2. Over(chat[i]) /\ Assistant!Answered(chat[i])
      BY <1>1, <1>2, <2>2, <2>4, <3>1 DEF TurnsOver
    <3>3. QED
      BY <3>1, <3>2 DEF Over, Assistant!Answered
  <2>8. QED
    BY <2>6, <2>7
<1> HIDE DEF h, t
<1>6. /\ carried' \in Seq(Carriable) /\ Len(carried') = Len(carried) + 1 /\ Len(carried) \in Nat
      /\ (\A i \in 1 .. Len(carried) : carried'[i] = carried[i])
      /\ carried'[Len(carried) + 1] = h
  BY <1>1, <1>3, <1>5, Appended
<1>7. /\ chat' \in Seq(TurnRecord) /\ Len(chat') = Len(chat) + 1
      /\ (\A i \in 1 .. Len(chat) : chat'[i] = chat[i])
      /\ chat'[Len(chat) + 1] = t
  BY <1>1, <1>3, <1>4, Appended
<1>8. route' \in RouteRecord /\ route'.emitted = 0
  <2>1. 1 \in 0 .. Providers /\ 0 \in 0 .. Retries /\ 0 \in 0 .. Chunks
    BY AssistantHolds DEF Assistant!ChatAssumption
  <2>2. QED
    BY <1>1, <2>1 DEF RouteRecord, Assistant!NoRoute
<1>9. ChatTyped'
  BY <1>1, <1>4, <1>6, <1>7, <1>8 DEF ChatTyped
<1>10. TurnsOver'
  <2>1. ASSUME NEW i \in 1 .. Len(chat'), i # Len(chat')
        PROVE  Over(chat'[i])
    <3>1. i \in 1 .. Len(chat)
      BY <1>3, <1>7, <2>1
    <3>2. Over(chat[i]) /\ chat'[i] = chat[i]
      BY <1>1, <1>2, <1>7, <3>1 DEF TurnsOver
    <3>3. QED
      BY <3>2
  <2>2. QED
    BY <1>1, <2>1 DEF TurnsOver
<1>11. CarriedAnswered'
  <2>1. ASSUME NEW q \in 1 .. Len(carried')
        PROVE  \A i \in DOMAIN carried'[q] :
                   /\ Assistant!Answered(carried'[q][i])
                   /\ Assistant!Words(carried'[q][i]) = 1 .. Chunks
    <3>1. q \in 1 .. Len(carried) \/ q = Len(carried) + 1
      BY <1>6, <2>1
    <3>2. CASE q \in 1 .. Len(carried)
      <4>1. carried'[q] = carried[q]
        BY <1>6, <3>2
      <4>2. QED
        BY <1>2, <3>2, <4>1 DEF CarriedAnswered
    <3>3. CASE q = Len(carried) + 1
      BY <1>5, <1>6, <3>3
    <3>4. QED
      BY <3>1, <3>2, <3>3
  <2>2. QED
    BY <2>1 DEF CarriedAnswered
<1>12. OpenTurn'
  <2>1. /\ chat'[Len(chat')].text = <<>> /\ chat'[Len(chat')].state = "loading" /\ Len(chat') # 0
    BY <1>3, <1>4, <1>7
  <2>2. Whole' = <<>> \o <<>>
    BY <1>1, <2>1 DEF Whole
  <2>3. <<>> \o <<>> = <<>>
    <3>1. Len(<<>> \o <<>>) = 0 + 0 /\ <<>> \o <<>> \in Seq(EventRecord)
      BY <1>4, ConcatProperties
    <3>2. QED
      BY <3>1, EmptySeq
  <2>4. Len(Whole') = 0 /\ OneAttempt(Whole', route'.attempt) /\ AllText(Whole')
    <3>1. Len(Whole') = 0
      BY <1>4, <2>2, <2>3
    <3>2. \A i \in 1 .. Len(Whole') : FALSE
      BY <3>1
    <3>3. QED
      BY <3>1, <3>2 DEF OneAttempt, AllText
  <2>5. \A i \in 1 .. Len(chat'[Len(chat')].text) : FALSE
    BY <1>4, <2>1
  <2>6. QED
    BY <1>8, <2>1, <2>4, <2>5 DEF OpenTurn
<1>13. QED
  BY <1>9, <1>10, <1>11, <1>12 DEF ChatInv

LEMMA NewConversationStep ==
    ASSUME ChatInv, Assistant!NewConversation
    PROVE  ChatInv'
<1>1. /\ ~thinking /\ chat' = <<>>
      /\ UNCHANGED <<carried, thinking, reading, events, broken, route>>
  BY DEF Assistant!NewConversation
<1>2. ChatTyped' /\ CarriedAnswered'
  BY <1>1, EmptySeq DEF ChatInv, ChatTyped, CarriedAnswered
<1>3. \A i \in 1 .. Len(chat') : FALSE
  BY <1>1, EmptySeq
<1>4. QED
  BY <1>1, <1>2, <1>3 DEF ChatInv, TurnsOver

\* What was read moves from the stream to the answer: the two together stay.
LEMMA ReadTextStep ==
    ASSUME ChatInv, Assistant!ReadText
    PROVE  ChatInv'
<1> DEFINE t == chat[Len(chat)].text
           a == Append(t, Head(events))
           turn == [text |-> a, state |-> "shown"]
<1>1. /\ thinking /\ events # <<>> /\ events' = Tail(events)
      /\ reading' = (reading \/ Head(events).kind = "error")
      /\ chat' = [chat EXCEPT ![Len(chat)] = turn]
      /\ UNCHANGED <<carried, thinking, broken, route>>
  BY DEF Assistant!ReadText, Assistant!Shows
<1>2. ChatTyped /\ TurnsOver /\ CarriedAnswered /\ OpenTurn
  BY <1>1 DEF ChatInv
<1>3. /\ Len(chat) # 0 /\ t \in Seq(EventRecord) /\ events \in Seq(EventRecord)
      /\ chat \in Seq(TurnRecord) /\ Len(chat) \in Nat
  BY <1>1, <1>2, CallingWhole, LenProperties DEF ChatTyped
<1>4. Whole = t \o events
  BY DEF Whole
<1>5. /\ \A i \in 1 .. Len(t) : t[i].kind = "error" => reading
      /\ OneAttempt(Whole, route.attempt)
      /\ route.pc = "calling" => Len(Whole) = route.emitted /\ AllText(Whole)
  BY <1>2 DEF OpenTurn
<1> HIDE DEF t
<1>6. /\ Tail(events) \in Seq(EventRecord) /\ a \in Seq(EventRecord)
      /\ a \o Tail(events) = t \o events /\ Len(t) \in Nat /\ Len(a) = Len(t) + 1
      /\ (\A i \in 1 .. Len(t) : a[i] = t[i]) /\ a[Len(t) + 1] = Head(events)
  BY <1>1, <1>3, HeadMoved
<1> HIDE DEF a
<1>7. turn \in TurnRecord /\ turn.text = a /\ turn.state = "shown"
  BY <1>6, TurnMade
<1> HIDE DEF turn
<1>8. /\ chat' \in Seq(TurnRecord) /\ Len(chat') = Len(chat) /\ chat'[Len(chat)] = turn
      /\ \A i \in 1 .. Len(chat) : i # Len(chat) => chat'[i] = chat[i]
  BY <1>1, <1>3, <1>7, LastReplaced
<1>9. ChatTyped' /\ CarriedAnswered'
  BY <1>1, <1>2, <1>6, <1>8 DEF ChatTyped, CarriedAnswered
<1>10. TurnsOver'
  BY <1>1, <1>2, <1>8 DEF TurnsOver
<1>11. Whole' = Whole
  BY <1>1, <1>4, <1>6, <1>7, <1>8 DEF Whole
<1>12. \A i \in 1 .. Len(a) : a[i].kind = "error" => reading'
  <2>1. ASSUME NEW i \in 1 .. Len(a), a[i].kind = "error"
        PROVE  reading'
    <3>1. i \in 1 .. Len(t) \/ i = Len(t) + 1
      BY <1>6, <2>1
    <3>2. CASE i \in 1 .. Len(t)
      BY <1>1, <1>5, <1>6, <2>1, <3>2
    <3>3. CASE i = Len(t) + 1
      BY <1>1, <1>6, <2>1, <3>3
    <3>4. QED
      BY <3>1, <3>2, <3>3
  <2>2. QED
    BY <2>1
<1>13. OpenTurn'
  BY <1>1, <1>3, <1>5, <1>7, <1>8, <1>11, <1>12 DEF OpenTurn
<1>14. QED
  BY <1>9, <1>10, <1>13 DEF ChatInv

\* The last turn is over, and the others stay.
LEMMA TurnEnds ==
    ASSUME ChatInv, thinking, NEW turn \in TurnRecord, Over(turn),
           chat' = [chat EXCEPT ![Len(chat)] = turn], thinking' = FALSE,
           events' \in Seq(EventRecord), UNCHANGED <<carried, reading, broken, route>>
    PROVE  ChatInv'
<1>1. ChatTyped /\ TurnsOver /\ CarriedAnswered
  BY DEF ChatInv
<1>2. Len(chat) # 0 /\ chat \in Seq(TurnRecord)
  BY <1>1, CallingWhole DEF ChatTyped
<1>3. /\ chat' \in Seq(TurnRecord) /\ Len(chat') = Len(chat) /\ chat'[Len(chat)] = turn
      /\ \A i \in 1 .. Len(chat) : i # Len(chat) => chat'[i] = chat[i]
  BY <1>2, LastReplaced
<1>4. ChatTyped' /\ CarriedAnswered'
  BY <1>1, <1>3 DEF ChatTyped, CarriedAnswered
<1>5. TurnsOver'
  <2>1. ASSUME NEW i \in 1 .. Len(chat)
        PROVE  Over(chat'[i])
    <3>1. CASE i = Len(chat)
      BY <1>3, <3>1
    <3>2. CASE i # Len(chat)
      BY <1>1, <1>3, <3>2 DEF TurnsOver
    <3>3. QED
      BY <3>1, <3>2
  <2>2. QED
    BY <1>3, <2>1 DEF TurnsOver
<1>6. QED
  BY <1>4, <1>5 DEF ChatInv

LEMMA FailedOver ==
    ASSUME NEW t \in TurnRecord
    PROVE  Assistant!Failed(t) \in TurnRecord /\ Over(Assistant!Failed(t))
<1> DEFINE f == Assistant!Failed(t)
<1>1. f \in TurnRecord /\ f.text = <<>> /\ f.state = "failed"
  BY EmptySeq DEF Assistant!Failed, TurnRecord
<1> HIDE DEF f
<1>2. Assistant!Words(f) = {}
  BY <1>1, NoWords
<1>3. Over(f)
  BY <1>1, <1>2 DEF Over
<1>4. QED
  BY <1>1, <1>3 DEF f

LEMMA ReadBrokenStep ==
    ASSUME ChatInv, Assistant!ReadBroken
    PROVE  ChatInv'
<1>1. /\ thinking /\ thinking' = FALSE
      /\ chat' = [chat EXCEPT ![Len(chat)] = Assistant!Failed(chat[Len(chat)])]
      /\ UNCHANGED <<carried, reading, events, broken, route>>
  BY DEF Assistant!ReadBroken, Assistant!Shows
<1>2. ChatTyped /\ Len(chat) # 0 /\ events \in Seq(EventRecord)
  BY <1>1, CallingWhole
<1>3. chat[Len(chat)] \in TurnRecord
  BY <1>2, OpenFields
<1>4. QED
  BY <1>1, <1>2, <1>3, FailedOver, TurnEnds

\* [DONE]: what was read is the beginning of one attempt, and the whole of it unless an
\* error was read.
LEMMA WordsRead ==
    ASSUME NEW t \in Seq(EventRecord), NEW e \in Seq(EventRecord), e # <<>>, NEW a,
           Head(e).kind = "done", OneAttempt(t \o e, a), NEW turn, turn.text = t
    PROVE  /\ \A k \in Assistant!Words(turn) :
                  turn.text[k].attempt = turn.text[1].attempt /\ turn.text[k].n = k
           /\ \/ \E i \in 1 .. Len(t) : t[i].kind = "error"
              \/ Assistant!Words(turn) = 1 .. Chunks
<1> DEFINE w == t \o e
           l == Len(t)
<1>1. /\ l \in Nat /\ w[l + 1] = Head(e) /\ l + 1 \in 1 .. Len(w)
  BY HeadMoved
<1>2. Len(w) = l + Len(e) /\ Len(e) \in Nat /\ \A i \in 1 .. l : w[i] = t[i]
  <2>1. /\ Len(e) \in Nat /\ Len(t \o e) = Len(t) + Len(e)
        /\ \A i \in 1 .. Len(t) + Len(e) :
               (t \o e)[i] = IF i <= Len(t) THEN t[i] ELSE e[i - Len(t)]
    BY ConcatProperties, LenProperties
  <2>2. \A i \in 1 .. l : i \in 1 .. Len(t) + Len(e) /\ i <= Len(t)
    BY <1>1, <2>1
  <2>3. \A i \in 1 .. l : w[i] = t[i]
    BY <2>1, <2>2
  <2>4. QED
    BY <2>1, <2>3
<1>3. DOMAIN t = 1 .. l
  BY LenProperties
<1>4. Assistant!Words(turn) = {k \in 1 .. l : t[k].kind = "text"}
  BY <1>3 DEF Assistant!Words
<1>5. OneAttempt(w, a) /\ w[l + 1].kind = "done" /\ Chunks \in Nat \ {0}
  BY <1>1, AssistantHolds DEF Assistant!ChatAssumption
<1> HIDE DEF w, l
<1>6. ASSUME NEW k \in 1 .. l, t[k].kind = "text"
      PROVE  t[k].attempt = t[1].attempt /\ t[k].n = k /\ k \in 1 .. Chunks
  <2>1. k \in 1 .. Len(w) /\ w[k].kind = "text" /\ 1 \in 1 .. l /\ 1 \in 1 .. k /\ 1 \in 1 .. Len(w)
    BY <1>1, <1>2, <1>6
  <2>2. /\ w[k].n = k /\ k <= Chunks /\ w[k].attempt = a /\ w[1].kind = "text"
    BY <1>5, <2>1 DEF OneAttempt
  <2>3. w[1].attempt = a
    BY <1>5, <2>1, <2>2 DEF OneAttempt
  <2>4. t[k] = w[k] /\ t[1] = w[1]
    BY <1>2, <2>1
  <2>5. QED
    BY <1>5, <2>2, <2>3, <2>4
<1>7. CASE \E j \in 1 .. (l + 1) - 1 : w[j].kind = "error"
  <2>1. PICK j \in 1 .. (l + 1) - 1 : w[j].kind = "error"
    BY <1>7
  <2>2. j \in 1 .. l /\ t[j].kind = "error"
    BY <1>1, <1>2, <2>1
  <2>3. \E i \in 1 .. Len(t) : t[i].kind = "error"
    BY <2>2 DEF l
  <2>4. QED
    BY <1>4, <1>6, <2>3
<1>8. CASE Chunks <= (l + 1) - 1 /\ \A j \in 1 .. Chunks : w[j].kind = "text"
  <2>1. \A j \in 1 .. Chunks : j \in 1 .. l /\ t[j].kind = "text"
    BY <1>1, <1>2, <1>5, <1>8
  <2>2. Assistant!Words(turn) = 1 .. Chunks
    BY <1>4, <1>6, <2>1
  <2>3. QED
    BY <1>4, <1>6, <2>2
<1>9. QED
  BY <1>1, <1>5, <1>7, <1>8 DEF OneAttempt

LEMMA ReadDoneStep ==
    ASSUME ChatInv, Assistant!ReadDone
    PROVE  ChatInv'
<1> DEFINE t == chat[Len(chat)]
           turn == IF t.text = <<>> THEN Assistant!Failed(t)
                   ELSE [t EXCEPT !.state = IF reading THEN "failed" ELSE "answered"]
<1>1. /\ thinking /\ events # <<>> /\ Head(events).kind = "done" /\ events' = Tail(events)
      /\ thinking' = FALSE /\ chat' = [chat EXCEPT ![Len(chat)] = turn]
      /\ UNCHANGED <<carried, reading, broken, route>>
  BY DEF Assistant!ReadDone, Assistant!Shows
<1>2. /\ ChatTyped /\ Len(chat) # 0 /\ events \in Seq(EventRecord) /\ t.text \in Seq(EventRecord)
      /\ OneAttempt(Whole, route.attempt) /\ Whole = t.text \o events
  BY <1>1, CallingWhole DEF Whole
<1>3. /\ t \in TurnRecord /\ events' \in Seq(EventRecord)
      /\ ~reading => ~ \E i \in 1 .. Len(t.text) : t.text[i].kind = "error"
  <2>1. t \in TurnRecord
    BY <1>2, OpenFields
  <2>2. events' \in Seq(EventRecord)
    BY <1>1, <1>2, HeadMoved
  <2>3. OpenTurn
    BY <1>1 DEF ChatInv
  <2>4. QED
    BY <2>1, <2>2, <2>3 DEF OpenTurn
<1> HIDE DEF t
<1>4. turn \in TurnRecord /\ Over(turn)
  <2>1. CASE t.text = <<>>
    BY <1>3, <2>1, FailedOver
  <2>2. CASE t.text # <<>>
    <3>1. turn = [t EXCEPT !.state = IF reading THEN "failed" ELSE "answered"]
      BY <2>2
    <3>2. /\ turn \in TurnRecord /\ turn.text = t.text
          /\ turn.state = IF reading THEN "failed" ELSE "answered"
      BY <1>3, <3>1 DEF TurnRecord
    <3> HIDE DEF turn
    <3>3. /\ \A k \in Assistant!Words(turn) :
                 turn.text[k].attempt = turn.text[1].attempt /\ turn.text[k].n = k
          /\ \/ \E i \in 1 .. Len(t.text) : t.text[i].kind = "error"
             \/ Assistant!Words(turn) = 1 .. Chunks
      BY <1>1, <1>2, <3>2, WordsRead
    <3>4. turn.state \in {"answered", "failed"}
      BY <3>2
    <3>5. turn.state = "answered" => Assistant!Words(turn) = 1 .. Chunks
      BY <1>3, <3>2, <3>3
    <3>6. QED
      BY <3>2, <3>3, <3>4, <3>5 DEF Over
  <2>3. QED
    BY <2>1, <2>2
<1> HIDE DEF turn
<1>5. QED
  BY <1>1, <1>3, <1>4, TurnEnds DEF t

LEMMA ChatInit == Assistant!Init => ChatInv
<1>1. SUFFICES ASSUME Assistant!Init
               PROVE  ChatInv
  OBVIOUS
<1>2. /\ chat = <<>> /\ carried = <<>> /\ thinking = FALSE /\ reading = FALSE
      /\ events = <<>> /\ broken = FALSE /\ route = Assistant!NoRoute
  BY <1>1 DEF Assistant!Init
<1>3. route \in RouteRecord
  <2>1. 0 \in 0 .. Providers /\ 0 \in 0 .. Retries /\ 0 \in 0 .. Chunks
    BY AssistantHolds DEF Assistant!ChatAssumption
  <2>2. QED
    BY <1>2, <2>1 DEF RouteRecord, Assistant!NoRoute
<1>4. ChatTyped
  BY <1>2, <1>3, EmptySeq DEF ChatTyped
<1>5. (\A i \in 1 .. Len(chat) : FALSE) /\ \A q \in 1 .. Len(carried) : FALSE
  BY <1>2, EmptySeq
<1>6. QED
  BY <1>2, <1>4, <1>5 DEF ChatInv, TurnsOver, CarriedAnswered

LEMMA ChatStep == ChatInv /\ [Assistant!Next]_(Assistant!chatVars) => ChatInv'
<1>1. SUFFICES ASSUME ChatInv, [Assistant!Next]_(Assistant!chatVars)
               PROVE  ChatInv'
  OBVIOUS
<1>2. CASE \E k \in 0 .. MaxHistory : Assistant!Ask(k)
  BY <1>1, <1>2, AskStep
<1>3. CASE Assistant!NewConversation
  BY <1>1, <1>3, NewConversationStep
<1>4. CASE Assistant!ReadText
  BY <1>1, <1>4, ReadTextStep
<1>5. CASE Assistant!ReadDone
  BY <1>1, <1>5, ReadDoneStep
<1>6. CASE Assistant!ReadBroken
  BY <1>1, <1>6, ReadBrokenStep
<1>7. CASE Assistant!Emit
  BY <1>1, <1>7, EmitStep
<1>8. CASE Assistant!EmitEnds
  BY <1>1, <1>8, EmitEndsStep
<1>9. CASE \E kind_1 \in {"transient", "other", "fatal"} : Assistant!EmitFails(kind_1)
  BY <1>1, <1>9, EmitFailsStep
<1>10. CASE Assistant!Break
  BY <1>1, <1>10, BreakStep
<1>11. CASE UNCHANGED Assistant!chatVars
  BY <1>1, <1>11 DEF Assistant!chatVars, ChatInv, ChatTyped, TurnsOver, CarriedAnswered,
                     OpenTurn, Whole
<1>12. QED
  BY <1>1, <1>2, <1>3, <1>4, <1>5, <1>6, <1>7, <1>8, <1>9, <1>10, <1>11 DEF Assistant!Next

LEMMA ChatFollows == ChatInv => Assistant!TypeOK /\ Assistant!AnswerFromOneAttempt
<1>1. SUFFICES ASSUME ChatInv
               PROVE  Assistant!TypeOK /\ Assistant!AnswerFromOneAttempt
  OBVIOUS
<1>2. ChatTyped /\ TurnsOver /\ CarriedAnswered /\ (thinking => OpenTurn)
  BY <1>1 DEF ChatInv
<1>3. /\ Len(chat) \in Nat /\ DOMAIN chat = 1 .. Len(chat)
      /\ DOMAIN carried = 1 .. Len(carried)
      /\ \A i \in 1 .. Len(chat) : chat[i] \in TurnRecord
  BY <1>2, LenProperties, ElementOfSeq DEF ChatTyped
<1>4. Assistant!TypeOK
  <2>1. ASSUME NEW i \in DOMAIN chat
        PROVE  /\ chat[i].state \in {"loading", "shown", "answered", "failed"}
               /\ chat[i].state \in {"loading", "shown"} => thinking /\ i = Len(chat)
    BY <1>2, <1>3, <2>1, TurnFields DEF TurnsOver, Over
  <2>2. /\ route.pc \in {"none", "calling", "ended"} /\ route.provider \in 0 .. Providers
        /\ route.retry \in 0 .. Retries /\ route.emitted \in 0 .. Chunks
    BY <1>2, RouteFields DEF ChatTyped
  <2>3. QED
    BY <1>2, <2>1, <2>2 DEF ChatTyped, Assistant!TypeOK
<1>5. ASSUME NEW i \in DOMAIN chat
      PROVE  /\ \A k \in Assistant!Words(chat[i]) :
                    /\ chat[i].text[k].attempt = chat[i].text[1].attempt
                    /\ chat[i].text[k].n = k
             /\ Assistant!Answered(chat[i]) => Assistant!Words(chat[i]) = 1 .. Chunks
  <2>1. CASE ~(thinking /\ i = Len(chat))
    BY <1>2, <1>3, <1>5, <2>1 DEF TurnsOver, Over, Assistant!Answered
  <2>2. CASE thinking /\ i = Len(chat)
    <3> DEFINE t == chat[Len(chat)].text
               l == Len(t)
    <3>1. /\ t \in Seq(EventRecord) /\ events \in Seq(EventRecord)
          /\ OneAttempt(t \o events, route.attempt)
      BY <1>1, <2>2, CallingWhole DEF Whole
    <3>2. chat[i].state \in {"loading", "shown"}
      BY <1>2, <2>2 DEF OpenTurn
    <3>3. chat[i].text = t
      BY <2>2
    <3> HIDE DEF t
    <3>4. DOMAIN t = 1 .. l /\ l \in Nat
      BY <3>1, LenProperties
    <3>5. \A k \in 1 .. l : (t \o events)[k] = t[k] /\ k \in 1 .. Len(t \o events)
      <4>1. /\ Len(events) \in Nat /\ Len(t \o events) = Len(t) + Len(events)
            /\ \A k \in 1 .. Len(t) + Len(events) :
                   (t \o events)[k] = IF k <= Len(t) THEN t[k] ELSE events[k - Len(t)]
        BY <3>1, ConcatProperties, LenProperties
      <4>2. \A k \in 1 .. l : k \in 1 .. Len(t) + Len(events) /\ k <= Len(t)
        BY <3>4, <4>1
      <4>3. QED
        BY <4>1, <4>2
    <3>6. ASSUME NEW k \in Assistant!Words(chat[i])
          PROVE  t[k].attempt = t[1].attempt /\ t[k].n = k
      <4> DEFINE w == t \o events
      <4>1. k \in 1 .. l /\ t[k].kind = "text"
        BY <3>3, <3>4, <3>6 DEF Assistant!Words
      <4>2. /\ k \in 1 .. Len(w) /\ 1 \in 1 .. Len(w) /\ 1 \in 1 .. k
            /\ w[k] = t[k] /\ w[1] = t[1]
        <5>1. 1 \in 1 .. l /\ 1 \in 1 .. k
          BY <3>4, <4>1
        <5>2. QED
          BY <3>5, <4>1, <5>1
      <4> HIDE DEF w
      <4>3. OneAttempt(w, route.attempt)
        BY <3>1 DEF w
      <4>4. w[k].n = k /\ w[k].attempt = route.attempt /\ w[1].kind = "text"
        BY <4>1, <4>2, <4>3 DEF OneAttempt
      <4>5. w[1].attempt = route.attempt
        BY <4>2, <4>3, <4>4 DEF OneAttempt
      <4>6. QED
        BY <4>2, <4>4, <4>5
    <3>7. QED
      BY <3>2, <3>3, <3>6 DEF Assistant!Answered
  <2>3. QED
    BY <2>1, <2>2
<1>6. Assistant!AnswerFromOneAttempt
  BY <1>2, <1>3, <1>5 DEF CarriedAnswered, Assistant!AnswerFromOneAttempt
<1>7. QED
  BY <1>4, <1>6

\* The shapes of the conversation and the route, and that an answer comes from one
\* attempt, for any number of providers, retries and pieces and for however many turns
\* are asked and carried.
THEOREM AssistantSafe ==
    Assistant!Spec => [](Assistant!TypeOK /\ Assistant!AnswerFromOneAttempt)
<1>1. Assistant!Init => ChatInv
  BY ChatInit
<1>2. ChatInv /\ [Assistant!Next]_(Assistant!chatVars) => ChatInv'
  BY ChatStep
<1>3. ChatInv => Assistant!TypeOK /\ Assistant!AnswerFromOneAttempt
  BY ChatFollows
<1>4. QED
  BY <1>1, <1>2, <1>3, PTL DEF Assistant!Spec

\* A conversation in the page is a behaviour of the panel and its server.
LEMMA AssistantOfPage == Spec => Assistant!Spec
<1>1. Init => Assistant!Init
  BY DEF Init
<1>2. [Next]_<<focus, adbVars, uploadVars, fileVars, commandVars, listVars,
               mailVars, viewVars, chatVars, sheetVars, remoteVars>>
      => [Assistant!Next]_chatVars
  BY DEF Next
<1>3. Assistant!Spec <=> Assistant!Init /\ [][Assistant!Next]_chatVars
  BY DEF Assistant!Spec, Assistant!chatVars, chatVars
<1>4. QED
  BY <1>1, <1>2, <1>3, PTL DEF Spec

\* In the page, what is shown of an answer is the beginning of one attempt, whatever
\* failed and was tried again; what is kept is whole, and only that is carried.
THEOREM AnswerFromOneAttemptAlways == Spec => []AnswerFromOneAttempt
<1>1. AnswerFromOneAttempt <=> Assistant!AnswerFromOneAttempt
  BY DEF AnswerFromOneAttempt
<1>2. QED
  BY <1>1, AssistantOfPage, AssistantSafe, PTL

-----------------------------------------------------------------------------
(* The remote control *)

Command == [press : Remote!Press, number : Nat, started : BOOLEAN]

\* The press the controller works for is the one under the finger, and its timer the only
\* one.
OneHold ==
    /\ hold = 0 \/ hold = down
    /\ down <= presses
    /\ \A p \in timers : hold = p /\ clock = p

\* A press waits in the queue once, or for its timer; only the head is being written.
OneCommand ==
    /\ \A m \in 1 .. Len(lane), n \in 1 .. Len(lane) : lane[m].press = lane[n].press => m = n
    /\ \A n \in 1 .. Len(lane) :
           /\ lane[n].press <= presses /\ lane[n].press \notin timers
           /\ lane[n].started => n = 1

\* A press whose last command left is over: nothing of it can leave any more.
Spent ==
    \A p \in Remote!Press :
        /\ after[p] <= 1
        /\ after[p] # 0 =>
               /\ p <= presses /\ p # down
               /\ \A n \in 1 .. Len(lane) : lane[n].press = p => lane[n].started

\* NoRepeatAfterRelease is not inductive: it does not say that a command in the queue of a
\* press that is over was the only one, nor that a press never comes back.
Pressed == Remote!TypeOK /\ OneHold /\ OneCommand /\ Spent

LEMMA PressedInit ==
    ASSUME Remote!RemoteAssumption, Remote!Init
    PROVE  Pressed
<1>1. Len(lane) = 0 /\ lane \in Seq(Command)
  BY EmptySeq DEF Remote!Init
<1>2. Remote!TypeOK
  BY <1>1 DEF Remote!Init, Remote!RemoteAssumption, Remote!TypeOK, Remote!Press,
              Remote!Unmounted, Command
<1>3. OneHold /\ OneCommand /\ Spent
  BY <1>1 DEF Remote!Init, OneHold, OneCommand, Spent, Remote!Press
<1>4. QED
  BY <1>2, <1>3 DEF Pressed

-----------------------------------------------------------------------------
(* How the queue moves *)

\* A command joins the queue behind those that wait.
LEMMA QueuedLast ==
    ASSUME Remote!TypeOK, NEW p \in Remote!Press
    PROVE  /\ Remote!Queued(p) \in Seq(Command) /\ Len(Remote!Queued(p)) = Len(lane) + 1
           /\ \A n \in 1 .. Len(lane) : Remote!Queued(p)[n] = lane[n]
           /\ Remote!Queued(p)[Len(lane) + 1].press = p
           /\ ~Remote!Queued(p)[Len(lane) + 1].started
           /\ Len(lane) \in Nat
<1> DEFINE command == [press |-> p, number |-> plug.number, started |-> FALSE]
<1>1. lane \in Seq(Command) /\ command \in Command
  BY DEF Remote!TypeOK, Command
<1>2. /\ Append(lane, command) \in Seq(Command)
      /\ Len(Append(lane, command)) = Len(lane) + 1
      /\ \A n \in 1 .. Len(lane) : Append(lane, command)[n] = lane[n]
      /\ Append(lane, command)[Len(lane) + 1] = command
  BY <1>1, AppendProperties
<1>3. Remote!Queued(p) = Append(lane, command)
  BY DEF Remote!Queued
<1>4. Len(lane) \in Nat
  BY <1>1, LenProperties
<1>5. QED
  BY <1>2, <1>3, <1>4

\* The head leaves the queue; the others stay in their order.
LEMMA HeadLeaves ==
    ASSUME Remote!TypeOK, lane # <<>>, lane' = Tail(lane)
    PROVE  /\ lane' \in Seq(Command) /\ Len(lane) \in Nat \ {0}
           /\ Len(lane') = Len(lane) - 1
           /\ \A n \in 1 .. Len(lane') : lane'[n] = lane[n + 1]
           /\ lane[1] \in Command
<1>1. lane \in Seq(Command)
  BY DEF Remote!TypeOK, Command
<1>2. Len(lane) \in Nat \ {0}
  BY <1>1, EmptySeq
<1>3. /\ Tail(lane) \in Seq(Command) /\ Len(Tail(lane)) = Len(lane) - 1
      /\ \A n \in 1 .. Len(Tail(lane)) : Tail(lane)[n] = lane[n + 1]
  BY <1>1, HeadTailProperties
<1>4. lane[1] \in Command
  BY <1>1, <1>2, ElementOfSeq
<1>5. QED
  BY <1>2, <1>3, <1>4

\* The presses of the queue are numbers.
LEMMA LanePresses ==
    ASSUME Remote!TypeOK
    PROVE  /\ lane \in Seq(Command)
           /\ \A n \in 1 .. Len(lane) : lane[n] \in Command /\ lane[n].press \in Remote!Press
<1>1. lane \in Seq(Command)
  BY DEF Remote!TypeOK, Command
<1>2. \A n \in 1 .. Len(lane) : lane[n] \in Command
  BY <1>1, ElementOfSeq
<1>3. QED
  BY <1>1, <1>2 DEF Command

\* A queue that stays as it is remains sound when timers stop and presses are added.
LEMMA LaneKept ==
    ASSUME Pressed, UNCHANGED lane, presses' \in 0 .. MaxPresses, presses <= presses',
           timers' \subseteq timers
    PROVE  OneCommand'
<1>1. \A n \in 1 .. Len(lane) : lane[n].press \in Remote!Press
  BY LanePresses DEF Pressed
<1>2. \A n \in 1 .. Len(lane) : lane[n].press \in Nat
  BY <1>1 DEF Remote!Press
<1>3. presses \in Nat /\ presses' \in Nat
  BY DEF Pressed, Remote!TypeOK
<1>4. QED
  BY <1>2, <1>3 DEF Pressed, OneCommand

\* A press that is over stays over when the finger leaves its key or takes a new one.
LEMMA SpentKept ==
    ASSUME Pressed, UNCHANGED <<lane, after>>, presses' \in 0 .. MaxPresses,
           presses <= presses', down' \in {0, down} \/ (down' = presses' /\ presses < presses')
    PROVE  Spent'
  BY DEF Pressed, Remote!TypeOK, Spent, Remote!Press

\* So does the queue a press joins, if it is not there and not timed, and has spent nothing.
LEMMA LaneJoined ==
    ASSUME Pressed, NEW p \in Remote!Press, lane' = Remote!Queued(p), UNCHANGED after,
           presses' \in 0 .. MaxPresses, presses <= presses', p <= presses',
           timers' \subseteq timers, p \notin timers', after[p] = 0,
           \A n \in 1 .. Len(lane) : lane[n].press # p,
           down' \in {0, down} \/ (down' = presses' /\ presses < presses')
    PROVE  lane' \in Seq(Command) /\ OneCommand' /\ Spent'
<1>1. /\ lane' \in Seq(Command) /\ Len(lane') = Len(lane) + 1 /\ Len(lane) \in Nat
      /\ \A n \in 1 .. Len(lane) : lane'[n] = lane[n]
      /\ lane'[Len(lane) + 1].press = p /\ ~lane'[Len(lane) + 1].started
  BY QueuedLast DEF Pressed
<1>2. \A n \in 1 .. Len(lane) : lane[n].press \in Remote!Press
  BY LanePresses DEF Pressed
<1>3. \A n \in 1 .. Len(lane') : n \in 1 .. Len(lane) \/ n = Len(lane) + 1
  BY <1>1
<1>4. OneCommand'
  <2>1. \A m \in 1 .. Len(lane'), n \in 1 .. Len(lane') :
            lane'[m].press = lane'[n].press => m = n
    BY <1>1, <1>3 DEF Pressed, OneCommand
  <2>2. ASSUME NEW n \in 1 .. Len(lane')
        PROVE  /\ lane'[n].press <= presses' /\ lane'[n].press \notin timers'
               /\ lane'[n].started => n = 1
    <3>1. CASE n \in 1 .. Len(lane)
      <4>1. /\ lane[n].press <= presses /\ lane[n].press \notin timers
            /\ lane[n].started => n = 1
        BY <3>1 DEF Pressed, OneCommand
      <4>2. presses \in Nat /\ presses' \in Nat /\ lane[n].press \in Nat
        <5>1. lane[n].press \in Remote!Press
          BY <3>1, <1>2
        <5>2. lane[n].press \in Nat
          BY <5>1 DEF Remote!Press
        <5>3. presses \in Nat
          BY DEF Pressed, Remote!TypeOK
        <5>4. QED
          BY <5>2, <5>3
      <4>3. lane'[n] = lane[n] /\ lane[n].press # p
        BY <3>1, <1>1
      <4>4. QED
        BY <4>1, <4>2, <4>3
    <3>2. CASE n = Len(lane) + 1
      BY <3>2, <1>1
    <3>3. QED
      BY <3>1, <3>2, <1>3
  <2>3. QED
    BY <2>1, <2>2 DEF OneCommand
<1>5. Spent'
  <2>1. ASSUME NEW q \in Remote!Press, after[q] # 0
        PROVE  /\ q <= presses' /\ q # down'
               /\ \A n \in 1 .. Len(lane') : lane'[n].press = q => lane'[n].started
    <3>1. /\ q <= presses /\ q # down
          /\ \A n \in 1 .. Len(lane) : lane[n].press = q => lane[n].started
      BY <2>1 DEF Pressed, Spent
    <3>2. q <= presses' /\ q # down'
      BY <3>1 DEF Pressed, Remote!TypeOK, Remote!Press
    <3>3. QED
      BY <1>1, <1>3, <2>1, <3>1, <3>2
  <2>2. QED
    BY <2>1 DEF Pressed, Spent
<1>6. QED
  BY <1>1, <1>4, <1>5

-----------------------------------------------------------------------------
(* The keys *)

\* The next press is in no queue yet.
LEMMA NewPress ==
    ASSUME Remote!TypeOK, OneCommand
    PROVE  \A n \in 1 .. Len(lane) : lane[n].press # presses + 1
<1>1. \A n \in 1 .. Len(lane) : lane[n].press \in Remote!Press
  BY LanePresses
<1>2. \A n \in 1 .. Len(lane) : lane[n].press \in Nat
  BY <1>1 DEF Remote!Press
<1>3. presses \in Nat
  BY DEF Remote!TypeOK
<1>4. QED
  BY <1>2, <1>3 DEF OneCommand

LEMMA StartStep ==
    ASSUME Remote!RemoteAssumption, Pressed, NEW repeating \in BOOLEAN, Remote!Start(repeating),
           down' = presses', UNCHANGED <<plug, after>>,
           panel' \in [mounted : BOOLEAN, since : Nat, pointer : BOOLEAN, keyboard : BOOLEAN]
    PROVE  Pressed'
<1> DEFINE p == presses + 1
<1>1. /\ p \in Remote!Press /\ presses' = p /\ presses' \in 0 .. MaxPresses
      /\ presses < presses' /\ presses <= presses' /\ repeats' \in [Remote!Press -> BOOLEAN]
  BY DEF Remote!Start, Pressed, Remote!TypeOK, Remote!Press, Remote!RemoteAssumption
<1>2. timers' = {} /\ clock' = 0
  BY DEF Remote!Start, Pressed, OneHold
<1>3. OneHold'
  BY <1>1, <1>2 DEF Remote!Start, OneHold
<1>4. \A n \in 1 .. Len(lane) : lane[n].press # p
  BY NewPress DEF Pressed
<1>5. after[p] = 0
  BY <1>1 DEF Pressed, Remote!TypeOK, Spent, Remote!Press
<1>6. lane' \in Seq(Command) /\ OneCommand' /\ Spent'
  <2>1. CASE lane' = Remote!Queued(p)
    BY <2>1, <1>1, <1>2, <1>4, <1>5, LaneJoined
  <2>2. CASE UNCHANGED lane
    BY <2>2, <1>1, <1>2, LaneKept, SpentKept, LanePresses DEF Pressed
  <2>3. QED
    BY <2>1, <2>2 DEF Remote!Start
<1>7. Remote!TypeOK'
  <2>1. hold' \in 0 .. MaxPresses /\ down' \in 0 .. MaxPresses /\ clock' \in 0 .. MaxPresses
    BY <1>1, <1>2 DEF Remote!Start, Remote!Press, Remote!RemoteAssumption
  <2>2. QED
    BY <1>1, <1>2, <1>6, <2>1 DEF Remote!TypeOK, Pressed, Command
<1>8. QED
  BY <1>3, <1>6, <1>7 DEF Pressed

LEMMA ClickStep ==
    ASSUME Remote!RemoteAssumption, Pressed, NEW repeating \in BOOLEAN, Remote!Click(repeating)
    PROVE  Pressed'
<1> DEFINE p == presses + 1
<1>1. /\ p \in Remote!Press /\ presses' = p /\ presses' \in 0 .. MaxPresses
      /\ presses < presses' /\ presses <= presses' /\ repeats' \in [Remote!Press -> BOOLEAN]
  BY DEF Remote!Click, Pressed, Remote!TypeOK, Remote!Press, Remote!RemoteAssumption
<1>2. timers' = {} /\ clock' = 0 /\ hold' = 0 /\ down' = 0
  BY DEF Remote!Click, Remote!Stop, Pressed, OneHold
<1>3. OneHold'
  BY <1>1, <1>2 DEF OneHold
<1>4. \A n \in 1 .. Len(lane) : lane[n].press # p
  BY NewPress DEF Pressed
<1>5. after[p] = 0
  BY <1>1 DEF Pressed, Remote!TypeOK, Spent, Remote!Press
<1>6. lane' \in Seq(Command) /\ OneCommand' /\ Spent'
  <2>1. CASE lane' = Remote!Queued(p)
    BY <2>1, <1>1, <1>2, <1>4, <1>5, LaneJoined DEF Remote!Click
  <2>2. CASE UNCHANGED lane
    BY <2>2, <1>1, <1>2, LaneKept, SpentKept, LanePresses DEF Pressed, Remote!Click
  <2>3. QED
    BY <2>1, <2>2, <1>1 DEF Remote!Click
<1>7. Remote!TypeOK'
  BY <1>1, <1>2, <1>6 DEF Remote!Click, Remote!TypeOK, Pressed, Command, Remote!RemoteAssumption
<1>8. QED
  BY <1>3, <1>6, <1>7 DEF Pressed

\* What ends the press, or leaves it alone, and does nothing else to the queue.
LEMMA QuietStep ==
    ASSUME Remote!RemoteAssumption, Pressed,
           \/ Remote!Stop /\ down' \in {0, down}
           \/ UNCHANGED <<hold, clock, timers, down>>,
           UNCHANGED <<presses, repeats, lane, after>>,
           plug' \in [up : BOOLEAN, number : Nat],
           panel' \in [mounted : BOOLEAN, since : Nat, pointer : BOOLEAN, keyboard : BOOLEAN]
    PROVE  Pressed'
<1>1. timers' \subseteq timers
  BY DEF Remote!Stop
<1>2. OneHold'
  BY DEF Remote!Stop, Pressed, Remote!TypeOK, OneHold
<1>3. OneCommand' /\ Spent'
  BY <1>1, LaneKept, SpentKept DEF Pressed, Remote!TypeOK
<1>4. Remote!TypeOK'
  BY <1>1 DEF Remote!Stop, Pressed, Remote!TypeOK, Remote!RemoteAssumption
<1>5. QED
  BY <1>2, <1>3, <1>4 DEF Pressed

LEMMA ReleaseStep ==
    ASSUME Remote!RemoteAssumption, Pressed,
           Remote!PointerEnds \/ Remote!KeyEnds \/ Remote!WindowLeft
    PROVE  Pressed'
<1>1. PICK still \in {panel', panel'} : Remote!Release(still)
  BY DEF Remote!PointerEnds, Remote!KeyEnds, Remote!WindowLeft, Remote!Release
<1>2. panel' \in [mounted : BOOLEAN, since : Nat, pointer : BOOLEAN, keyboard : BOOLEAN]
  BY DEF Remote!PointerEnds, Remote!KeyEnds, Remote!WindowLeft, Remote!Release, Pressed,
         Remote!TypeOK
<1>3. QED
  BY <1>1, <1>2, QuietStep DEF Remote!Release, Pressed, Remote!TypeOK

LEMMA PanelStep ==
    ASSUME Remote!RemoteAssumption, Pressed, Remote!Mount \/ Remote!Unmount \/ Remote!Replug
    PROVE  Pressed'
<1>1. CASE Remote!Mount
  <2>1. panel' \in [mounted : BOOLEAN, since : Nat, pointer : BOOLEAN, keyboard : BOOLEAN]
    <3>1. /\ panel' = [panel EXCEPT !.mounted = TRUE, !.since = presses]
          /\ panel \in [mounted : BOOLEAN, since : Nat, pointer : BOOLEAN, keyboard : BOOLEAN]
          /\ presses \in Nat
      BY <1>1 DEF Remote!Mount, Pressed, Remote!TypeOK
    <3>2. QED
      BY <3>1
  <2>2. QED
    BY <1>1, <2>1, QuietStep DEF Remote!Mount, Pressed, Remote!TypeOK
<1>2. CASE Remote!Unmount
  BY <1>2, QuietStep DEF Remote!Unmount, Remote!Unmounted, Pressed, Remote!TypeOK
<1>3. CASE Remote!Replug
  BY <1>3, QuietStep DEF Remote!Replug, Pressed, Remote!TypeOK
<1>4. QED
  BY <1>1, <1>2, <1>3

-----------------------------------------------------------------------------
(* The timer and the queue *)

LEMMA FireStep ==
    ASSUME Remote!RemoteAssumption, Pressed, NEW p \in Remote!Press, Remote!Fire(p)
    PROVE  Pressed'
<1>1. hold = p /\ clock = p /\ hold = down /\ p # 0
  BY DEF Remote!Fire, Pressed, Remote!TypeOK, OneHold, Remote!Press
<1>2. timers' = {} /\ clock' = 0
  BY <1>1 DEF Remote!Fire, Pressed, OneHold
<1>3. OneHold'
  BY <1>1, <1>2 DEF Remote!Fire, Pressed, OneHold
<1>4. lane' \in Seq(Command) /\ OneCommand' /\ Spent'
  <2>1. CASE lane' = Remote!Queued(p)
    <3>1. after[p] = 0 /\ p <= presses
      BY <1>1 DEF Pressed, Remote!TypeOK, Spent, OneHold
    <3>2. \A n \in 1 .. Len(lane) : lane[n].press # p
      BY DEF Remote!Fire, Pressed, OneCommand
    <3>3. QED
      BY <1>2, <2>1, <3>1, <3>2, LaneJoined DEF Remote!Fire, Pressed, Remote!TypeOK
  <2>2. CASE UNCHANGED lane
    BY <1>2, <2>2, LaneKept, SpentKept, LanePresses DEF Remote!Fire, Pressed, Remote!TypeOK
  <2>3. QED
    BY <2>1, <2>2 DEF Remote!Fire
<1>5. Remote!TypeOK'
  BY <1>2, <1>4 DEF Remote!Fire, Pressed, Remote!TypeOK, Command, Remote!RemoteAssumption
<1>6. QED
  BY <1>3, <1>4, <1>5 DEF Pressed

LEMMA TransmitStep ==
    ASSUME Remote!RemoteAssumption, Pressed, Remote!Transmit
    PROVE  Pressed'
<1> DEFINE q == lane[1].press
<1>1. lane \in Seq(Command) /\ Len(lane) \in Nat \ {0} /\ 1 \in 1 .. Len(lane)
  BY LanePresses, EmptySeq DEF Remote!Transmit, Remote!Deliverable, Pressed
<1>2. lane[1] \in Command /\ q \in Remote!Press
  BY <1>1, LanePresses DEF Pressed
<1>3. [lane[1] EXCEPT !.started = TRUE] \in Command
  BY <1>2 DEF Command
<1>4. lane' = [lane EXCEPT ![1] = [lane[1] EXCEPT !.started = TRUE]]
  BY DEF Remote!Transmit
<1>5. /\ lane' \in Seq(Command) /\ Len(lane') = Len(lane)
      /\ \A n \in 1 .. Len(lane) :
             /\ lane'[n].press = lane[n].press
             /\ lane'[n].started = (IF n = 1 THEN TRUE ELSE lane[n].started)
  <2>1. /\ lane' \in Seq(Command) /\ Len(lane') = Len(lane)
        /\ \A n \in 1 .. Len(lane) :
               lane'[n] = IF n = 1 THEN [lane[1] EXCEPT !.started = TRUE] ELSE lane[n]
    BY <1>1, <1>3, <1>4, ExceptSeq
  <2>2. QED
    BY <1>2, <2>1 DEF Command
<1>6. OneHold' /\ OneCommand'
  BY <1>5 DEF Remote!Transmit, Pressed, OneHold, OneCommand
<1>7. after[q] = 0 /\ q <= presses
  BY <1>1, <1>2 DEF Remote!Transmit, Remote!Deliverable, Pressed, Remote!TypeOK, Spent, OneCommand
<1>8. /\ after' \in [Remote!Press -> Nat]
      /\ \A p \in Remote!Press : p # q => after'[p] = after[p]
      /\ after'[q] = IF down = q THEN 0 ELSE 1
  BY <1>2, <1>7 DEF Remote!Transmit, Pressed, Remote!TypeOK
<1>9. Spent'
  <2>1. ASSUME NEW p \in Remote!Press, p # q
        PROVE  /\ after'[p] <= 1
               /\ after'[p] # 0 =>
                      /\ p <= presses' /\ p # down'
                      /\ \A n \in 1 .. Len(lane') : lane'[n].press = p => lane'[n].started
    BY <1>5, <1>8, <2>1 DEF Remote!Transmit, Pressed, Spent
  <2>2. /\ after'[q] <= 1
        /\ after'[q] # 0 => q <= presses' /\ q # down'
    BY <1>7, <1>8 DEF Remote!Transmit
  <2>3. \A n \in 1 .. Len(lane') : lane'[n].press = q => lane'[n].started
    BY <1>1, <1>5 DEF Pressed, OneCommand
  <2>4. QED
    BY <2>1, <2>2, <2>3 DEF Spent
<1>10. Remote!TypeOK'
  BY <1>5, <1>8 DEF Remote!Transmit, Pressed, Remote!TypeOK, Command
<1>11. QED
  BY <1>6, <1>9, <1>10 DEF Pressed

\* The rest of the queue is sound, whatever timers stop.
LEMMA HeadStep ==
    ASSUME Pressed, lane # <<>>, lane' = Tail(lane),
           UNCHANGED <<presses, down, after>>,
           timers' \subseteq timers \cup {lane[1].press}
    PROVE  lane' \in Seq(Command) /\ OneCommand' /\ Spent'
<1>1. /\ lane' \in Seq(Command) /\ Len(lane) \in Nat \ {0}
      /\ Len(lane') = Len(lane) - 1
      /\ \A n \in 1 .. Len(lane') : lane'[n] = lane[n + 1]
  BY HeadLeaves DEF Pressed
<1>2. /\ 1 \in 1 .. Len(lane)
      /\ \A n \in 1 .. Len(lane') : n + 1 \in 1 .. Len(lane) /\ n + 1 # 1 /\ n \in Nat
  BY <1>1
<1>3. \A m \in 1 .. Len(lane'), n \in 1 .. Len(lane') :
          lane'[m].press = lane'[n].press => m = n
  BY <1>1, <1>2 DEF Pressed, OneCommand
<1>4. \A n \in 1 .. Len(lane') :
          /\ lane'[n].press <= presses' /\ lane'[n].press \notin timers'
          /\ lane'[n].started => n = 1
  BY <1>1, <1>2 DEF Pressed, OneCommand
<1>5. Spent'
  BY <1>1, <1>2 DEF Pressed, Spent
<1>6. QED
  BY <1>1, <1>3, <1>4, <1>5 DEF OneCommand

LEMMA PressWrittenStep ==
    ASSUME Remote!RemoteAssumption, Pressed, Remote!Written
    PROVE  Pressed'
<1> DEFINE p == lane[1].press
<1>1. /\ lane[1] \in Command /\ p \in Remote!Press /\ p \notin timers
  BY HeadLeaves DEF Remote!Written, Pressed, OneCommand, Command
<1>2. lane' \in Seq(Command) /\ OneCommand' /\ Spent'
  BY HeadStep DEF Remote!Written
<1>3. \/ hold = p /\ clock' = p /\ timers' = timers \cup {p}
      \/ UNCHANGED <<clock, timers>>
  BY DEF Remote!Written
<1>4. OneHold'
  BY <1>1, <1>3 DEF Remote!Written, Pressed, Remote!TypeOK, OneHold, Remote!Press
<1>5. Remote!TypeOK'
  <2>1. clock' \in 0 .. MaxPresses /\ timers' \subseteq Remote!Press
    BY <1>1, <1>3 DEF Pressed, Remote!TypeOK, Remote!Press
  <2>2. QED
    BY <1>2, <2>1 DEF Remote!Written, Pressed, Remote!TypeOK, Command
<1>6. QED
  BY <1>2, <1>4, <1>5 DEF Pressed

LEMMA WriteFailsStep ==
    ASSUME Remote!RemoteAssumption, Pressed, Remote!WriteFails
    PROVE  Pressed'
<1>1. lane' \in Seq(Command) /\ OneCommand' /\ Spent'
  BY HeadStep DEF Remote!WriteFails, Remote!Stop
<1>2. OneHold'
  BY DEF Remote!WriteFails, Remote!Stop, Pressed, OneHold
<1>3. Remote!TypeOK'
  BY <1>1 DEF Remote!WriteFails, Remote!Stop, Pressed, Remote!TypeOK, Command,
              Remote!RemoteAssumption
<1>4. QED
  BY <1>1, <1>2, <1>3 DEF Pressed

-----------------------------------------------------------------------------

LEMMA PressedStep ==
    ASSUME Remote!RemoteAssumption, Pressed, [Remote!Next]_remoteVars
    PROVE  Pressed'
<1>1. CASE UNCHANGED remoteVars
  BY <1>1 DEF remoteVars, Pressed, Remote!TypeOK, OneHold, OneCommand, Spent
<1>2. ASSUME NEW repeating \in BOOLEAN, Remote!PointerDown(repeating) \/ Remote!KeyDown(repeating)
      PROVE  Pressed'
  BY <1>2, StartStep DEF Remote!PointerDown, Remote!KeyDown, Pressed, Remote!TypeOK
<1>3. ASSUME NEW repeating \in BOOLEAN, Remote!Click(repeating)
      PROVE  Pressed'
  BY <1>3, ClickStep
<1>4. CASE \/ Remote!PointerEnds \/ Remote!KeyEnds \/ Remote!WindowLeft
           \/ Remote!Mount \/ Remote!Unmount \/ Remote!Replug
  BY <1>4, ReleaseStep, PanelStep
<1>5. CASE \E p \in Remote!Press : Remote!Fire(p)
  BY <1>5, FireStep
<1>6. CASE Remote!Transmit \/ Remote!Written \/ Remote!WriteFails
  BY <1>6, TransmitStep, PressWrittenStep, WriteFailsStep
<1>7. QED
  BY <1>1, <1>2, <1>3, <1>4, <1>5, <1>6 DEF Remote!Next

\* A key that was released, by whatever event, sends at most one command more, the one
\* that was on its way, and never starts another timer: for any number of presses and of
\* changes of the line.
THEOREM NoRepeatAfterReleaseAlways == Spec => []Remote!NoRepeatAfterRelease
<1>1. Remote!Init => Pressed
  BY RemoteHolds, PressedInit
<1>2. Pressed /\ [Remote!Next]_remoteVars => Pressed'
  BY RemoteHolds, PressedStep
<1>3. Pressed => Remote!NoRepeatAfterRelease
  <2>1. ASSUME Pressed
        PROVE  DOMAIN lane = 1 .. Len(lane)
    BY <2>1, LanePresses, LenProperties
  <2>2. QED
    BY <2>1 DEF Pressed, OneHold, OneCommand, Spent, Remote!NoRepeatAfterRelease
<1>4. Init => Remote!Init
  BY DEF Init
<1>5. [Next]_<<focus, adbVars, uploadVars, fileVars, commandVars, listVars,
               mailVars, viewVars, chatVars, sheetVars, remoteVars>>
      => [Remote!Next]_remoteVars
  BY DEF Next
<1>6. QED
  BY <1>1, <1>2, <1>3, <1>4, <1>5, PTL DEF Spec

-----------------------------------------------------------------------------
(* The dialogs of the file browser *)

DialogRecord ==
    [modal : {"none", "preview", "share", "copy"}, file : File \cup {Nothing},
     loading : BOOLEAN, loaded : BOOLEAN, editing : BOOLEAN, conflict : BOOLEAN,
     latest : Browser!Text \cup {Nothing}, content : Browser!Text \cup {Nothing},
     revision : Browser!Text \cup {Nothing}, shares : File \cup {Nothing}, batch : SUBSET File]

WorkRecord ==
    [pc : {"idle", "put", "saved", "refused", "latest", "exists", "asked", "sending"},
     entry : File \cup {Nothing}, done : SUBSET File, text : Browser!Text \cup {Nothing},
     revision : Browser!Text \cup {Nothing}]

DialogsTyped ==
    /\ dialog \in DialogRecord /\ work \in WorkRecord
    /\ asking \in {"nobody", "batch", "upload"}
    /\ picked \in [pc : {"idle", "exists", "asked"}, left : 0 .. Uploads]
    /\ texts \in Browser!Text /\ stored \in [File -> Browser!Text] /\ seen \subseteq Browser!Text
    /\ copied \subseteq File

\* A dialog that loads has one request under way, its own.
OwnRequest ==
    /\ reads = IF dialog.loading THEN {[modal |-> dialog.modal, file |-> dialog.file]} ELSE {}
    /\ dialog.loading => dialog.modal \in {"preview", "share"}
    /\ dialog.modal \in {"preview", "share"} => dialog.file \in File
    /\ dialog.editing => dialog.modal = "preview" /\ ~dialog.loading
    /\ dialog.modal = "share" /\ dialog.loaded => dialog.shares = dialog.file

\* An operation belongs to the dialog that is open, and a batch of copies keeps out
\* whatever was copied.
WorkOfDialog ==
    /\ work.pc \in {"put", "saved", "refused", "latest"} =>
           dialog.modal = "preview" /\ ~dialog.loading
    /\ work.pc = "put" => work.entry \in File /\ work.text \in Browser!Text
    /\ work.pc \in {"exists", "asked", "sending"} =>
           /\ dialog.modal = "copy" /\ work.entry \in dialog.batch \ work.done
           /\ copied \cap dialog.batch \subseteq work.done
    /\ work.pc = "idle" /\ dialog.modal = "copy" => copied \cap dialog.batch = {}

\* A revision that is held was on the screen.
RevisionsSeen ==
    /\ dialog.revision \in seen \cup {Nothing} /\ dialog.latest \in seen \cup {Nothing}
    /\ work.pc = "put" => work.revision \in seen \cup {Nothing}

QuestionsOpen ==
    /\ asking = "upload" => picked.pc = "asked"
    /\ picked.pc # "idle" => picked.left # 0

DialogsInv == DialogsTyped /\ OwnRequest /\ WorkOfDialog /\ RevisionsSeen /\ QuestionsOpen

LEMMA TextIsNat == Nothing \notin Browser!Text /\ Nothing \notin File /\ Browser!Text \subseteq Nat
                   /\ 0 \in Browser!Text
  BY FilesHold DEF Browser!BrowserAssumption, Browser!Text

LEMMA DialogFields ==
    ASSUME NEW d \in DialogRecord
    PROVE  /\ d.modal \in {"none", "preview", "share", "copy"} /\ d.file \in File \cup {Nothing}
           /\ d.loading \in BOOLEAN /\ d.loaded \in BOOLEAN /\ d.editing \in BOOLEAN
           /\ d.conflict \in BOOLEAN /\ d.latest \in Browser!Text \cup {Nothing}
           /\ d.content \in Browser!Text \cup {Nothing}
           /\ d.revision \in Browser!Text \cup {Nothing}
           /\ d.shares \in File \cup {Nothing} /\ d.batch \in SUBSET File
<1>1. /\ d.modal \in {"none", "preview", "share", "copy"} /\ d.file \in File \cup {Nothing}
      /\ d.latest \in Browser!Text \cup {Nothing} /\ d.content \in Browser!Text \cup {Nothing}
      /\ d.revision \in Browser!Text \cup {Nothing} /\ d.shares \in File \cup {Nothing}
  BY DEF DialogRecord
<1>2. d.batch \in SUBSET File
  BY DEF DialogRecord
<1>3. /\ d.loading \in BOOLEAN /\ d.loaded \in BOOLEAN
      /\ d.editing \in BOOLEAN /\ d.conflict \in BOOLEAN
  BY Zenon DEF DialogRecord
<1>4. QED
  BY <1>1, <1>2, <1>3

LEMMA WorkFields ==
    ASSUME NEW w \in WorkRecord
    PROVE  /\ w.pc \in {"idle", "put", "saved", "refused", "latest", "exists", "asked", "sending"}
           /\ w.entry \in File \cup {Nothing} /\ w.done \subseteq File
           /\ w.text \in Browser!Text \cup {Nothing} /\ w.revision \in Browser!Text \cup {Nothing}
  BY DEF WorkRecord

LEMMA IdleWork == Browser!Idle \in WorkRecord /\ Browser!Idle.pc = "idle"
  BY DEF Browser!Idle, WorkRecord

LEMMA NoDialogFields == Browser!NoDialog \in DialogRecord
    /\ Browser!NoDialog.modal = "none" /\ Browser!NoDialog.loading = FALSE
    /\ Browser!NoDialog.editing = FALSE /\ Browser!NoDialog.loaded = FALSE
    /\ Browser!NoDialog.latest = Nothing /\ Browser!NoDialog.revision = Nothing
  BY DEF Browser!NoDialog, DialogRecord

\* A dialog as it opens and closes: what it kept of the last one.
Blank(d) == [Browser!NoDialog EXCEPT !.revision = d.revision, !.shares = d.shares]

Previewed(d, f) == [Blank(d) EXCEPT !.modal = "preview", !.file = f, !.loading = TRUE]

Shared(d, f) == [Blank(d) EXCEPT !.modal = "share", !.file = f, !.loading = TRUE]

Copying(d, b) == [Blank(d) EXCEPT !.modal = "copy", !.batch = b]

LEMMA BlankFields ==
    ASSUME NEW d \in DialogRecord
    PROVE  LET e == Blank(d) IN
           /\ e \in DialogRecord /\ e.modal = "none" /\ e.loading = FALSE /\ e.loaded = FALSE
           /\ e.editing = FALSE /\ e.latest = Nothing /\ e.revision = d.revision
<1>1. d.revision \in Browser!Text \cup {Nothing} /\ d.shares \in File \cup {Nothing}
  BY DialogFields
<1>2. QED
  BY <1>1 DEF Blank, Browser!NoDialog, DialogRecord

LEMMA PreviewFields ==
    ASSUME NEW d \in DialogRecord, NEW f \in File
    PROVE  LET e == Previewed(d, f) IN
           /\ e \in DialogRecord /\ e.modal = "preview" /\ e.file = f /\ e.loading = TRUE
           /\ e.loaded = FALSE /\ e.editing = FALSE /\ e.latest = Nothing
           /\ e.revision = d.revision
<1>1. Blank(d) \in DialogRecord /\ Blank(d).loaded = FALSE /\ Blank(d).editing = FALSE
      /\ Blank(d).latest = Nothing /\ Blank(d).revision = d.revision
  BY BlankFields
<1>2. QED
  BY <1>1 DEF Previewed, DialogRecord

LEMMA SharedFields ==
    ASSUME NEW d \in DialogRecord, NEW f \in File
    PROVE  LET e == Shared(d, f) IN
           /\ e \in DialogRecord /\ e.modal = "share" /\ e.file = f /\ e.loading = TRUE
           /\ e.loaded = FALSE /\ e.editing = FALSE /\ e.latest = Nothing
           /\ e.revision = d.revision
<1>1. Blank(d) \in DialogRecord /\ Blank(d).loaded = FALSE /\ Blank(d).editing = FALSE
      /\ Blank(d).latest = Nothing /\ Blank(d).revision = d.revision
  BY BlankFields
<1>2. QED
  BY <1>1 DEF Shared, DialogRecord

LEMMA CopyFields ==
    ASSUME NEW d \in DialogRecord, NEW b \in SUBSET File
    PROVE  LET e == Copying(d, b) IN
           /\ e \in DialogRecord /\ e.modal = "copy" /\ e.loading = FALSE /\ e.loaded = FALSE
           /\ e.editing = FALSE /\ e.latest = Nothing /\ e.revision = d.revision /\ e.batch = b
<1>1. Blank(d) \in DialogRecord /\ Blank(d).loading = FALSE /\ Blank(d).loaded = FALSE
      /\ Blank(d).editing = FALSE /\ Blank(d).latest = Nothing /\ Blank(d).revision = d.revision
  BY BlankFields
<1>2. QED
  BY <1>1 DEF Copying, DialogRecord

\* What concerns neither the requests nor the copies of a dialog.
SameFrame(d, e) ==
    /\ e.modal = d.modal /\ e.file = d.file /\ e.loading = d.loading /\ e.loaded = d.loaded
    /\ e.editing = d.editing /\ e.shares = d.shares /\ e.batch = d.batch

TextIn(d, t) == [d EXCEPT !.content = t]

Conflicting(d) == [d EXCEPT !.conflict = TRUE]

LatestIn(d, t) == [d EXCEPT !.latest = t]

SettledAs(d, use) ==
    [d EXCEPT !.revision = d.latest, !.latest = Nothing, !.conflict = FALSE,
              !.content = IF use THEN d.latest ELSE d.content]

WithText(d, t) == [d EXCEPT !.content = t, !.loading = FALSE, !.revision = t, !.loaded = TRUE]

Unread(d) == [d EXCEPT !.loading = FALSE]

WithShares(d, f) == [d EXCEPT !.shares = f, !.loading = FALSE, !.loaded = TRUE]

Toggled(d) == [d EXCEPT !.editing = ~d.editing]

Left(d, b) == [d EXCEPT !.batch = b]

LEMMA TextFields ==
    ASSUME NEW d \in DialogRecord, NEW t \in Browser!Text
    PROVE  LET e == TextIn(d, t) IN
           e \in DialogRecord /\ SameFrame(d, e) /\ e.revision = d.revision /\ e.latest = d.latest
  BY DEF TextIn, SameFrame, DialogRecord

LEMMA ConflictFields ==
    ASSUME NEW d \in DialogRecord
    PROVE  LET e == Conflicting(d) IN
           e \in DialogRecord /\ SameFrame(d, e) /\ e.revision = d.revision /\ e.latest = d.latest
  BY DEF Conflicting, SameFrame, DialogRecord

LEMMA LatestFields ==
    ASSUME NEW d \in DialogRecord, NEW t \in Browser!Text
    PROVE  LET e == LatestIn(d, t) IN
           e \in DialogRecord /\ SameFrame(d, e) /\ e.revision = d.revision /\ e.latest = t
  BY DEF LatestIn, SameFrame, DialogRecord

LEMMA SettledAsFields ==
    ASSUME NEW d \in DialogRecord, NEW use \in BOOLEAN
    PROVE  LET e == SettledAs(d, use) IN
           e \in DialogRecord /\ SameFrame(d, e) /\ e.revision = d.latest /\ e.latest = Nothing
<1>1. PICK x : x = IF use THEN d.latest ELSE d.content
  OBVIOUS
<1>2. x \in Browser!Text \cup {Nothing} /\ d.latest \in Browser!Text \cup {Nothing}
  BY <1>1, DialogFields
<1>3. SettledAs(d, use) = [d EXCEPT !.revision = d.latest, !.latest = Nothing, !.conflict = FALSE,
                                  !.content = x]
  BY <1>1 DEF SettledAs
<1>4. QED
  BY <1>2, <1>3 DEF SameFrame, DialogRecord

LEMMA ReadFields ==
    ASSUME NEW d \in DialogRecord, NEW t \in Browser!Text
    PROVE  LET e == WithText(d, t) IN
           /\ e \in DialogRecord /\ e.modal = d.modal /\ e.file = d.file /\ e.loading = FALSE
           /\ e.editing = d.editing /\ e.shares = d.shares /\ e.batch = d.batch
           /\ e.revision = t /\ e.latest = d.latest
  BY DEF WithText, DialogRecord

LEMMA UnreadFields ==
    ASSUME NEW d \in DialogRecord
    PROVE  LET e == Unread(d) IN
           /\ e \in DialogRecord /\ e.modal = d.modal /\ e.file = d.file /\ e.loading = FALSE
           /\ e.editing = d.editing /\ e.shares = d.shares /\ e.batch = d.batch
           /\ e.loaded = d.loaded /\ e.revision = d.revision /\ e.latest = d.latest
  BY DEF Unread, DialogRecord

LEMMA SharesFields ==
    ASSUME NEW d \in DialogRecord, NEW f \in File
    PROVE  LET e == WithShares(d, f) IN
           /\ e \in DialogRecord /\ e.modal = d.modal /\ e.file = d.file /\ e.loading = FALSE
           /\ e.editing = d.editing /\ e.shares = f /\ e.batch = d.batch
           /\ e.revision = d.revision /\ e.latest = d.latest
  BY DEF WithShares, DialogRecord

LEMMA ToggledFields ==
    ASSUME NEW d \in DialogRecord
    PROVE  LET e == Toggled(d) IN
           /\ e \in DialogRecord /\ e.modal = d.modal /\ e.file = d.file
           /\ e.loading = d.loading /\ e.loaded = d.loaded /\ e.shares = d.shares
           /\ e.batch = d.batch /\ e.revision = d.revision /\ e.latest = d.latest
<1>1. (~d.editing) \in BOOLEAN
  OBVIOUS
<1>2. QED
  BY <1>1 DEF Toggled, DialogRecord

LEMMA LeftFields ==
    ASSUME NEW d \in DialogRecord, NEW b \in SUBSET File
    PROVE  LET e == Left(d, b) IN
           /\ e \in DialogRecord /\ e.modal = d.modal /\ e.file = d.file
           /\ e.loading = d.loading /\ e.loaded = d.loaded /\ e.shares = d.shares
           /\ e.editing = d.editing /\ e.batch = b /\ e.revision = d.revision
           /\ e.latest = d.latest
  BY DEF Left, DialogRecord

LEMMA DialogsInit == Browser!Init => DialogsInv
<1>1. ASSUME Browser!Init
      PROVE  DialogsInv
  <2>1. /\ dialog = Browser!NoDialog /\ reads = {} /\ work = Browser!Idle
        /\ asking = "nobody" /\ picked = [pc |-> "idle", left |-> 0]
        /\ texts = 0 /\ stored = [f \in File |-> 0] /\ seen = {} /\ copied = {}
    BY <1>1 DEF Browser!Init
  <2>2. Uploads \in Nat
    BY FilesHold DEF Browser!BrowserAssumption
  <2>3. DialogsTyped
    BY <2>1, <2>2, TextIsNat, NoDialogFields, IdleWork DEF DialogsTyped
  <2>4. OwnRequest /\ WorkOfDialog /\ RevisionsSeen /\ QuestionsOpen
    BY <2>1, NoDialogFields, IdleWork DEF OwnRequest, WorkOfDialog, RevisionsSeen, QuestionsOpen
  <2>5. QED
    BY <2>3, <2>4 DEF DialogsInv
<1>2. QED
  BY <1>1

LEMMA OpenFileStep ==
    ASSUME DialogsInv, NEW f \in File, Browser!OpenFile(f)
    PROVE  DialogsInv'
<1>1. /\ dialog.modal = "none"
      /\ dialog' = Previewed(dialog, f)
      /\ reads' = {[modal |-> "preview", file |-> f]}
      /\ UNCHANGED <<work, asking, picked, texts, stored, seen, copied>>
  <2>1. [Browser!NoDialog EXCEPT !.modal = "preview", !.file = f, !.loading = TRUE,
                                 !.revision = dialog.revision, !.shares = dialog.shares]
            = Previewed(dialog, f)
    BY DEF Previewed, Blank, Browser!NoDialog
  <2>2. QED
    BY <2>1 DEF Browser!OpenFile, Browser!Read, Browser!Aborted
<1>2. dialog \in DialogRecord
  BY DEF DialogsInv, DialogsTyped
<1>3. /\ dialog' \in DialogRecord /\ dialog'.modal = "preview" /\ dialog'.file = f
      /\ dialog'.loading = TRUE /\ dialog'.loaded = FALSE /\ dialog'.editing = FALSE
      /\ dialog'.latest = Nothing /\ dialog'.revision = dialog.revision
  BY <1>1, <1>2, PreviewFields
<1>4. DialogsTyped'
  BY <1>1, <1>3 DEF DialogsInv, DialogsTyped
<1>5. OwnRequest'
  BY <1>1, <1>3 DEF OwnRequest
<1>6. WorkOfDialog'
  BY <1>1, <1>3 DEF DialogsInv, WorkOfDialog
<1>7. RevisionsSeen' /\ QuestionsOpen'
  BY <1>1, <1>3 DEF DialogsInv, RevisionsSeen, QuestionsOpen
<1>8. QED
  BY <1>4, <1>5, <1>6, <1>7 DEF DialogsInv

LEMMA ShowSharesStep ==
    ASSUME DialogsInv, NEW f \in File, Browser!ShowShares(f)
    PROVE  DialogsInv'
<1>1. /\ dialog.modal = "none"
      /\ dialog' = Shared(dialog, f)
      /\ reads' = {[modal |-> "share", file |-> f]}
      /\ UNCHANGED <<work, asking, picked, texts, stored, seen, copied>>
  BY DEF Browser!ShowShares, Browser!Read, Browser!Aborted, Browser!Closed, Shared, Blank
<1>2. dialog \in DialogRecord
  BY DEF DialogsInv, DialogsTyped
<1>3. /\ dialog' \in DialogRecord /\ dialog'.modal = "share" /\ dialog'.file = f
      /\ dialog'.loading = TRUE /\ dialog'.loaded = FALSE /\ dialog'.editing = FALSE
      /\ dialog'.latest = Nothing /\ dialog'.revision = dialog.revision
  BY <1>1, <1>2, SharedFields
<1>4. DialogsTyped'
  BY <1>1, <1>3 DEF DialogsInv, DialogsTyped
<1>5. OwnRequest'
  BY <1>1, <1>3 DEF OwnRequest
<1>6. WorkOfDialog'
  BY <1>1, <1>3 DEF DialogsInv, WorkOfDialog
<1>7. RevisionsSeen' /\ QuestionsOpen'
  BY <1>1, <1>3 DEF DialogsInv, RevisionsSeen, QuestionsOpen
<1>8. QED
  BY <1>4, <1>5, <1>6, <1>7 DEF DialogsInv

LEMMA DialogReadStep ==
    ASSUME DialogsInv, NEW r \in reads,
           Browser!TextRead(r) \/ Browser!ReadFails(r) \/ Browser!SharesRead(r)
    PROVE  DialogsInv'
<1>1. /\ dialog \in DialogRecord /\ dialog.loading /\ reads = {r} /\ dialog.file \in File
      /\ r.modal = dialog.modal /\ r.file = dialog.file
      /\ stored \in [File -> Browser!Text] /\ dialog.modal \in {"preview", "share"}
      /\ ~dialog.editing
  <2>1. dialog.loading
    BY DEF DialogsInv, OwnRequest
  <2>2. QED
    BY <2>1 DEF DialogsInv, DialogsTyped, OwnRequest
<1>2. reads' = {} /\ UNCHANGED <<work, asking, picked, texts, stored, copied>>
  BY <1>1 DEF Browser!TextRead, Browser!ReadFails, Browser!SharesRead
<1>3. /\ dialog' \in DialogRecord /\ dialog'.modal = dialog.modal /\ dialog'.file = dialog.file
      /\ dialog'.loading = FALSE /\ dialog'.editing = dialog.editing
      /\ dialog'.batch = dialog.batch /\ dialog'.latest = dialog.latest
      /\ seen \subseteq seen' /\ seen' \subseteq Browser!Text
      /\ dialog'.revision \in seen' \cup {dialog.revision}
      /\ dialog'.modal = "share" /\ dialog'.loaded => dialog'.shares = dialog'.file
  <2>1. CASE Browser!TextRead(r)
    <3>1. /\ r.modal = "preview" /\ stored[r.file] \in Browser!Text
          /\ dialog' = WithText(dialog, stored[r.file])
          /\ seen' = seen \cup {stored[r.file]}
      BY <1>1, <2>1 DEF Browser!TextRead, WithText
    <3>2. PICK t \in Browser!Text : t = stored[r.file]
      BY <3>1
    <3>3. /\ dialog' \in DialogRecord /\ dialog'.modal = dialog.modal
          /\ dialog'.file = dialog.file /\ dialog'.loading = FALSE
          /\ dialog'.editing = dialog.editing /\ dialog'.shares = dialog.shares
          /\ dialog'.batch = dialog.batch /\ dialog'.revision = t
          /\ dialog'.latest = dialog.latest
      BY <1>1, <3>1, <3>2, ReadFields
    <3>4. QED
      BY <1>1, <3>1, <3>2, <3>3 DEF DialogsInv, DialogsTyped
  <2>2. CASE Browser!ReadFails(r)
    <3>1. dialog' = Unread(dialog) /\ seen' = seen
      BY <2>2 DEF Browser!ReadFails, Unread
    <3>2. /\ dialog' \in DialogRecord /\ dialog'.modal = dialog.modal
          /\ dialog'.file = dialog.file /\ dialog'.loading = FALSE
          /\ dialog'.editing = dialog.editing /\ dialog'.shares = dialog.shares
          /\ dialog'.batch = dialog.batch /\ dialog'.loaded = dialog.loaded
          /\ dialog'.revision = dialog.revision /\ dialog'.latest = dialog.latest
      BY <1>1, <3>1, UnreadFields
    <3>3. QED
      BY <3>1, <3>2 DEF DialogsInv, DialogsTyped, OwnRequest
  <2>3. CASE Browser!SharesRead(r)
    <3>1. /\ dialog' = WithShares(dialog, r.file)
          /\ seen' = seen /\ r.file \in File
      BY <1>1, <2>3 DEF Browser!SharesRead, WithShares
    <3>2. /\ dialog' \in DialogRecord /\ dialog'.modal = dialog.modal
          /\ dialog'.file = dialog.file /\ dialog'.loading = FALSE
          /\ dialog'.editing = dialog.editing /\ dialog'.shares = r.file
          /\ dialog'.batch = dialog.batch
          /\ dialog'.revision = dialog.revision /\ dialog'.latest = dialog.latest
      BY <1>1, <3>1, SharesFields
    <3>3. QED
      BY <1>1, <3>1, <3>2 DEF DialogsInv, DialogsTyped
  <2>4. QED
    BY <2>1, <2>2, <2>3
<1>4. DialogsTyped'
  BY <1>2, <1>3 DEF DialogsInv, DialogsTyped
<1>5. OwnRequest'
  BY <1>1, <1>2, <1>3 DEF DialogsInv, OwnRequest
<1>6. WorkOfDialog'
  BY <1>1, <1>2, <1>3 DEF DialogsInv, WorkOfDialog
<1>7. RevisionsSeen' /\ QuestionsOpen'
  BY <1>2, <1>3 DEF DialogsInv, RevisionsSeen, QuestionsOpen
<1>8. QED
  BY <1>4, <1>5, <1>6, <1>7 DEF DialogsInv

\* A step that changes what the dialog says of its text, and perhaps what is written.
LEMMA TextStep ==
    ASSUME DialogsInv, dialog' \in DialogRecord, SameFrame(dialog, dialog'),
           seen \subseteq seen', seen' \subseteq Browser!Text, texts' \in Browser!Text,
           dialog'.revision \in seen' \cup {Nothing}, dialog'.latest \in seen' \cup {Nothing},
           work' = work \/ (dialog.modal # "copy" /\ work' = Browser!Idle),
           UNCHANGED <<reads, asking, picked, stored, copied>>
    PROVE  DialogsInv'
<1>1. DialogsTyped'
  BY IdleWork DEF DialogsInv, DialogsTyped
<1>2. OwnRequest'
  BY DEF DialogsInv, OwnRequest, SameFrame
<1>3. WorkOfDialog'
  BY IdleWork DEF DialogsInv, WorkOfDialog, SameFrame
<1>4. RevisionsSeen' /\ QuestionsOpen'
  BY IdleWork DEF DialogsInv, RevisionsSeen, QuestionsOpen
<1>5. QED
  BY <1>1, <1>2, <1>3, <1>4 DEF DialogsInv

\* A save that breaks, and the other steps after which only the text differs.
LEMMA EditorStep ==
    ASSUME DialogsInv,
           \/ Browser!Type \/ Browser!Conflict \/ Browser!SaveBreaks \/ Browser!LatestRead
           \/ \E use \in BOOLEAN : Browser!Settle(use)
    PROVE  DialogsInv'
<1>1. /\ dialog \in DialogRecord /\ texts \in Browser!Text /\ seen \subseteq Browser!Text
      /\ dialog.revision \in seen \cup {Nothing} /\ dialog.latest \in seen \cup {Nothing}
      /\ SameFrame(dialog, dialog)
  BY DEF DialogsInv, DialogsTyped, RevisionsSeen, SameFrame
<1>2. CASE Browser!Type
  <2>1. /\ texts < MaxTexts /\ texts' = texts + 1 /\ dialog' = TextIn(dialog, texts + 1)
        /\ UNCHANGED <<reads, work, asking, picked, stored, seen, copied>>
    BY <1>2 DEF Browser!Type, TextIn
  <2>2. texts + 1 \in Browser!Text
    BY <1>1, <2>1, FilesHold DEF Browser!Text, Browser!BrowserAssumption
  <2>3. /\ dialog' \in DialogRecord /\ SameFrame(dialog, dialog')
        /\ dialog'.revision = dialog.revision /\ dialog'.latest = dialog.latest
    BY <1>1, <2>1, <2>2, TextFields
  <2>4. QED
    BY <1>1, <2>1, <2>2, <2>3, TextStep
<1>3. CASE Browser!Conflict
  <2>1. /\ work' = Browser!Idle /\ work.pc = "refused" /\ dialog' = Conflicting(dialog)
        /\ UNCHANGED <<reads, asking, picked, texts, stored, seen, copied>>
    BY <1>3 DEF Browser!Conflict, Conflicting
  <2>2. /\ dialog' \in DialogRecord /\ SameFrame(dialog, dialog')
        /\ dialog'.revision = dialog.revision /\ dialog'.latest = dialog.latest
    BY <1>1, <2>1, ConflictFields
  <2>3. dialog.modal # "copy"
    BY <2>1 DEF DialogsInv, WorkOfDialog
  <2>4. QED
    BY <1>1, <2>1, <2>2, <2>3, TextStep
<1>4. CASE Browser!SaveBreaks
  <2>1. /\ work' = Browser!Idle /\ work.pc \in {"put", "saved", "refused", "latest"}
        /\ UNCHANGED <<dialog, reads, asking, picked, texts, stored, seen, copied>>
    BY <1>4 DEF Browser!SaveBreaks
  <2>2. dialog.modal # "copy"
    BY <2>1 DEF DialogsInv, WorkOfDialog
  <2>3. dialog' \in DialogRecord /\ SameFrame(dialog, dialog')
    BY <1>1, <2>1
  <2>4. QED
    BY <1>1, <2>1, <2>2, <2>3, TextStep
<1>5. CASE Browser!LatestRead
  <2>1. /\ work' = Browser!Idle /\ work.pc = "latest"
        /\ dialog' = LatestIn(dialog, stored[dialog.file])
        /\ seen' = seen \cup {stored[dialog.file]}
        /\ UNCHANGED <<reads, asking, picked, texts, stored, copied>>
    BY <1>5 DEF Browser!LatestRead, Browser!Compared, LatestIn
  <2>2. dialog.modal # "copy" /\ stored[dialog.file] \in Browser!Text
    BY <2>1 DEF DialogsInv, DialogsTyped, WorkOfDialog, OwnRequest
  <2>3. /\ dialog' \in DialogRecord /\ SameFrame(dialog, dialog')
        /\ dialog'.revision = dialog.revision /\ dialog'.latest = stored[dialog.file]
    BY <1>1, <2>1, <2>2, LatestFields
  <2>4. QED
    BY <1>1, <2>1, <2>2, <2>3, TextStep
<1>6. ASSUME NEW use \in BOOLEAN, Browser!Settle(use)
      PROVE  DialogsInv'
  <2>1. /\ dialog.latest # Nothing
        /\ dialog' = SettledAs(dialog, use)
        /\ UNCHANGED <<reads, work, asking, picked, texts, stored, seen, copied>>
    BY <1>6, Zenon DEF Browser!Settle, SettledAs
  <2>3. /\ dialog' \in DialogRecord /\ SameFrame(dialog, dialog')
        /\ dialog'.revision = dialog.latest /\ dialog'.latest = Nothing
    BY <1>1, <2>1, SettledAsFields
  <2>4. QED
    BY <1>1, <2>1, <2>3, TextStep
<1>7. QED
  BY <1>2, <1>3, <1>4, <1>5, <1>6

LEMMA ToggleStep ==
    ASSUME DialogsInv, Browser!ToggleEdit
    PROVE  DialogsInv'
<1>1. /\ dialog.modal = "preview" /\ ~dialog.loading /\ dialog' = Toggled(dialog)
      /\ UNCHANGED <<reads, work, asking, picked, texts, stored, seen, copied>>
      /\ dialog \in DialogRecord
  BY DEF Browser!ToggleEdit, Toggled, DialogsInv, DialogsTyped
<1>2. /\ dialog' \in DialogRecord /\ dialog'.modal = dialog.modal /\ dialog'.file = dialog.file
      /\ dialog'.loading = dialog.loading /\ dialog'.loaded = dialog.loaded
      /\ dialog'.shares = dialog.shares /\ dialog'.batch = dialog.batch
      /\ dialog'.revision = dialog.revision /\ dialog'.latest = dialog.latest
  BY <1>1, ToggledFields
<1>3. DialogsTyped' /\ OwnRequest'
  BY <1>1, <1>2 DEF DialogsInv, DialogsTyped, OwnRequest
<1>4. WorkOfDialog' /\ RevisionsSeen' /\ QuestionsOpen'
  BY <1>1, <1>2 DEF DialogsInv, WorkOfDialog, RevisionsSeen, QuestionsOpen
<1>5. QED
  BY <1>3, <1>4 DEF DialogsInv

PutOf(d) == [Browser!Idle EXCEPT !.pc = "put", !.entry = d.file, !.text = d.content,
                                 !.revision = d.revision]

LEMMA PutFields ==
    ASSUME NEW d \in DialogRecord
    PROVE  LET w == PutOf(d) IN
           /\ w \in WorkRecord /\ w.pc = "put" /\ w.entry = d.file /\ w.text = d.content
           /\ w.revision = d.revision
<1>1. /\ d.file \in File \cup {Nothing} /\ d.content \in Browser!Text \cup {Nothing}
      /\ d.revision \in Browser!Text \cup {Nothing}
  BY DialogFields
<1>2. QED
  BY <1>1 DEF PutOf, Browser!Idle, WorkRecord

At(w, s) == [w EXCEPT !.pc = s]

LEMMA AtFields ==
    ASSUME NEW w \in WorkRecord, NEW s,
           s \in {"idle", "put", "saved", "refused", "latest", "exists", "asked", "sending"}
    PROVE  LET v == At(w, s) IN
           /\ v \in WorkRecord /\ v.pc = s /\ v.entry = w.entry /\ v.done = w.done
           /\ v.text = w.text /\ v.revision = w.revision
  BY DEF At, WorkRecord

LEMMA SaveStep ==
    ASSUME DialogsInv, Browser!SaveText \/ Browser!LoadLatest
    PROVE  DialogsInv'
<1>1. /\ dialog \in DialogRecord /\ Browser!Idle \in WorkRecord
      /\ UNCHANGED <<dialog, reads, asking, picked, texts, stored, seen, copied>>
  BY IdleWork DEF Browser!SaveText, Browser!LoadLatest, DialogsInv, DialogsTyped
<1>2. CASE Browser!SaveText
  <2>1. /\ dialog.modal = "preview" /\ ~dialog.loading /\ dialog.content # Nothing
        /\ work' = PutOf(dialog)
    BY <1>2 DEF Browser!SaveText, PutOf
  <2>2. /\ work' \in WorkRecord /\ work'.pc = "put" /\ work'.entry = dialog.file
        /\ work'.text = dialog.content /\ work'.revision = dialog.revision
    BY <1>1, <2>1, PutFields
  <2>3. dialog.file \in File /\ dialog.content \in Browser!Text
    BY <1>1, <2>1, DialogFields DEF DialogsInv, OwnRequest
  <2>4. DialogsTyped' /\ OwnRequest'
    BY <1>1, <2>2 DEF DialogsInv, DialogsTyped, OwnRequest
  <2>5. WorkOfDialog' /\ RevisionsSeen' /\ QuestionsOpen'
    BY <1>1, <2>1, <2>2, <2>3 DEF DialogsInv, WorkOfDialog, RevisionsSeen, QuestionsOpen
  <2>6. QED
    BY <2>4, <2>5 DEF DialogsInv
<1>3. CASE Browser!LoadLatest
  <2>1. dialog.editing /\ work' = At(Browser!Idle, "latest")
    BY <1>3 DEF Browser!LoadLatest, At
  <2>2. work' \in WorkRecord /\ work'.pc = "latest"
    BY <1>1, <2>1, AtFields
  <2>3. dialog.modal = "preview" /\ ~dialog.loading
    BY <2>1 DEF DialogsInv, OwnRequest
  <2>4. DialogsTyped' /\ OwnRequest'
    BY <1>1, <2>2 DEF DialogsInv, DialogsTyped, OwnRequest
  <2>5. WorkOfDialog' /\ RevisionsSeen' /\ QuestionsOpen'
    BY <1>1, <2>2, <2>3 DEF DialogsInv, WorkOfDialog, RevisionsSeen, QuestionsOpen
  <2>6. QED
    BY <2>4, <2>5 DEF DialogsInv
<1>4. QED
  BY <1>2, <1>3

LEMMA PutStep ==
    ASSUME DialogsInv, Browser!PutArrives
    PROVE  DialogsInv'
<1>1. /\ work.pc = "put" /\ UNCHANGED <<dialog, reads, asking, picked, texts, seen, copied>>
      /\ \/ stored' = [stored EXCEPT ![work.entry] = work.text] /\ work' = At(work, "saved")
         \/ stored' = stored /\ work' = At(work, "refused")
  BY DEF Browser!PutArrives, At
<1>2. /\ work \in WorkRecord /\ work.entry \in File /\ work.text \in Browser!Text
      /\ dialog.modal = "preview" /\ ~dialog.loading
  BY <1>1 DEF DialogsInv, DialogsTyped, WorkOfDialog
<1>3. /\ stored' \in [File -> Browser!Text] /\ work' \in WorkRecord
      /\ work'.pc \in {"saved", "refused"}
  BY <1>1, <1>2, AtFields DEF DialogsInv, DialogsTyped
<1>4. DialogsTyped' /\ OwnRequest'
  BY <1>1, <1>3 DEF DialogsInv, DialogsTyped, OwnRequest
<1>5. WorkOfDialog' /\ RevisionsSeen' /\ QuestionsOpen'
  BY <1>1, <1>2, <1>3 DEF DialogsInv, WorkOfDialog, RevisionsSeen, QuestionsOpen
<1>6. QED
  BY <1>4, <1>5 DEF DialogsInv

\* The dialog closes with nothing under way.
LEMMA ClosedStep ==
    ASSUME DialogsInv, dialog' = Blank(dialog), reads' = {}, work' \in WorkRecord,
           work'.pc = "idle",
           asking' \in {asking, "nobody"}, copied' \subseteq File,
           UNCHANGED <<picked, texts, stored, seen>>
    PROVE  DialogsInv'
<1>1. dialog \in DialogRecord
  BY DEF DialogsInv, DialogsTyped
<1>2. /\ dialog' \in DialogRecord /\ dialog'.modal = "none" /\ dialog'.loading = FALSE
      /\ dialog'.loaded = FALSE /\ dialog'.editing = FALSE /\ dialog'.latest = Nothing
      /\ dialog'.revision = dialog.revision
  BY <1>1, BlankFields
<1>3. DialogsTyped' /\ OwnRequest'
  BY <1>2 DEF DialogsInv, DialogsTyped, OwnRequest
<1>4. WorkOfDialog' /\ RevisionsSeen' /\ QuestionsOpen'
  BY <1>2 DEF DialogsInv, WorkOfDialog, RevisionsSeen, QuestionsOpen
<1>5. QED
  BY <1>3, <1>4 DEF DialogsInv

LEMMA CloseStep ==
    ASSUME DialogsInv, Browser!TextSaved \/ Browser!Close
    PROVE  DialogsInv'
<1>1. CASE Browser!TextSaved
  <2>1. /\ work.pc = "saved" /\ work' = Browser!Idle /\ dialog' = Blank(dialog)
        /\ UNCHANGED <<reads, asking, picked, texts, stored, seen, copied>>
    BY <1>1 DEF Browser!TextSaved, Browser!Closed, Blank
  <2>2. reads' = {} /\ copied \subseteq File
    BY <2>1 DEF DialogsInv, DialogsTyped, WorkOfDialog, OwnRequest
  <2>3. QED
    BY <2>1, <2>2, IdleWork, ClosedStep
<1>2. CASE Browser!Close
  <2>1. /\ work.pc = "idle" /\ dialog' = Blank(dialog) /\ reads' = {}
        /\ UNCHANGED <<work, asking, picked, texts, stored, seen, copied>>
    BY <1>2 DEF Browser!Close, Browser!Closed, Browser!Aborted, Blank
  <2>2. work \in WorkRecord /\ copied \subseteq File
    BY DEF DialogsInv, DialogsTyped
  <2>3. QED
    BY <2>1, <2>2, ClosedStep
<1>3. QED
  BY <1>1, <1>2

LEMMA OtherEditStep ==
    ASSUME DialogsInv, NEW f \in File, Browser!OtherEdit(f)
    PROVE  DialogsInv'
<1>1. /\ texts < MaxTexts /\ texts' = texts + 1 /\ stored' = [stored EXCEPT ![f] = texts + 1]
      /\ UNCHANGED <<dialog, reads, work, asking, picked, seen, copied>>
  BY DEF Browser!OtherEdit
<1>2. texts + 1 \in Browser!Text
  BY <1>1, FilesHold DEF DialogsInv, DialogsTyped, Browser!Text, Browser!BrowserAssumption
<1>3. stored' \in [File -> Browser!Text]
  BY <1>1, <1>2 DEF DialogsInv, DialogsTyped
<1>4. DialogsTyped' /\ OwnRequest'
  BY <1>1, <1>2, <1>3 DEF DialogsInv, DialogsTyped, OwnRequest
<1>5. WorkOfDialog' /\ RevisionsSeen' /\ QuestionsOpen'
  BY <1>1 DEF DialogsInv, WorkOfDialog, RevisionsSeen, QuestionsOpen
<1>6. QED
  BY <1>4, <1>5 DEF DialogsInv

-----------------------------------------------------------------------------
(* Copies of several entries, and the names of picked files *)

\* A step of a batch on the dialog as it stands.
LEMMA BatchStep ==
    ASSUME DialogsInv, dialog.modal = "copy", work' \in WorkRecord,
           work'.pc \in {"exists", "asked", "sending"},
           work'.entry \in dialog.batch \ work'.done,
           copied' \cap dialog.batch \subseteq work'.done,
           copied' \subseteq File, asking' \in {asking, "nobody", "batch"},
           UNCHANGED <<dialog, reads, picked, texts, stored, seen>>
    PROVE  DialogsInv'
<1>1. DialogsTyped' /\ OwnRequest'
  BY DEF DialogsInv, DialogsTyped, OwnRequest
<1>2. WorkOfDialog' /\ RevisionsSeen' /\ QuestionsOpen'
  BY DEF DialogsInv, WorkOfDialog, RevisionsSeen, QuestionsOpen
<1>3. QED
  BY <1>1, <1>2 DEF DialogsInv

CheckOf(e, done) == [Browser!Idle EXCEPT !.pc = "exists", !.entry = e, !.done = done]

LEMMA CheckFields ==
    ASSUME NEW e \in File, NEW q \in SUBSET File
    PROVE  LET w == CheckOf(e, q) IN
           w \in WorkRecord /\ w.pc = "exists" /\ w.entry = e /\ w.done = q
  BY DEF CheckOf, Browser!Idle, WorkRecord

LEMMA NextCopy ==
    ASSUME DialogsInv, dialog.modal = "copy", NEW q \in SUBSET File, Browser!Step(q),
           copied' \cap dialog.batch \subseteq q, copied' \subseteq File,
           asking' \in {asking, "nobody"}, UNCHANGED <<reads, picked, texts, stored, seen>>
    PROVE  DialogsInv'
<1>1. CASE dialog.batch \subseteq q
  <2>1. work' = Browser!Idle /\ dialog' = Blank(dialog)
    BY <1>1 DEF Browser!Step, Browser!Closed, Blank
  <2>2. reads' = {}
    BY DEF DialogsInv, OwnRequest
  <2>3. QED
    BY <2>1, <2>2, IdleWork, ClosedStep
<1>2. CASE ~(dialog.batch \subseteq q)
  <2>1. PICK e \in dialog.batch \ q : work' = CheckOf(e, q)
    BY <1>2, Zenon DEF Browser!Step, CheckOf
  <2>2. UNCHANGED dialog
    BY <1>2, Zenon DEF Browser!Step
  <2>3. dialog.batch \subseteq File
    BY DialogFields DEF DialogsInv, DialogsTyped
  <2>4. work' \in WorkRecord /\ work'.pc = "exists" /\ work'.entry = e /\ work'.done = q
    BY <2>1, <2>3, CheckFields
  <2>5. QED
    BY <2>1, <2>2, <2>4, BatchStep
<1>3. QED
  BY <1>1, <1>2

LEMMA Working ==
    ASSUME DialogsInv, work.pc \in {"exists", "asked", "sending"}
    PROVE  /\ dialog.modal = "copy" /\ work \in WorkRecord /\ work.done \in SUBSET File
           /\ work.entry \in dialog.batch \ work.done /\ work.entry \in File
           /\ copied \cap dialog.batch \subseteq work.done /\ copied \subseteq File
           /\ dialog.batch \in SUBSET File
<1>1. work \in WorkRecord /\ dialog \in DialogRecord /\ copied \subseteq File
  BY DEF DialogsInv, DialogsTyped
<1>2. dialog.batch \in SUBSET File /\ work.done \in SUBSET File
  BY <1>1, DialogFields, WorkFields
<1>3. QED
  BY <1>1, <1>2 DEF DialogsInv, WorkOfDialog

LEMMA CopyStep ==
    ASSUME DialogsInv,
           \/ Browser!SubmitCopy \/ Browser!CopySent
           \/ \E yes \in BOOLEAN : Browser!NameChecked(yes) \/ Browser!CopyAnswered(yes)
    PROVE  DialogsInv'
<1>1. CASE Browser!SubmitCopy
  <2>1. /\ dialog.modal = "copy" /\ work.pc = "idle" /\ Browser!Step({})
        /\ UNCHANGED <<reads, asking, picked, texts, stored, seen, copied>>
    BY <1>1 DEF Browser!SubmitCopy
  <2>2. copied \cap dialog.batch \subseteq {} /\ copied \subseteq File
    BY <2>1 DEF DialogsInv, DialogsTyped, WorkOfDialog
  <2>3. QED
    BY <2>1, <2>2, NextCopy
<1>2. CASE Browser!CopySent
  <2>1. /\ work.pc = "sending" /\ Browser!Step(work.done \cup {work.entry})
        /\ copied' = copied \cup {work.entry}
        /\ UNCHANGED <<reads, asking, picked, texts, stored, seen>>
    BY <1>2 DEF Browser!CopySent
  <2>2. PICK q : q = work.done \cup {work.entry}
    OBVIOUS
  <2>3. q \in SUBSET File /\ copied' \cap dialog.batch \subseteq q /\ copied' \subseteq File
    BY <2>1, <2>2, Working
  <2>4. QED
    BY <2>1, <2>2, <2>3, NextCopy, Working
<1>3. ASSUME NEW yes \in BOOLEAN, Browser!NameChecked(yes)
      PROVE  DialogsInv'
  <2>1. /\ work.pc = "exists" /\ work' = At(work, IF yes THEN "asked" ELSE "sending")
        /\ asking' = (IF yes THEN "batch" ELSE asking)
        /\ UNCHANGED <<dialog, reads, picked, texts, stored, seen, copied>>
    BY <1>3 DEF Browser!NameChecked, At
  <2>2. /\ work' \in WorkRecord /\ work'.pc \in {"asked", "sending"}
        /\ work'.entry = work.entry /\ work'.done = work.done
    <3>1. CASE work' = At(work, "asked")
      BY <2>1, <3>1, Working, AtFields
    <3>2. CASE work' = At(work, "sending")
      BY <2>1, <3>2, Working, AtFields
    <3>3. QED
      BY <2>1, <3>1, <3>2
  <2>3. QED
    BY <2>1, <2>2, Working, BatchStep
<1>4. ASSUME NEW yes \in BOOLEAN, Browser!CopyAnswered(yes)
      PROVE  DialogsInv'
  <2>1. /\ work.pc = "asked" /\ asking' = "nobody"
        /\ UNCHANGED <<reads, picked, texts, stored, seen, copied>>
        /\ \/ work' = At(work, "sending") /\ UNCHANGED dialog
           \/ Browser!Step(work.done \cup {work.entry})
    BY <1>4 DEF Browser!CopyAnswered, At
  <2>2. CASE work' = At(work, "sending") /\ UNCHANGED dialog
    <3>1. /\ work' \in WorkRecord /\ work'.pc = "sending"
          /\ work'.entry = work.entry /\ work'.done = work.done
      BY <2>1, <2>2, Working, AtFields
    <3>2. QED
      BY <2>1, <2>2, <3>1, Working, BatchStep
  <2>3. CASE Browser!Step(work.done \cup {work.entry})
    <3>1. PICK q : q = work.done \cup {work.entry}
      OBVIOUS
    <3>2. q \in SUBSET File /\ copied' \cap dialog.batch \subseteq q /\ copied' \subseteq File
      BY <2>1, <3>1, Working
    <3>3. QED
      BY <2>1, <2>3, <3>1, <3>2, NextCopy, Working
  <2>4. QED
    BY <2>1, <2>2, <2>3
<1>5. QED
  BY <1>1, <1>2, <1>3, <1>4

LEMMA CopyFailsStep ==
    ASSUME DialogsInv, Browser!CopyFails
    PROVE  DialogsInv'
<1>1. /\ work.pc \in {"exists", "asked", "sending"} /\ work' = Browser!Idle
      /\ dialog' = Left(dialog, dialog.batch \ work.done)
      /\ UNCHANGED <<reads, asking, picked, texts, stored, seen, copied>>
  BY DEF Browser!CopyFails, Browser!Remaining, Left
<1>2. /\ dialog \in DialogRecord /\ dialog.batch \ work.done \in SUBSET File
      /\ copied \cap dialog.batch \subseteq work.done /\ dialog.modal = "copy"
  BY <1>1, Working DEF DialogsInv, DialogsTyped
<1>3. /\ dialog' \in DialogRecord /\ dialog'.modal = dialog.modal /\ dialog'.file = dialog.file
      /\ dialog'.loading = dialog.loading /\ dialog'.loaded = dialog.loaded
      /\ dialog'.shares = dialog.shares /\ dialog'.editing = dialog.editing
      /\ dialog'.batch = dialog.batch \ work.done /\ dialog'.revision = dialog.revision
      /\ dialog'.latest = dialog.latest
  BY <1>1, <1>2, LeftFields
<1>4. DialogsTyped' /\ OwnRequest'
  BY <1>1, <1>3, IdleWork DEF DialogsInv, DialogsTyped, OwnRequest
<1>5. WorkOfDialog' /\ RevisionsSeen' /\ QuestionsOpen'
  BY <1>1, <1>2, <1>3, IdleWork DEF DialogsInv, WorkOfDialog, RevisionsSeen, QuestionsOpen
<1>6. QED
  BY <1>4, <1>5 DEF DialogsInv

LEMMA ShowCopyStep ==
    ASSUME DialogsInv, NEW b \in SUBSET File, Browser!ShowCopy(b)
    PROVE  DialogsInv'
<1>1. /\ dialog.modal = "none" /\ dialog' = Copying(dialog, b) /\ reads' = {} /\ copied' = {}
      /\ UNCHANGED <<work, asking, picked, texts, stored, seen>>
  BY DEF Browser!ShowCopy, Browser!Closed, Browser!Aborted, Copying, Blank
<1>2. dialog \in DialogRecord
  BY DEF DialogsInv, DialogsTyped
<1>3. /\ dialog' \in DialogRecord /\ dialog'.modal = "copy" /\ dialog'.loading = FALSE
      /\ dialog'.loaded = FALSE /\ dialog'.editing = FALSE /\ dialog'.latest = Nothing
      /\ dialog'.revision = dialog.revision /\ dialog'.batch = b
  BY <1>1, <1>2, CopyFields
<1>4. DialogsTyped' /\ OwnRequest'
  BY <1>1, <1>3 DEF DialogsInv, DialogsTyped, OwnRequest
<1>5. WorkOfDialog' /\ RevisionsSeen' /\ QuestionsOpen'
  BY <1>1, <1>3 DEF DialogsInv, WorkOfDialog, RevisionsSeen, QuestionsOpen
<1>6. QED
  BY <1>4, <1>5 DEF DialogsInv

LEMMA PickStep ==
    ASSUME DialogsInv,
           \/ Browser!PickFiles \/ Browser!PickAnswered \/ Browser!PickFails
           \/ \E yes \in BOOLEAN : Browser!PickChecked(yes)
    PROVE  DialogsInv'
<1>1. UNCHANGED <<dialog, reads, work, texts, stored, seen, copied>>
  BY DEF Browser!PickFiles, Browser!PickAnswered, Browser!PickFails, Browser!PickChecked
<1>2. /\ Uploads \in Nat /\ asking \in {"nobody", "batch", "upload"}
      /\ picked \in [pc : {"idle", "exists", "asked"}, left : 0 .. Uploads]
      /\ (asking = "upload" => picked.pc = "asked") /\ (picked.pc # "idle" => picked.left # 0)
  BY FilesHold DEF DialogsInv, DialogsTyped, QuestionsOpen, Browser!BrowserAssumption
<1>3. ASSUME NEW n \in 0 .. Uploads, Browser!PickNext(n), asking' # "upload",
             asking' \in {asking, "nobody"}
      PROVE  /\ picked' \in [pc : {"idle", "exists", "asked"}, left : 0 .. Uploads]
             /\ asking' \in {"nobody", "batch", "upload"}
             /\ (asking' = "upload" => picked'.pc = "asked")
             /\ (picked'.pc # "idle" => picked'.left # 0)
  <2>1. CASE n = 0
    BY <1>2, <1>3, <2>1 DEF Browser!PickNext
  <2>2. CASE n # 0
    BY <1>2, <1>3, <2>2 DEF Browser!PickNext
  <2>3. QED
    BY <2>1, <2>2
<1>4. picked.left # 0 => picked.left - 1 \in 0 .. Uploads
  BY <1>2
<1>5. /\ picked' \in [pc : {"idle", "exists", "asked"}, left : 0 .. Uploads]
      /\ asking' \in {"nobody", "batch", "upload"}
      /\ (asking' = "upload" => picked'.pc = "asked")
      /\ (picked'.pc # "idle" => picked'.left # 0)
  <2>1. CASE Browser!PickFiles
    BY <1>2, <2>1 DEF Browser!PickFiles
  <2>2. CASE Browser!PickAnswered
    <3>1. /\ asking = "upload" /\ asking' = "nobody" /\ Browser!PickNext(picked.left - 1)
      BY <2>2 DEF Browser!PickAnswered
    <3>2. picked.left - 1 \in 0 .. Uploads
      BY <1>2, <1>4, <3>1
    <3>3. QED
      BY <1>3, <3>1, <3>2
  <2>3. CASE Browser!PickFails
    <3>1. asking' = asking /\ picked.pc = "exists" /\ Browser!PickNext(0)
      BY <2>3 DEF Browser!PickFails
    <3>2. 0 \in 0 .. Uploads
      BY <1>2
    <3>3. asking' # "upload"
      BY <1>2, <3>1
    <3>4. QED
      BY <1>3, <3>1, <3>2, <3>3
  <2>4. ASSUME NEW yes \in BOOLEAN, Browser!PickChecked(yes)
        PROVE  /\ picked' \in [pc : {"idle", "exists", "asked"}, left : 0 .. Uploads]
               /\ asking' \in {"nobody", "batch", "upload"}
               /\ (asking' = "upload" => picked'.pc = "asked")
               /\ (picked'.pc # "idle" => picked'.left # 0)
    <3>1. picked.pc = "exists"
      BY <2>4 DEF Browser!PickChecked
    <3>2. CASE yes
      BY <1>2, <2>4, <3>1, <3>2 DEF Browser!PickChecked
    <3>3. CASE ~yes
      <4>1. Browser!PickNext(picked.left - 1) /\ asking' = asking
        BY <2>4, <3>3 DEF Browser!PickChecked
      <4>2. picked.left - 1 \in 0 .. Uploads /\ asking' # "upload"
        BY <1>2, <1>4, <3>1, <4>1
      <4>3. QED
        BY <1>3, <4>1, <4>2
    <3>4. QED
      BY <3>2, <3>3
  <2>5. QED
    BY <2>1, <2>2, <2>3, <2>4
<1>6. DialogsTyped' /\ OwnRequest'
  BY <1>1, <1>5 DEF DialogsInv, DialogsTyped, OwnRequest
<1>7. WorkOfDialog' /\ RevisionsSeen' /\ QuestionsOpen'
  BY <1>1, <1>5 DEF DialogsInv, WorkOfDialog, RevisionsSeen, QuestionsOpen
<1>8. QED
  BY <1>6, <1>7 DEF DialogsInv

LEMMA DialogsStep == DialogsInv /\ [Browser!Next]_fileVars => DialogsInv'
<1> SUFFICES ASSUME DialogsInv, [Browser!Next]_fileVars
             PROVE  DialogsInv'
  OBVIOUS
<1>1. CASE UNCHANGED fileVars
  BY <1>1 DEF fileVars, DialogsInv, DialogsTyped, OwnRequest, WorkOfDialog, RevisionsSeen,
              QuestionsOpen
<1>2. CASE \E f \in File : Browser!OpenFile(f) \/ Browser!OtherEdit(f) \/ Browser!ShowShares(f)
  BY <1>2, OpenFileStep, OtherEditStep, ShowSharesStep
<1>3. CASE \E r \in reads : Browser!TextRead(r) \/ Browser!ReadFails(r) \/ Browser!SharesRead(r)
  BY <1>3, DialogReadStep
<1>4. CASE \/ Browser!Type \/ Browser!Conflict \/ Browser!SaveBreaks \/ Browser!LatestRead
           \/ \E use \in BOOLEAN : Browser!Settle(use)
  BY <1>4, EditorStep
<1>5. CASE \/ Browser!ToggleEdit \/ Browser!SaveText \/ Browser!PutArrives \/ Browser!TextSaved
           \/ Browser!LoadLatest \/ Browser!Close
  BY <1>5, ToggleStep, SaveStep, PutStep, CloseStep
<1>6. CASE \E b \in SUBSET File : Browser!ShowCopy(b)
  BY <1>6, ShowCopyStep
<1>7. CASE \/ Browser!SubmitCopy \/ Browser!CopySent
           \/ \E yes \in BOOLEAN : Browser!NameChecked(yes) \/ Browser!CopyAnswered(yes)
  BY <1>7, CopyStep
<1>8. CASE Browser!CopyFails
  BY <1>8, CopyFailsStep
<1>9. CASE \/ Browser!PickFiles \/ Browser!PickAnswered \/ Browser!PickFails
           \/ \E yes \in BOOLEAN : Browser!PickChecked(yes)
  BY <1>9, PickStep
<1>10. QED
  BY <1>1, <1>2, <1>3, <1>4, <1>5, <1>6, <1>7, <1>8, <1>9 DEF Browser!Next

LEMMA DialogsFollow ==
    DialogsInv => Browser!TypeOK /\ Browser!DialogIsSelected /\ Browser!RetryOnlyRest
<1> SUFFICES ASSUME DialogsInv
             PROVE  Browser!TypeOK /\ Browser!DialogIsSelected /\ Browser!RetryOnlyRest
  OBVIOUS
<1>1. reads \subseteq [modal : {"preview", "share"}, file : File]
  BY DEF DialogsInv, OwnRequest
<1>2. Browser!TypeOK
  BY <1>1 DEF DialogsInv, DialogsTyped, DialogRecord, WorkRecord, Browser!TypeOK
<1>3. Browser!DialogIsSelected
  BY DEF DialogsInv, OwnRequest, Browser!DialogIsSelected
<1>4. Browser!RetryOnlyRest
  BY DEF DialogsInv, WorkOfDialog, Browser!RetryOnlyRest
<1>5. QED
  BY <1>2, <1>3, <1>4

\* A save of the file browser replaces a text that was on the screen.
LEMMA PutOverSeen ==
    ASSUME DialogsInv, Browser!PutArrives, NEW f \in File, stored'[f] # stored[f]
    PROVE  stored[f] \in seen
<1>1. work.pc = "put" /\ work.revision = stored[work.entry]
      /\ stored' = [stored EXCEPT ![work.entry] = work.text]
  BY DEF Browser!PutArrives
<1>2. stored \in [File -> Browser!Text]
  BY DEF DialogsInv, DialogsTyped
<1>3. f = work.entry /\ stored[f] # Nothing
  BY <1>1, <1>2, TextIsNat
<1>4. work.revision \in seen \cup {Nothing}
  BY <1>1 DEF DialogsInv, RevisionsSeen
<1>5. QED
  BY <1>1, <1>3, <1>4

-----------------------------------------------------------------------------
(* Quick commands *)

CommandList == [Commands!Id -> Body \cup {Absent}]

EditorRecord ==
    [status : {"none", "editing", "conflict", "compare"}, id : 0 .. MaxIds,
     draft : Body \cup {Absent}, original : Body \cup {Absent}, latest : Body \cup {Absent}]

PutRecord ==
    [pc : {"idle", "load", "save", "remove", "saved", "removed", "refused", "failed"},
     keep : BOOLEAN, id : 0 .. MaxIds, base : Body \cup {Absent}, next : CommandList,
     revision : Commands!Catalog]

CommandsTyped ==
    /\ commands \in CommandList /\ revision \in Commands!Catalog /\ failure \in BOOLEAN
    /\ editor \in EditorRecord /\ request \in PutRecord
    /\ catalog \in Commands!Catalog /\ ids \in 0 .. MaxIds
    /\ others \in 0 .. MaxOthers /\ saves \in 0 .. MaxSaves

\* Only commands that were created are in a list.
Made(list, n) == \A i \in Commands!Id : list[i] # Absent => i <= n

CommandsMade ==
    /\ Made(commands, ids) /\ Made(revision.at, ids) /\ Made(catalog.at, ids)
    /\ request.pc \notin {"idle", "load"} => Made(request.next, ids)

\* What is listed is what the revision held.
ListOfRevision == \A i \in Commands!Id : commands[i] # Absent => commands[i] = revision.at[i]

\* A request belongs to the state of the editor.
RequestOfEditor ==
    /\ request.pc = "load" => editor.status = IF request.keep THEN "conflict" ELSE "none"
    /\ request.pc \in {"save", "saved", "refused"} => editor.status = "editing"
    /\ request.pc \in {"remove", "removed", "failed"} => editor.status = "none"

\* What the editor began from, or compares with, is what its revision held.
BaseOfRevision ==
    /\ editor.status # "none" => editor.id \in Commands!Id /\ editor.id <= ids
    /\ editor.status = "editing" => editor.original = revision.at[editor.id]
    /\ editor.status = "compare" => editor.latest = revision.at[editor.id]
    /\ request.pc \in {"save", "remove"} =>
           request.id \in Commands!Id /\ request.base = request.revision.at[request.id]

CommandsInv ==
    CommandsTyped /\ CommandsMade /\ ListOfRevision /\ RequestOfEditor /\ BaseOfRevision

LEMMA IdNat == /\ MaxIds \in Nat /\ Commands!Id = 1 .. MaxIds
               /\ \A i \in Commands!Id : i \in Nat /\ i # 0 /\ i \in 0 .. MaxIds
  BY CommandsHold DEF Commands!CommandsAssumption, Commands!Id

LEMMA EditorFields ==
    ASSUME NEW e \in EditorRecord
    PROVE  /\ e.status \in {"none", "editing", "conflict", "compare"} /\ e.id \in 0 .. MaxIds
           /\ e.draft \in Body \cup {Absent} /\ e.original \in Body \cup {Absent}
           /\ e.latest \in Body \cup {Absent}
  BY DEF EditorRecord

LEMMA PutRecordFields ==
    ASSUME NEW q \in PutRecord
    PROVE  /\ q.pc \in {"idle", "load", "save", "remove", "saved", "removed", "refused", "failed"}
           /\ q.id \in 0 .. MaxIds /\ q.base \in Body \cup {Absent} /\ q.next \in CommandList
           /\ q.revision \in Commands!Catalog
  BY DEF PutRecord

LEMMA EmptyList == /\ Commands!Empty \in CommandList
                   /\ \A i \in Commands!Id : Commands!Empty[i] = Absent
  BY DEF Commands!Empty, CommandList

LEMMA CatalogFields ==
    ASSUME NEW c \in Commands!Catalog
    PROVE  c.at \in CommandList
  BY DEF Commands!Catalog, CommandList

CatalogOf(list) == [exists |-> TRUE, at |-> list]

LEMMA CatalogMade ==
    ASSUME NEW l \in CommandList
    PROVE  CatalogOf(l) \in Commands!Catalog /\ CatalogOf(l).at = l
  BY DEF Commands!Catalog, CommandList, CatalogOf

LEMMA MissingFields == Commands!Missing \in Commands!Catalog /\ Commands!Missing.at = Commands!Empty
  BY EmptyList DEF Commands!Missing, Commands!Catalog, CommandList

LEMMA NoEditorFields == Commands!NoEditor \in EditorRecord /\ Commands!NoEditor.status = "none"
  BY IdNat DEF Commands!NoEditor, EditorRecord

LEMMA LoadingFields ==
    ASSUME NEW k \in BOOLEAN
    PROVE  /\ Commands!Loading(k) \in PutRecord /\ Commands!Loading(k).pc = "load"
           /\ (Commands!Loading(k).keep <=> k)
           /\ Commands!NoRequest \in PutRecord /\ Commands!NoRequest.pc = "idle"
<1>1. Commands!Empty \in CommandList /\ Commands!Missing \in Commands!Catalog /\ 0 \in 0 .. MaxIds
  BY EmptyList, MissingFields, IdNat
<1>2. Commands!NoRequest \in PutRecord /\ Commands!NoRequest.pc = "idle"
  BY <1>1 DEF Commands!NoRequest, PutRecord
<1>3. Commands!Loading(k) \in PutRecord /\ Commands!Loading(k).pc = "load"
  BY <1>2 DEF Commands!Loading, PutRecord
<1>4. Commands!Loading(k).keep = k
  BY <1>2 DEF Commands!Loading, PutRecord
<1>5. QED
  BY <1>2, <1>3, <1>4

Draft(i, b, o) == [status |-> "editing", id |-> i, draft |-> b, original |-> o, latest |-> Absent]

Typing(e, b) == [e EXCEPT !.draft = b]

Comparing(e, l) == [e EXCEPT !.status = "compare", !.latest = l]

Going(e) == [e EXCEPT !.status = "editing", !.latest = Absent]

Refused(e) == [e EXCEPT !.status = "conflict", !.latest = Absent]

Taken(e) == [Commands!NoEditor EXCEPT !.status = "editing", !.id = e.id, !.draft = e.latest,
                                      !.original = e.latest]

LEMMA DraftFields ==
    ASSUME NEW i \in 0 .. MaxIds, NEW b \in Body \cup {Absent}, NEW o \in Body \cup {Absent}
    PROVE  LET e == Draft(i, b, o) IN
           /\ e \in EditorRecord /\ e.status = "editing" /\ e.id = i /\ e.original = o
           /\ e.draft = b /\ e.latest = Absent
  BY DEF Draft, EditorRecord

LEMMA TypingFields ==
    ASSUME NEW d \in EditorRecord, NEW b \in Body \cup {Absent}
    PROVE  LET e == Typing(d, b) IN
           /\ e \in EditorRecord /\ e.status = d.status /\ e.id = d.id
           /\ e.original = d.original /\ e.latest = d.latest
  BY DEF Typing, EditorRecord

LEMMA ComparingFields ==
    ASSUME NEW d \in EditorRecord, NEW b \in Body \cup {Absent}
    PROVE  LET e == Comparing(d, b) IN
           /\ e \in EditorRecord /\ e.status = "compare" /\ e.id = d.id
           /\ e.original = d.original /\ e.latest = b
  BY DEF Comparing, EditorRecord

LEMMA GoingFields ==
    ASSUME NEW d \in EditorRecord
    PROVE  LET e == Going(d) IN
           /\ e \in EditorRecord /\ e.status = "editing" /\ e.id = d.id /\ e.original = d.original
  BY DEF Going, EditorRecord

LEMMA RefusedFields ==
    ASSUME NEW d \in EditorRecord
    PROVE  LET e == Refused(d) IN
           /\ e \in EditorRecord /\ e.status = "conflict" /\ e.id = d.id
  BY DEF Refused, EditorRecord

LEMMA TakenFields ==
    ASSUME NEW d \in EditorRecord
    PROVE  LET e == Taken(d) IN
           /\ e \in EditorRecord /\ e.status = "editing" /\ e.id = d.id
           /\ e.original = d.latest
<1>1. d.id \in 0 .. MaxIds /\ d.latest \in Body \cup {Absent}
  BY EditorFields
<1>2. QED
  BY <1>1 DEF Taken, Commands!NoEditor, EditorRecord

Putting(s, i, o, l, r) ==
    [pc |-> s, keep |-> FALSE, id |-> i, base |-> o, next |-> l, revision |-> r]

LEMMA PuttingFields ==
    ASSUME NEW s, s \in {"save", "remove"}, NEW i \in 0 .. MaxIds, NEW o \in Body \cup {Absent},
           NEW l \in CommandList, NEW r \in Commands!Catalog
    PROVE  LET q == Putting(s, i, o, l, r) IN
           /\ q \in PutRecord /\ q.pc = s /\ q.id = i /\ q.base = o /\ q.next = l
           /\ q.revision = r
  BY DEF Putting, PutRecord

Reached(q, s) == [q EXCEPT !.pc = s]

LEMMA ReachedFields ==
    ASSUME NEW q \in PutRecord, NEW s, s \in {"saved", "removed", "refused", "failed"}
    PROVE  LET v == Reached(q, s) IN v \in PutRecord /\ v.pc = s /\ v.next = q.next
  BY DEF Reached, PutRecord

Changed(list, i, b) == [list EXCEPT ![i] = b]

LEMMA ChangedFields ==
    ASSUME NEW l \in CommandList, NEW i \in Commands!Id, NEW b \in Body \cup {Absent}
    PROVE  LET m == Changed(l, i, b) IN
           /\ m \in CommandList /\ m[i] = b
           /\ \A k \in Commands!Id : k # i => m[k] = l[k]
  BY DEF Changed, CommandList

LEMMA ListFields ==
    ASSUME NEW l \in CommandList, NEW i \in Commands!Id
    PROVE  l[i] \in Body \cup {Absent}
  BY DEF CommandList

\* A change to a command that was created makes none.
LEMMA ChangedMade ==
    ASSUME NEW l \in CommandList, NEW i \in Commands!Id, NEW b \in Body \cup {Absent},
           NEW n \in 0 .. MaxIds, NEW k \in 0 .. MaxIds, Made(l, n), i <= k, n <= k
    PROVE  Made(Changed(l, i, b), k)
<1>1. n \in Nat /\ k \in Nat /\ \A j \in Commands!Id : j \in Nat
  BY IdNat
<1>2. SUFFICES ASSUME NEW j \in Commands!Id, Changed(l, i, b)[j] # Absent PROVE j <= k
  BY DEF Made
<1>3. CASE j = i
  BY <1>3
<1>4. CASE j # i
  <2>1. l[j] # Absent
    BY <1>2, <1>4, ChangedFields
  <2>2. j <= n
    BY <2>1 DEF Made
  <2>3. QED
    BY <1>1, <2>2
<1>5. QED
  BY <1>3, <1>4

LEMMA MadeLater ==
    ASSUME NEW l, NEW n \in 0 .. MaxIds, NEW k \in 0 .. MaxIds, Made(l, n), n <= k
    PROVE  Made(l, k)
<1>1. n \in Nat /\ k \in Nat /\ \A j \in Commands!Id : j \in Nat
  BY IdNat
<1>2. QED
  BY <1>1 DEF Made

LEMMA CommandsFacts ==
    ASSUME CommandsTyped
    PROVE  /\ revision.at \in CommandList /\ catalog.at \in CommandList
           /\ editor.id \in 0 .. MaxIds /\ editor.draft \in Body \cup {Absent}
           /\ editor.original \in Body \cup {Absent} /\ editor.latest \in Body \cup {Absent}
           /\ request.id \in 0 .. MaxIds /\ request.base \in Body \cup {Absent}
           /\ request.next \in CommandList /\ request.revision \in Commands!Catalog
           /\ ids \in Nat
<1>1. revision.at \in CommandList /\ catalog.at \in CommandList
  BY CatalogFields DEF CommandsTyped
<1>2. editor \in EditorRecord /\ request \in PutRecord
  BY DEF CommandsTyped
<1>3. ids \in Nat
  BY IdNat DEF CommandsTyped
<1>4. QED
  BY <1>1, <1>2, <1>3, EditorFields, PutRecordFields

LEMMA CommandsInit == Commands!Init => CommandsInv
<1> SUFFICES ASSUME Commands!Init PROVE CommandsInv
  OBVIOUS
<1> USE DEF Commands!Init
<1>1. /\ MaxIds \in Nat /\ MaxOthers \in Nat /\ MaxSaves \in Nat
  BY CommandsHold DEF Commands!CommandsAssumption
<1>2. /\ catalog \in Commands!Catalog /\ ids \in 0 .. MaxIds /\ Made(catalog.at, ids)
  <2>1. CASE catalog = Commands!Missing /\ ids = 0
    BY <1>1, <2>1, MissingFields, EmptyList DEF Made
  <2>2. CASE /\ MaxIds > 0 /\ ids = 1
             /\ \E b \in Body : catalog = [exists |-> TRUE, at |-> [Commands!Empty EXCEPT ![1] = b]]
    <3>1. PICK b \in Body : catalog = [exists |-> TRUE, at |-> [Commands!Empty EXCEPT ![1] = b]]
      BY <2>2
    <3>2. 1 \in Commands!Id /\ 1 \in 0 .. MaxIds /\ 0 \in 0 .. MaxIds
      BY <1>1, <2>2, IdNat
    <3> DEFINE l == Changed(Commands!Empty, 1, b)
    <3>3. catalog = CatalogOf(l)
      BY <3>1 DEF CatalogOf, Changed
    <3>4. l \in CommandList
      BY <3>2, EmptyList, ChangedFields
    <3>5. Made(Commands!Empty, 0)
      BY EmptyList DEF Made
    <3>6. Made(l, 1)
      BY <3>2, <3>5, EmptyList, ChangedMade
    <3> HIDE DEF l
    <3>7. catalog \in Commands!Catalog /\ catalog.at = l
      BY <3>3, <3>4, CatalogMade
    <3>8. QED
      BY <2>2, <3>2, <3>6, <3>7
  <2>3. QED
    BY <2>1, <2>2
<1>3. editor \in EditorRecord /\ editor.status = "none"
  BY NoEditorFields
<1>4. request \in PutRecord /\ request.pc = "load" /\ ~request.keep
  BY LoadingFields
<1>5. commands \in CommandList /\ \A i \in Commands!Id : commands[i] = Absent
  BY EmptyList
<1>6. revision \in Commands!Catalog /\ revision.at = Commands!Empty
  BY MissingFields
<1>7. CommandsTyped
  <2>1. others \in 0 .. MaxOthers /\ saves \in 0 .. MaxSaves
    BY <1>1
  <2>2. failure \in BOOLEAN
    OBVIOUS
  <2> HIDE DEF Commands!Init
  <2>3. QED
    BY <1>2, <1>3, <1>4, <1>5, <1>6, <2>1, <2>2 DEF CommandsTyped
<1>8. CommandsMade
  BY <1>2, <1>4, <1>5, <1>6, EmptyList DEF CommandsMade, Made
<1>9. ListOfRevision
  BY <1>5 DEF ListOfRevision
<1>10. RequestOfEditor
  BY <1>3, <1>4 DEF RequestOfEditor
<1>11. BaseOfRevision
  BY <1>3, <1>4 DEF BaseOfRevision
<1>12. QED
  BY <1>7, <1>8, <1>9, <1>10, <1>11 DEF CommandsInv

-----------------------------------------------------------------------------
(* loading *)

LEMMA LoadKeeps ==
    ASSUME CommandsInv, NEW k \in BOOLEAN, Commands!Load(k)
    PROVE  CommandsInv'
<1> USE DEF CommandsInv, Commands!Load
<1>1. request' \in PutRecord /\ request'.pc = "load" /\ (request'.keep <=> k)
  BY LoadingFields
<1>2. CommandsTyped'
  BY <1>1 DEF CommandsTyped
<1>3. CommandsMade'
  BY <1>1 DEF CommandsMade
<1>4. ListOfRevision'
  BY DEF ListOfRevision
<1>5. RequestOfEditor'
  BY <1>1 DEF RequestOfEditor
<1>6. BaseOfRevision'
  BY <1>1 DEF BaseOfRevision
<1>7. QED
  BY <1>2, <1>3, <1>4, <1>5, <1>6

\* A reload leaves no draft, compares it with the file, or lets it go on.
LEMMA LoadedKeeps ==
    ASSUME CommandsInv, Commands!Loaded
    PROVE  CommandsInv'
<1> USE DEF CommandsInv, Commands!Loaded
<1>1. request' \in PutRecord /\ request'.pc = "idle"
  BY LoadingFields
<1>2. editor \in EditorRecord
  BY DEF CommandsTyped
<1>3. /\ editor' \in EditorRecord
      /\ editor'.status # "none" => editor'.id = editor.id /\ editor.status # "none"
      /\ editor'.status = "editing" => editor'.original = catalog.at[editor.id]
      /\ editor'.status = "compare" => editor'.latest = catalog.at[editor.id]
  <2>1. CASE ~request.keep
    <3>1. editor' = editor /\ editor.status = "none"
      BY <2>1 DEF RequestOfEditor
    <3>2. QED
      BY <1>2, <3>1
  <2>2. CASE request.keep
    <3> DEFINE l == catalog.at[editor.id]
    <3>1. editor.status = "conflict" /\ editor.id \in Commands!Id
      BY <2>2 DEF RequestOfEditor, BaseOfRevision
    <3>2. l \in Body \cup {Absent}
      BY <3>1, CommandsFacts, ListFields
    <3>3. editor' = Commands!Reconciled(l)
      BY <2>2
    <3> HIDE DEF l
    <3>4. CASE l = editor.draft
      <4>1. editor' = Commands!NoEditor
        BY <3>3, <3>4 DEF Commands!Reconciled
      <4>2. QED
        BY <4>1, NoEditorFields
    <3>5. CASE l # editor.draft /\ l # editor.original
      <4>1. editor' = Comparing(editor, l)
        BY <3>3, <3>5 DEF Commands!Reconciled, Comparing
      <4>2. QED
        BY <1>2, <3>1, <3>2, <4>1, ComparingFields DEF l
    <3>6. CASE l # editor.draft /\ l = editor.original
      <4>1. editor' = Going(editor)
        BY <3>3, <3>6 DEF Commands!Reconciled, Going
      <4>2. QED
        BY <1>2, <3>1, <3>6, <4>1, GoingFields DEF l
    <3>7. QED
      BY <3>4, <3>5, <3>6
  <2>3. QED
    BY <2>1, <2>2
<1>4. CommandsTyped'
  BY <1>1, <1>3, CommandsFacts DEF CommandsTyped
<1>5. CommandsMade'
  BY <1>1 DEF CommandsMade
<1>6. ListOfRevision'
  BY DEF ListOfRevision
<1>7. RequestOfEditor'
  BY <1>1 DEF RequestOfEditor
<1>8. BaseOfRevision'
  BY <1>1, <1>3 DEF BaseOfRevision
<1>9. QED
  BY <1>4, <1>5, <1>6, <1>7, <1>8

LEMMA LoadFailsKeeps ==
    ASSUME CommandsInv, Commands!LoadFails
    PROVE  CommandsInv'
<1> USE DEF CommandsInv, Commands!LoadFails
<1>1. request' \in PutRecord /\ request'.pc = "idle"
  BY LoadingFields
<1>2. commands' \in CommandList /\ \A i \in Commands!Id : commands'[i] = Absent
  BY EmptyList
<1>3. CommandsTyped'
  BY <1>1, <1>2 DEF CommandsTyped
<1>4. CommandsMade'
  BY <1>1, <1>2 DEF CommandsMade, Made
<1>5. ListOfRevision'
  BY <1>2 DEF ListOfRevision
<1>6. RequestOfEditor'
  BY <1>1 DEF RequestOfEditor
<1>7. BaseOfRevision'
  BY <1>1 DEF BaseOfRevision
<1>8. QED
  BY <1>3, <1>4, <1>5, <1>6, <1>7

-----------------------------------------------------------------------------
(* editing *)

\* An edit begins from what the revision held, with no request under way.
LEMMA EditingKeeps ==
    ASSUME CommandsInv, request.pc = "idle",
           UNCHANGED <<commands, revision, request, catalog, others, saves>>,
           failure' \in BOOLEAN, ids' \in 0 .. MaxIds, ids <= ids',
           editor' \in EditorRecord,
           editor'.status # "none" => editor'.id \in Commands!Id /\ editor'.id <= ids',
           editor'.status = "editing" => editor'.original = revision.at[editor'.id],
           editor'.status = "compare" => editor'.latest = revision.at[editor'.id]
    PROVE  CommandsInv'
<1> USE DEF CommandsInv
<1>1. CommandsTyped'
  BY DEF CommandsTyped
<1>2. CommandsMade'
  <2>1. ids \in 0 .. MaxIds
    BY DEF CommandsTyped
  <2>2. PICK n : n = ids
    OBVIOUS
  <2>3. PICK k : k = ids'
    OBVIOUS
  <2>4. n \in 0 .. MaxIds /\ k \in 0 .. MaxIds /\ n <= k
    BY <2>1, <2>2, <2>3
  <2>5. Made(commands, k) /\ Made(revision.at, k) /\ Made(catalog.at, k)
    BY <2>2, <2>4, MadeLater DEF CommandsMade
  <2>6. QED
    BY <2>3, <2>5 DEF CommandsMade, Made
<1>3. ListOfRevision'
  BY DEF ListOfRevision
<1>4. RequestOfEditor'
  BY DEF RequestOfEditor
<1>5. BaseOfRevision'
  BY DEF BaseOfRevision
<1>6. QED
  BY <1>1, <1>2, <1>3, <1>4, <1>5

LEMMA NewKeeps ==
    ASSUME CommandsInv, NEW b \in Body, Commands!New(b)
    PROVE  CommandsInv'
<1> USE DEF CommandsInv, Commands!New
<1>1. /\ ids + 1 \in Commands!Id /\ ids + 1 \in 0 .. MaxIds /\ ids \in Nat
  BY CommandsFacts, IdNat
<1>2. editor' = Draft(ids + 1, b, Absent)
  BY DEF Commands!Edits, Draft
<1>3. /\ editor' \in EditorRecord /\ editor'.status = "editing" /\ editor'.id = ids + 1
      /\ editor'.original = Absent
  BY <1>1, <1>2, DraftFields
<1>4. revision.at[ids + 1] = Absent
  BY <1>1 DEF CommandsMade, Made
<1>5. ids' = ids + 1 /\ ids' \in 0 .. MaxIds /\ ids <= ids' /\ editor'.id <= ids'
  BY <1>1, <1>3
<1>6. failure' \in BOOLEAN
  BY DEF Commands!Edits
<1>7. QED
  BY <1>1, <1>3, <1>4, <1>5, <1>6, EditingKeeps

LEMMA EditKeeps ==
    ASSUME CommandsInv, NEW i \in Commands!Id, Commands!Edit(i)
    PROVE  CommandsInv'
<1> USE DEF CommandsInv, Commands!Edit
<1>1. /\ commands[i] \in Body \cup {Absent} /\ i \in 0 .. MaxIds /\ i <= ids
      /\ commands[i] = revision.at[i]
  BY IdNat, ListFields DEF CommandsTyped, CommandsMade, Made, ListOfRevision
<1>2. editor' = Draft(i, commands[i], commands[i])
  BY DEF Commands!Edits, Draft
<1>3. /\ editor' \in EditorRecord /\ editor'.status = "editing" /\ editor'.id = i
      /\ editor'.original = commands[i]
  BY <1>1, <1>2, DraftFields
<1>4. failure' \in BOOLEAN
  BY DEF Commands!Edits
<1>5. ids' = ids /\ ids \in 0 .. MaxIds /\ ids <= ids
  BY CommandsFacts DEF CommandsTyped
<1>6. QED
  BY <1>1, <1>3, <1>4, <1>5, EditingKeeps

LEMMA TypeKeeps ==
    ASSUME CommandsInv, NEW b \in Body, Commands!Type(b)
    PROVE  CommandsInv'
<1> USE DEF CommandsInv, Commands!Type
<1>1. editor \in EditorRecord
  BY DEF CommandsTyped
<1>2. editor' = Typing(editor, b)
  BY DEF Typing
<1>3. /\ editor' \in EditorRecord /\ editor'.status = editor.status /\ editor'.id = editor.id
      /\ editor'.original = editor.original /\ editor'.latest = editor.latest
  BY <1>1, <1>2, TypingFields
<1>4. failure' \in BOOLEAN
  BY DEF CommandsTyped
<1>5. ids' = ids /\ ids \in 0 .. MaxIds /\ ids <= ids
  BY CommandsFacts DEF CommandsTyped
<1>6. QED
  BY <1>3, <1>4, <1>5, EditingKeeps DEF BaseOfRevision

LEMMA CancelKeeps ==
    ASSUME CommandsInv, Commands!Cancel
    PROVE  CommandsInv'
<1> USE DEF CommandsInv, Commands!Cancel
<1>1. editor' \in EditorRecord /\ editor'.status = "none"
  BY NoEditorFields
<1>2. ids' = ids /\ ids \in 0 .. MaxIds /\ ids <= ids
  BY CommandsFacts DEF CommandsTyped
<1>3. QED
  BY <1>1, <1>2, EditingKeeps

LEMMA KeepDraftKeeps ==
    ASSUME CommandsInv, Commands!KeepDraft
    PROVE  CommandsInv'
<1> USE DEF CommandsInv, Commands!KeepDraft
<1>1. /\ editor.id \in Commands!Id /\ editor.id <= ids /\ editor.latest = revision.at[editor.id]
  BY DEF BaseOfRevision
<1>2. failure' \in BOOLEAN
  BY DEF Commands!Edits
<1>3. CASE editor.latest # Absent
  <2>1. editor' = Draft(editor.id, editor.draft, editor.latest) /\ ids' = ids
    BY <1>3 DEF Commands!Edits, Draft
  <2>2. /\ editor' \in EditorRecord /\ editor'.status = "editing" /\ editor'.id = editor.id
        /\ editor'.original = editor.latest
    BY <2>1, CommandsFacts, DraftFields
  <2>3. ids \in 0 .. MaxIds /\ ids <= ids
    BY CommandsFacts DEF CommandsTyped
  <2>4. QED
    BY <1>1, <1>2, <2>1, <2>2, <2>3, EditingKeeps
<1>4. CASE editor.latest = Absent
  <2>1. editor' = Draft(ids + 1, editor.draft, Absent) /\ ids' = ids + 1 /\ ids < MaxIds
    BY <1>4 DEF Commands!Edits, Draft
  <2>2. ids + 1 \in Commands!Id /\ ids + 1 \in 0 .. MaxIds /\ ids \in Nat
    BY <2>1, CommandsFacts, IdNat
  <2>3. /\ editor' \in EditorRecord /\ editor'.status = "editing" /\ editor'.id = ids + 1
        /\ editor'.original = Absent
    BY <2>1, <2>2, CommandsFacts, DraftFields
  <2>4. revision.at[ids + 1] = Absent
    BY <2>2 DEF CommandsMade, Made
  <2>5. ids <= ids' /\ editor'.id <= ids' /\ ids' \in 0 .. MaxIds
    BY <2>1, <2>2, <2>3
  <2>6. QED
    BY <1>2, <2>2, <2>3, <2>4, <2>5, EditingKeeps
<1>5. QED
  BY <1>3, <1>4

\* While a comparison is shown no request is under way.
LEMMA UseLatestKeeps ==
    ASSUME CommandsInv, Commands!UseLatest
    PROVE  CommandsInv'
<1> USE DEF CommandsInv, Commands!UseLatest
<1>1. request.pc = "idle"
  <2>1. request \in PutRecord
    BY DEF CommandsTyped
  <2>2. request.pc \in {"idle", "load", "save", "remove", "saved", "removed", "refused", "failed"}
    BY <2>1, PutRecordFields
  <2>3. QED
    BY <2>2 DEF RequestOfEditor
<1>2. editor.id \in Commands!Id /\ editor.id <= ids /\ editor.latest = revision.at[editor.id]
  BY DEF BaseOfRevision
<1>3. ids' = ids /\ ids \in 0 .. MaxIds /\ ids <= ids
  BY CommandsFacts DEF CommandsTyped
<1>4. editor \in EditorRecord
  BY DEF CommandsTyped
<1>5. CASE editor.latest = Absent
  <2>1. editor' = Commands!NoEditor
    BY <1>5
  <2>2. editor' \in EditorRecord /\ editor'.status = "none"
    BY <2>1, NoEditorFields
  <2>3. QED
    BY <1>1, <1>3, <2>2, EditingKeeps
<1>6. CASE editor.latest # Absent
  <2>1. editor' = Taken(editor)
    BY <1>6 DEF Taken
  <2>2. /\ editor' \in EditorRecord /\ editor'.status = "editing" /\ editor'.id = editor.id
        /\ editor'.original = editor.latest
    BY <1>4, <2>1, TakenFields
  <2>3. QED
    BY <1>1, <1>2, <1>3, <2>2, EditingKeeps
<1>7. QED
  BY <1>5, <1>6

-----------------------------------------------------------------------------
(* saving *)

LEMMA PutKeeps ==
    ASSUME CommandsInv, NEW s, s \in {"save", "remove"}, NEW b \in Body \cup {Absent},
           NEW i \in Commands!Id, i <= ids, Commands!Put(s, i, revision.at[i], b),
           s = "save" => editor.status = "editing", s = "remove" => editor.status = "none",
           UNCHANGED <<commands, revision, editor, catalog, ids, others>>
    PROVE  CommandsInv'
<1> USE DEF CommandsInv
<1>1. /\ request.pc = "idle" /\ saves < MaxSaves /\ saves' = saves + 1 /\ failure' \in BOOLEAN
      /\ request' = Putting(s, i, revision.at[i], Changed(commands, i, b), revision)
  BY DEF Commands!Put, Putting, Changed
<1>2. /\ revision \in Commands!Catalog /\ revision.at[i] \in Body \cup {Absent}
      /\ commands \in CommandList /\ i \in 0 .. MaxIds
  BY CommandsFacts, ListFields, IdNat DEF CommandsTyped
<1>3. Changed(commands, i, b) \in CommandList
  BY <1>2, ChangedFields
<1>4. /\ request' \in PutRecord /\ request'.pc = s /\ request'.id = i
      /\ request'.base = revision.at[i] /\ request'.next = Changed(commands, i, b)
      /\ request'.revision = revision
  BY <1>1, <1>2, <1>3, PuttingFields
<1>5. CommandsTyped'
  <2>1. saves' \in 0 .. MaxSaves
    BY <1>1, CommandsHold DEF CommandsTyped, Commands!CommandsAssumption
  <2>2. QED
    BY <1>1, <1>4, <2>1 DEF CommandsTyped
<1>6. CommandsMade'
  <2>1. Made(commands, ids) /\ ids \in 0 .. MaxIds
    BY DEF CommandsMade, CommandsTyped
  <2>2. ids <= ids
    BY CommandsFacts
  <2>3. Made(Changed(commands, i, b), ids)
    BY <1>2, <2>1, <2>2, ChangedMade
  <2>4. QED
    BY <1>4, <2>3 DEF CommandsMade, Made
<1>7. ListOfRevision'
  BY DEF ListOfRevision
<1>8. RequestOfEditor'
  BY <1>4 DEF RequestOfEditor
<1>9. BaseOfRevision'
  BY <1>4 DEF BaseOfRevision
<1>10. QED
  BY <1>5, <1>6, <1>7, <1>8, <1>9

LEMMA SaveKeeps ==
    ASSUME CommandsInv, Commands!Save
    PROVE  CommandsInv'
<1>1. /\ editor.status = "editing" /\ editor.id \in Commands!Id /\ editor.id <= ids
      /\ editor.original = revision.at[editor.id] /\ editor.draft \in Body \cup {Absent}
  BY CommandsFacts DEF CommandsInv, Commands!Save, BaseOfRevision
<1>2. PICK i \in Commands!Id : i = editor.id
  BY <1>1
<1>3. PICK b \in Body \cup {Absent} : b = editor.draft
  BY <1>1
<1>4. /\ Commands!Put("save", i, revision.at[i], b)
      /\ UNCHANGED <<commands, revision, editor, catalog, ids, others>>
  BY <1>1, <1>2, <1>3 DEF Commands!Save
<1>5. i <= ids
  BY <1>1, <1>2
<1>6. QED
  BY <1>1, <1>4, <1>5, PutKeeps

LEMMA RemoveKeeps ==
    ASSUME CommandsInv, NEW i \in Commands!Id, Commands!Remove(i)
    PROVE  CommandsInv'
<1>1. commands[i] # Absent /\ commands[i] = revision.at[i] /\ i <= ids
  BY DEF Commands!Remove, CommandsInv, ListOfRevision, CommandsMade, Made
<1>2. /\ Commands!Put("remove", i, revision.at[i], Absent) /\ editor.status = "none"
      /\ UNCHANGED <<commands, revision, editor, catalog, ids, others>>
  BY <1>1 DEF Commands!Remove
<1>3. QED
  BY <1>1, <1>2, PutKeeps

LEMMA PutArrivesKeeps ==
    ASSUME CommandsInv, Commands!PutArrives
    PROVE  CommandsInv'
<1> USE DEF CommandsInv, Commands!PutArrives
<1>1. request \in PutRecord /\ request.next \in CommandList
  BY CommandsFacts DEF CommandsTyped
<1>2. CASE request.revision = catalog
  <2>1. PICK s : s = IF request.pc = "save" THEN "saved" ELSE "removed"
    OBVIOUS
  <2>2. request' = Reached(request, s) /\ catalog' = CatalogOf(request.next)
    BY <1>2, <2>1 DEF Reached, CatalogOf
  <2>3. request' \in PutRecord /\ request'.pc = s /\ request'.next = request.next
    BY <1>1, <2>1, <2>2, ReachedFields
  <2>4. catalog' \in Commands!Catalog /\ catalog'.at = request.next
    BY <1>1, <2>2, CatalogMade
  <2>5. CommandsTyped'
    BY <2>3, <2>4 DEF CommandsTyped
  <2>6. CommandsMade'
    BY <2>3, <2>4 DEF CommandsMade, Made
  <2>7. ListOfRevision'
    BY DEF ListOfRevision
  <2>8. RequestOfEditor'
    BY <2>1, <2>3 DEF RequestOfEditor
  <2>9. BaseOfRevision'
    BY <2>1, <2>3 DEF BaseOfRevision
  <2>10. QED
    BY <2>5, <2>6, <2>7, <2>8, <2>9
<1>3. CASE request.revision # catalog
  <2>1. PICK s : s = IF request.pc = "save" THEN "refused" ELSE "failed"
    OBVIOUS
  <2>2. request' = Reached(request, s) /\ catalog' = catalog
    BY <1>3, <2>1 DEF Reached
  <2>3. request' \in PutRecord /\ request'.pc = s /\ request'.next = request.next
    BY <1>1, <2>1, <2>2, ReachedFields
  <2>4. CommandsTyped'
    BY <2>2, <2>3 DEF CommandsTyped
  <2>5. CommandsMade'
    BY <2>2, <2>3 DEF CommandsMade, Made
  <2>6. ListOfRevision'
    BY DEF ListOfRevision
  <2>7. RequestOfEditor'
    BY <2>1, <2>3 DEF RequestOfEditor
  <2>8. BaseOfRevision'
    BY <2>1, <2>3 DEF BaseOfRevision
  <2>9. QED
    BY <2>4, <2>5, <2>6, <2>7, <2>8
<1>4. QED
  BY <1>2, <1>3

LEMMA AnsweredKeeps ==
    ASSUME CommandsInv, Commands!Answered
    PROVE  CommandsInv'
<1> USE DEF CommandsInv, Commands!Answered
<1>1. request' \in PutRecord /\ request'.pc = "idle"
  BY LoadingFields
<1>2. editor' \in EditorRecord /\ editor'.status = "none"
  <2>1. CASE request.pc = "saved"
    BY <2>1, NoEditorFields
  <2>2. CASE request.pc = "removed"
    BY <2>2 DEF RequestOfEditor, CommandsTyped
  <2>3. QED
    BY <2>1, <2>2
<1>3. request.next \in CommandList
  BY CommandsFacts
<1>4. revision' = CatalogOf(request.next)
  BY DEF CatalogOf
<1>5. revision' \in Commands!Catalog /\ revision'.at = request.next
  BY <1>3, <1>4, CatalogMade
<1>6. CommandsTyped'
  BY <1>1, <1>2, <1>3, <1>5 DEF CommandsTyped
<1>7. CommandsMade'
  BY <1>1, <1>5 DEF CommandsMade, Made
<1>8. ListOfRevision'
  BY <1>5 DEF ListOfRevision
<1>9. RequestOfEditor'
  BY <1>1 DEF RequestOfEditor
<1>10. BaseOfRevision'
  BY <1>1, <1>2 DEF BaseOfRevision
<1>11. QED
  BY <1>6, <1>7, <1>8, <1>9, <1>10

LEMMA FailsKeeps ==
    ASSUME CommandsInv, Commands!Fails
    PROVE  CommandsInv'
<1> USE DEF CommandsInv, Commands!Fails
<1>1. request' \in PutRecord /\ request'.pc = "idle"
  BY LoadingFields
<1>2. request \in PutRecord /\ editor \in EditorRecord
  BY DEF CommandsTyped
<1>3. /\ editor' \in EditorRecord
      /\ \/ editor'.status = "none"
         \/ /\ editor'.status = "conflict" /\ editor'.id = editor.id
            /\ editor.status = "editing"
  <2>1. CASE request.pc \in {"save", "saved", "refused"}
    <3>1. editor' = Refused(editor)
      BY <2>1 DEF Refused
    <3>2. QED
      BY <1>2, <2>1, <3>1, RefusedFields DEF RequestOfEditor
  <2>2. CASE request.pc \notin {"save", "saved", "refused"}
    <3>1. request.pc \in {"remove", "removed", "failed"}
      BY <1>2, <2>2, PutRecordFields
    <3>2. QED
      BY <1>2, <2>2, <3>1 DEF RequestOfEditor
  <2>3. QED
    BY <2>1, <2>2
<1>4. CommandsTyped'
  BY <1>1, <1>3 DEF CommandsTyped
<1>5. CommandsMade'
  BY <1>1 DEF CommandsMade, Made
<1>6. ListOfRevision'
  BY DEF ListOfRevision
<1>7. RequestOfEditor'
  BY <1>1 DEF RequestOfEditor
<1>8. BaseOfRevision'
  BY <1>1, <1>3 DEF BaseOfRevision
<1>9. QED
  BY <1>4, <1>5, <1>6, <1>7, <1>8

LEMMA RejectedKeeps ==
    ASSUME CommandsInv, Commands!Rejected
    PROVE  CommandsInv'
<1> USE DEF CommandsInv, Commands!Rejected
<1>1. request' \in PutRecord /\ request'.pc = "idle"
  BY LoadingFields
<1>2. CommandsTyped'
  BY <1>1 DEF CommandsTyped
<1>3. CommandsMade'
  BY <1>1 DEF CommandsMade, Made
<1>4. ListOfRevision'
  BY DEF ListOfRevision
<1>5. RequestOfEditor'
  BY <1>1 DEF RequestOfEditor
<1>6. BaseOfRevision'
  BY <1>1 DEF BaseOfRevision
<1>7. QED
  BY <1>2, <1>3, <1>4, <1>5, <1>6

LEMMA OtherSaveKeeps ==
    ASSUME CommandsInv, NEW i \in Commands!Id, NEW b \in Body \cup {Absent},
           Commands!OtherSave(i, b)
    PROVE  CommandsInv'
<1> USE DEF CommandsInv
<1>1. /\ others < MaxOthers /\ others' = others + 1
      /\ UNCHANGED <<commands, revision, failure, editor, request, saves>>
      /\ catalog' = CatalogOf(Changed(catalog.at, i, b))
  BY DEF Commands!OtherSave, CatalogOf, Changed
<1>2. /\ catalog.at \in CommandList /\ ids \in 0 .. MaxIds /\ ids \in Nat
      /\ i \in Nat /\ i \in 0 .. MaxIds
  BY CommandsFacts, IdNat DEF CommandsTyped
<1>3. ids' \in 0 .. MaxIds /\ ids <= ids' /\ i <= ids'
  <2>1. CASE i <= ids /\ ids' = ids
    BY <1>2, <2>1
  <2>2. CASE i = ids + 1 /\ ids' = i
    BY <1>2, <2>2
  <2>3. QED
    BY <2>1, <2>2 DEF Commands!OtherSave
<1>4. PICK n \in 0 .. MaxIds : n = ids
  BY <1>2
<1>5. PICK k \in 0 .. MaxIds : k = ids'
  BY <1>3
<1>6. PICK l \in CommandList : l = catalog.at
  BY <1>2
<1>7. n <= k /\ i <= k
  BY <1>3, <1>4, <1>5
<1>8. Changed(l, i, b) \in CommandList
  BY ChangedFields
<1>9. catalog' \in Commands!Catalog /\ catalog'.at = Changed(l, i, b)
  BY <1>1, <1>6, <1>8, CatalogMade
<1>10. CommandsTyped'
  <2>1. others' \in 0 .. MaxOthers
    BY <1>1, CommandsHold DEF CommandsTyped, Commands!CommandsAssumption
  <2>2. QED
    BY <1>1, <1>3, <1>9, <2>1 DEF CommandsTyped
<1>11. CommandsMade'
  <2>1. Made(Changed(l, i, b), k)
    BY <1>4, <1>6, <1>7, ChangedMade DEF CommandsMade
  <2>2. Made(commands, k) /\ Made(revision.at, k)
    BY <1>4, <1>7, MadeLater DEF CommandsMade
  <2>3. request.pc \notin {"idle", "load"} => Made(request.next, k)
    BY <1>4, <1>7, MadeLater DEF CommandsMade
  <2>4. QED
    BY <1>1, <1>5, <1>9, <2>1, <2>2, <2>3 DEF CommandsMade, Made
<1>12. ListOfRevision'
  BY <1>1 DEF ListOfRevision
<1>13. RequestOfEditor'
  BY <1>1 DEF RequestOfEditor
<1>14. BaseOfRevision'
  <2>1. editor.status # "none" => editor.id <= ids'
    <3>1. SUFFICES ASSUME editor.status # "none" PROVE editor.id <= ids'
      OBVIOUS
    <3>2. editor.id <= ids /\ editor.id \in 0 .. MaxIds
      BY <3>1, CommandsFacts DEF BaseOfRevision
    <3>3. QED
      BY <1>2, <1>3, <3>2
  <2>2. QED
    BY <1>1, <2>1 DEF BaseOfRevision
<1>15. QED
  BY <1>10, <1>11, <1>12, <1>13, <1>14

LEMMA CommandsStep == CommandsInv /\ [Commands!Next]_commandVars => CommandsInv'
<1> SUFFICES ASSUME CommandsInv, [Commands!Next]_commandVars PROVE CommandsInv'
  OBVIOUS
<1>1. CASE UNCHANGED commandVars
  BY <1>1 DEF commandVars, CommandsInv, CommandsTyped, CommandsMade, Made, ListOfRevision,
              RequestOfEditor, BaseOfRevision
<1>2. CASE \E k \in BOOLEAN : Commands!Load(k)
  BY <1>2, LoadKeeps
<1>3. CASE Commands!Loaded
  BY <1>3, LoadedKeeps
<1>4. CASE Commands!LoadFails
  BY <1>4, LoadFailsKeeps
<1>5. CASE Commands!Cancel
  BY <1>5, CancelKeeps
<1>6. CASE Commands!KeepDraft
  BY <1>6, KeepDraftKeeps
<1>7. CASE Commands!UseLatest
  BY <1>7, UseLatestKeeps
<1>8. CASE Commands!Save
  BY <1>8, SaveKeeps
<1>9. CASE Commands!PutArrives
  BY <1>9, PutArrivesKeeps
<1>10. CASE Commands!Answered
  BY <1>10, AnsweredKeeps
<1>11. CASE Commands!Fails
  BY <1>11, FailsKeeps
<1>12. CASE Commands!Rejected
  BY <1>12, RejectedKeeps
<1>13. CASE \E b \in Body : Commands!New(b) \/ Commands!Type(b)
  BY <1>13, NewKeeps, TypeKeeps
<1>14. CASE \E i \in Commands!Id : Commands!Edit(i) \/ Commands!Remove(i)
  BY <1>14, EditKeeps, RemoveKeeps
<1>15. CASE \E i \in Commands!Id : \E b \in Body \cup {Absent} : Commands!OtherSave(i, b)
  BY <1>15, OtherSaveKeeps
<1>16. QED
  BY <1>1, <1>2, <1>3, <1>4, <1>5, <1>6, <1>7, <1>8, <1>9, <1>10, <1>11, <1>12, <1>13,
     <1>14, <1>15 DEF Commands!Next

\* What a save or a removal replaces is what its request began from.
LEMMA PutOverBase ==
    ASSUME CommandsInv, Commands!PutArrives, catalog' # catalog
    PROVE  catalog.at[request.id] = request.base
  BY DEF CommandsInv, BaseOfRevision, Commands!PutArrives

-----------------------------------------------------------------------------
(* the page *)

LEMMA FilesAndCommandsStep ==
    ASSUME [Next]_<<focus, adbVars, uploadVars, fileVars, commandVars, listVars,
                    mailVars, viewVars, chatVars, sheetVars, remoteVars>>
    PROVE  [Browser!Next]_fileVars /\ [Commands!Next]_commandVars
<1>1. CASE UNCHANGED <<focus, adbVars, uploadVars, fileVars, commandVars, listVars,
                       mailVars, viewVars, chatVars, sheetVars, remoteVars>>
  BY <1>1
<1>2. CASE focus = "files" /\ Browser!Next /\ UNCHANGED commandVars
  BY <1>2
<1>3. CASE focus = "commands" /\ Commands!Next /\ UNCHANGED fileVars
  BY <1>3
<1>4. CASE UNCHANGED fileVars /\ UNCHANGED commandVars
  BY <1>4
<1>5. QED
  BY <1>1, <1>2, <1>3, <1>4 DEF Next

LEMMA SeenReplaced ==
    ASSUME DialogsInv, [Browser!Next]_fileVars
    PROVE  [\A f \in File : Browser!PutArrives /\ stored'[f] # stored[f]
                => stored[f] \in seen]_(Browser!browserVars)
  BY PutOverSeen

LEMMA BaseReplaced ==
    ASSUME CommandsInv, [Commands!Next]_commandVars
    PROVE  [Commands!PutArrives /\ catalog' # catalog
                => catalog.at[request.id] = request.base]_(Commands!commandVars)
  BY PutOverBase

\* A save replaces a text, and a quick command, that was on its author's screen, also
\* after a conflict, a lost answer and edits of others between the two
\* (file-browser.tsx, quick-commands.tsx).
THEOREM NoBlindOverwriteAlways == Spec => NoBlindOverwrite
<1>1. Init => DialogsInv /\ CommandsInv
  BY DialogsInit, CommandsInit DEF Init
<1>2. /\ DialogsInv /\ CommandsInv
      /\ [Next]_<<focus, adbVars, uploadVars, fileVars, commandVars, listVars,
                  mailVars, viewVars, chatVars, sheetVars, remoteVars>>
      => /\ DialogsInv' /\ CommandsInv'
  BY FilesAndCommandsStep, DialogsStep, CommandsStep
<1>3. /\ DialogsInv /\ CommandsInv
      /\ [Next]_<<focus, adbVars, uploadVars, fileVars, commandVars, listVars,
                  mailVars, viewVars, chatVars, sheetVars, remoteVars>>
      => /\ [\A f \in File : Browser!PutArrives /\ stored'[f] # stored[f]
                => stored[f] \in seen]_(Browser!browserVars)
         /\ [Commands!PutArrives /\ catalog' # catalog
                => catalog.at[request.id] = request.base]_(Commands!commandVars)
  BY FilesAndCommandsStep, SeenReplaced, BaseReplaced
<1>4. QED
  BY <1>1, <1>2, <1>3, PTL
     DEF Spec, NoBlindOverwrite, Browser!NoBlindOverwrite, Commands!ReviewedFirst

\* A dialog of the file browser shows the entry it was opened for, whatever order the
\* answers come in, and the retry of a batch leaves out the copies that were confirmed
\* (file-browser.tsx:529-648, 737-754).
THEOREM DialogsAlways == Spec => [](Browser!DialogIsSelected /\ Browser!RetryOnlyRest)
<1>1. Init => DialogsInv
  BY DialogsInit DEF Init
<1>2. /\ DialogsInv
      /\ [Next]_<<focus, adbVars, uploadVars, fileVars, commandVars, listVars,
                  mailVars, viewVars, chatVars, sheetVars, remoteVars>>
      => DialogsInv'
  BY FilesAndCommandsStep, DialogsStep
<1>3. DialogsInv => Browser!DialogIsSelected /\ Browser!RetryOnlyRest
  BY DialogsFollow
<1>4. QED
  BY <1>1, <1>2, <1>3, PTL DEF Spec
=============================================================================
