----------------------------- MODULE DeviceSession -----------------------------
(***************************************************************************)
(* One device session of the browser terminal (device-session.ts): connect *)
(* calls that wait for a chooser and a port, the shared disconnect, the    *)
(* serial read loop with its recovery, the write queue and the paste.      *)
(*                                                                         *)
(* The transport is a link with an owner: a SerialPort or an ADB device.   *)
(* A step runs to its next await, as the event loop does.  The handshake   *)
(* inside the ADB transport is one wait here.                              *)
(***************************************************************************)
EXTENDS Naturals, Sequences

CONSTANTS
    Kinds,        \* the kinds of session explored: "serial", "adb"
    Call,         \* connect calls
    None,         \* nobody
    Chunks,       \* chunks of a paste
    MaxTyped,     \* bound: commands and interrupts typed
    MaxPastes,    \* bound: pastes confirmed
    MaxOpens,     \* bound: times the link opens
    MaxLeaves,    \* bound: disconnect calls
    MaxErrors     \* bound: recoverable read errors

SessionAssumption ==
    /\ Kinds \subseteq {"serial", "adb"} /\ {None, "reader"} \cap Call = {}
    /\ Chunks \in Nat \ {0} /\ MaxTyped \in Nat /\ MaxPastes \in Nat
    /\ MaxOpens \in Nat /\ MaxLeaves \in Nat /\ MaxErrors \in Nat

VARIABLES
    kind,     \* kind of the session, never changes
    session,  \* the fields the guards read: status, generation, version, closing,
              \* held (port or adb set), writer (the open it belongs to, 0 none)
    shell,    \* the interactive ADB shell: "none", "live" or "closed"
    link,     \* the transport: state and who opens it
    epoch,    \* times the link has opened
    call,     \* per connect call: where it waits and its generation
    closer,   \* finishDisconnect is running
    release,  \* releaseSerial: "idle", "draining" or "closing"
    reader,   \* readSerial: where the read loop is
    queue,    \* writes not settled, the head first
    sending,  \* the head has been handed to the transport
    paste,    \* the paste in progress
    preview,  \* token of the open paste preview, <<>> when there is none
    wire,     \* history: what reached the device, with the open it went through
    typed, pastes, leaves, errors

vars == <<kind, session, shell, link, epoch, call, closer, release, reader, queue,
          sending, paste, preview, wire, typed, pastes, leaves, errors>>

bounds == <<typed, pastes, leaves, errors>>

Serial == kind = "serial"

Connected == session.status = "connected"

\* connectionToken: the generation and the version of the transport.
Token == <<session.generation, session.version>>

\* active() of readSerial, with the generation the loop was started under.
Active == ~session.closing

Aborted(p) == [p EXCEPT !.aborted = TRUE]

Pasting == paste.pc # "idle"

Item(what, n) ==
    [what |-> what, n |-> n, generation |-> session.generation,
     writer |-> session.writer, asked |-> epoch]

NoPaste == [pc |-> "idle", token |-> <<>>, next |-> 0, aborted |-> FALSE,
            bracketed |-> FALSE, begun |-> FALSE, complete |-> FALSE, enter |-> FALSE]

Init ==
    /\ kind \in Kinds
    /\ session = [status |-> "disconnected", generation |-> 0, version |-> 0,
                  closing |-> FALSE, held |-> FALSE, writer |-> 0]
    /\ shell = "none" /\ link = [state |-> "closed", owner |-> None] /\ epoch = 0
    /\ call = [a \in Call |-> [pc |-> "free", generation |-> 0]]
    /\ closer = FALSE /\ release = "idle" /\ reader = "none"
    /\ queue = <<>> /\ sending = FALSE
    /\ paste = NoPaste /\ preview = <<>> /\ wire = <<>>
    /\ typed = 0 /\ pastes = 0 /\ leaves = 0 /\ errors = 0

-----------------------------------------------------------------------------
(* connect and disconnect *)

\* The head of connect once nothing is left over: a new generation.
Begun(s) == [s EXCEPT !.status = "connecting", !.generation = s.generation + 1,
                      !.closing = FALSE]

Began(a, s) == [call EXCEPT ![a] = [pc |-> "choosing", generation |-> s.generation + 1]]

\* The head of disconnect up to its first await, from session s and link l.  A call
\* made while the task runs only shares it.
StartDisconnect(s, l) ==
    /\ session' = [s EXCEPT !.closing = TRUE, !.generation = s.generation + 1,
                       !.status = IF closer THEN s.status ELSE "disconnecting"]
    /\ paste' = Aborted(paste)
    /\ closer' = TRUE
    /\ IF Serial
       THEN /\ release' = IF release = "idle" /\ ~closer THEN "draining" ELSE release
            /\ reader' = IF reader = "reading" THEN "none" ELSE reader
            /\ link' = l /\ UNCHANGED shell
       ELSE /\ link' = [l EXCEPT !.state = IF s.held /\ l.state # "closed"
                                          THEN "closing" ELSE l.state]
            /\ shell' = IF shell = "live" THEN "closed" ELSE shell
            /\ UNCHANGED <<release, reader>>

Connect(a) ==
    /\ call[a].pc = "free" /\ session.status \in {"disconnected", "error"}
    /\ \/ /\ ~session.held
          /\ call' = Began(a, session) /\ session' = Begun(session)
          /\ paste' = Aborted(paste)
          /\ UNCHANGED <<closer, release, reader, link, shell>>
       \/ /\ session.held
          /\ call' = [call EXCEPT ![a].pc = "leftover"]
          /\ StartDisconnect(session, link)
    /\ UNCHANGED <<kind, epoch, queue, sending, preview, wire, bounds>>

Stale(a) == call[a].generation # session.generation

Ends(a) == call' = [call EXCEPT ![a].pc = "done"]

\* The catch of connect: a stale call only returns, the current one disconnects first.
Fails(a, s, l) ==
    \/ /\ Stale(a) /\ Ends(a) /\ link' = l
       /\ UNCHANGED <<session, paste, closer, release, reader, shell>>
    \/ /\ ~Stale(a)
       /\ call' = [call EXCEPT ![a].pc = "failing"]
       /\ StartDisconnect(s, l)

ChooserFails(a) ==
    /\ call[a].pc = "choosing" /\ Fails(a, session, link)
    /\ UNCHANGED <<kind, epoch, queue, sending, preview, wire, bounds>>

\* The user picks a port: the port is opened, refused while it is not closed.
ChoosePort(a) ==
    /\ Serial /\ call[a].pc = "choosing"
    /\ IF Stale(a) \/ link.state # "closed"
       THEN Fails(a, [session EXCEPT !.held = TRUE], link)
       ELSE /\ epoch < MaxOpens
            /\ session' = [session EXCEPT !.held = TRUE]
            /\ link' = [state |-> "opening", owner |-> a]
            /\ call' = [call EXCEPT ![a].pc = "opening"]
            /\ UNCHANGED <<paste, closer, release, reader, shell>>
    /\ UNCHANGED <<kind, epoch, queue, sending, preview, wire, bounds>>

\* Mutant of PortOpens: the generation is not compared again after port.open.
PortOpensUnchecked(a) ==
    /\ call[a].pc = "opening" /\ link = [state |-> "opening", owner |-> a] /\ Serial
    /\ epoch' = epoch + 1
    /\ link' = [link EXCEPT !.state = "open"]
    /\ session' = [session EXCEPT !.status = "connected", !.writer = epoch + 1]
    /\ reader' = "reading" /\ Ends(a)
    /\ UNCHANGED <<kind, shell, closer, release, queue, sending, paste, preview, wire, bounds>>

\* port.open succeeds: a stale call closes the port again, the current one connects.
PortOpens(a) ==
    /\ call[a].pc = "opening" /\ link = [state |-> "opening", owner |-> a] /\ Serial
    /\ epoch' = epoch + 1
    /\ \/ /\ Stale(a)
          /\ link' = [link EXCEPT !.state = "closing"]
          /\ call' = [call EXCEPT ![a].pc = "discarding"]
          /\ UNCHANGED <<session, reader>>
       \/ /\ ~Stale(a)
          /\ link' = [link EXCEPT !.state = "open"]
          /\ session' = [session EXCEPT !.status = "connected", !.writer = epoch + 1]
          /\ reader' = "reading" /\ Ends(a)
    /\ UNCHANGED <<kind, shell, closer, release, queue, sending, paste, preview, wire, bounds>>

PortRefuses(a) ==
    /\ Serial /\ call[a].pc = "opening" /\ link = [state |-> "opening", owner |-> a]
    /\ Fails(a, session, [state |-> "closed", owner |-> None])
    /\ UNCHANGED <<kind, epoch, queue, sending, preview, wire, bounds>>

\* AdbDevice.request has opened and claimed the device, or failed while it is in use.
ChooseAdb(a) ==
    /\ kind = "adb" /\ call[a].pc = "choosing" /\ link.state = "closed" /\ epoch < MaxOpens
    /\ epoch' = epoch + 1
    /\ \/ /\ Stale(a)
          /\ link' = [state |-> "closing", owner |-> a]
          /\ call' = [call EXCEPT ![a].pc = "discarding"]
          /\ UNCHANGED session
       \/ /\ ~Stale(a)
          /\ link' = [state |-> "open", owner |-> a]
          /\ session' = [session EXCEPT !.held = TRUE]
          /\ call' = [call EXCEPT ![a].pc = "handshake"]
    /\ UNCHANGED <<kind, shell, closer, release, reader, queue, sending, paste, preview,
                   wire, bounds>>

\* adb.connect, interactive and resize have all answered.
ShellReady(a) ==
    /\ call[a].pc = "handshake"
    /\ \/ /\ Stale(a) /\ UNCHANGED <<session, shell>>
       \/ /\ ~Stale(a) /\ link.state = "open"
          /\ shell' = "live"
          /\ session' = [session EXCEPT !.status = "connected"]
    /\ Ends(a)
    /\ UNCHANGED <<kind, link, epoch, closer, release, reader, queue, sending, paste,
                   preview, wire, bounds>>

HandshakeFails(a) ==
    /\ call[a].pc = "handshake" /\ Fails(a, session, link)
    /\ UNCHANGED <<kind, epoch, queue, sending, preview, wire, bounds>>

\* disconnect(): the button while the session is busy, and leaving the application.
Disconnect ==
    /\ leaves < MaxLeaves /\ leaves' = leaves + 1
    /\ StartDisconnect(session, link)
    /\ UNCHANGED <<kind, epoch, call, queue, sending, preview, wire, typed, pastes, errors>>

\* Everything finishDisconnect and releaseSerial wait for has settled.
Drained == queue = <<>> /\ ~sending

\* The end of finishDisconnect, and of the connect call that waited for it.
FinishDisconnect ==
    /\ closer /\ closer' = FALSE
    /\ IF Serial THEN release = "idle" /\ reader = "none"
       ELSE Drained /\ (session.held => link.state = "closed")
    /\ LET s == [session EXCEPT !.held = FALSE, !.writer = 0, !.status = "disconnected"]
           leftover == {a \in Call : call[a].pc = "leftover"}
           failing == {a \in Call : call[a].pc = "failing"}
       IN \/ /\ leftover = {} /\ failing = {}
             /\ session' = s /\ UNCHANGED call
          \/ \E a \in leftover : session' = Begun(s) /\ call' = Began(a, s)
          \/ \E a \in failing : session' = [s EXCEPT !.status = "error"] /\ Ends(a)
    /\ shell' = "none"
    /\ paste' = Aborted(paste)
    /\ UNCHANGED <<kind, link, epoch, release, reader, queue, sending, preview, wire, bounds>>

-----------------------------------------------------------------------------
(* the serial reader and its recovery *)

\* What follows closeSerial in the read loop: wait for the port, or stop.
AfterClose(r) == IF r = "lost" THEN IF Active THEN "waiting" ELSE "none" ELSE r

\* Mutant of ClosePort: it waits for the read loop, which waits for it.
ClosePortAfterReader ==
    /\ release = "draining" /\ Drained /\ reader = "none"
    /\ release' = "closing" /\ link' = [link EXCEPT !.state = "closing"]
    /\ UNCHANGED <<kind, session, shell, epoch, call, closer, reader, queue, sending, paste,
                   preview, wire, bounds>>

\* Queue drained: the port is closed if it is open, and the writer forgotten.
ClosePort ==
    /\ release = "draining" /\ Drained
    /\ IF session.held /\ link.state \in {"open", "lost"}
       THEN /\ release' = "closing"
            /\ link' = [link EXCEPT !.state = "closing"]
            /\ UNCHANGED <<session, reader>>
       ELSE /\ release' = "idle"
            /\ session' = [session EXCEPT !.writer = 0]
            /\ reader' = AfterClose(reader)
            /\ UNCHANGED link
    /\ UNCHANGED <<kind, shell, epoch, call, closer, queue, sending, paste, preview, wire,
                   bounds>>

\* The transport reports itself closed to whoever closed it.
LinkCloses ==
    /\ link.state = "closing" /\ link' = [state |-> "closed", owner |-> None]
    /\ call' = [a \in Call |-> IF call[a].pc = "discarding"
                               THEN [call[a] EXCEPT !.pc = "done"] ELSE call[a]]
    /\ release' = IF release = "closing" THEN "idle" ELSE release
    /\ session' = IF release = "closing" THEN [session EXCEPT !.writer = 0] ELSE session
    /\ reader' = IF release = "closing" THEN AfterClose(reader)
                 ELSE IF reader = "discarding" THEN "none" ELSE reader
    /\ UNCHANGED <<kind, shell, epoch, closer, queue, sending, paste, preview, wire, bounds>>

\* A framing error, a break, an overrun: the port stays, the token changes.
ReadRecovers ==
    /\ reader = "reading" /\ link.state = "open" /\ errors < MaxErrors
    /\ errors' = errors + 1
    /\ session' = [session EXCEPT !.version = session.version + 1]
    /\ paste' = Aborted(paste)
    /\ UNCHANGED <<kind, shell, link, epoch, call, closer, release, reader, queue, sending,
                   preview, wire, typed, pastes, leaves>>

\* Any other end of the stream: reconnecting, and the port is closed first.
ReadFails ==
    /\ reader = "reading" /\ reader' = "lost"
    /\ session' = [session EXCEPT !.version = session.version + 1, !.status = "reconnecting"]
    /\ paste' = Aborted(paste)
    /\ release' = "draining"
    /\ UNCHANGED <<kind, shell, link, epoch, call, closer, queue, sending, preview, wire,
                   bounds>>

\* The recovery timer ends, or disconnect has woken it.
RetryOpen ==
    /\ reader = "waiting"
    /\ \/ /\ ~Active /\ reader' = "none" /\ UNCHANGED link
       \/ /\ Active /\ link.state = "closed" /\ epoch < MaxOpens
          /\ link' = [state |-> "opening", owner |-> "reader"]
          /\ reader' = "opening"
    /\ UNCHANGED <<kind, session, shell, epoch, call, closer, release, queue, sending, paste,
                   preview, wire, bounds>>

RetryOpens ==
    /\ reader = "opening" /\ epoch' = epoch + 1
    /\ \/ /\ ~Active
          /\ link' = [link EXCEPT !.state = "closing"] /\ reader' = "discarding"
          /\ UNCHANGED session
       \/ /\ Active
          /\ link' = [link EXCEPT !.state = "open"] /\ reader' = "reading"
          /\ session' = [session EXCEPT !.status = "connected", !.writer = epoch + 1]
    /\ UNCHANGED <<kind, shell, call, closer, release, queue, sending, paste, preview, wire,
                   bounds>>

RetryRefused ==
    /\ reader = "opening"
    /\ link' = [state |-> "closed", owner |-> None]
    /\ reader' = IF Active THEN "waiting" ELSE "none"
    /\ UNCHANGED <<kind, session, shell, epoch, call, closer, release, queue, sending, paste,
                   preview, wire, bounds>>

\* The device goes away: a port is lost, the ADB loop reports an error.
DeviceLost ==
    /\ link.state = "open" /\ link' = [link EXCEPT !.state = "lost"]
    /\ \/ /\ kind = "adb" /\ shell = "live"
          /\ shell' = "closed"
          /\ session' = [session EXCEPT !.status = "error"]
          /\ paste' = Aborted(paste)
       \/ /\ Serial \/ shell # "live"
          /\ UNCHANGED <<session, shell, paste>>
    /\ UNCHANGED <<kind, epoch, call, closer, release, reader, queue, sending, preview, wire,
                   bounds>>

\* The device ends the shell while the transport stays.
ShellCloses ==
    /\ shell = "live" /\ link.state = "open" /\ shell' = "closed"
    /\ session' = [session EXCEPT !.status = "error"]
    /\ paste' = Aborted(paste)
    /\ UNCHANGED <<kind, link, epoch, call, closer, release, reader, queue, sending, preview,
                   wire, bounds>>

-----------------------------------------------------------------------------
(* write, its queue, and sendPaste *)

\* enqueue appends with the generation and the writer of this moment, or rejects.
Enqueued(q, what, n) == Append(q, Item(what, n))

\* Mutant of Type: a write is queued whatever the status.
TypeAnytime ==
    /\ ~Pasting /\ typed < MaxTyped
    /\ typed' = typed + 1
    /\ queue' = Enqueued(queue, "command", typed + 1)
    /\ UNCHANGED <<kind, session, shell, link, epoch, call, closer, release, reader, sending,
                   paste, preview, wire, pastes, leaves, errors>>

Type ==
    /\ Connected /\ ~Pasting /\ typed < MaxTyped
    /\ typed' = typed + 1
    /\ queue' = Enqueued(queue, "command", typed + 1)
    /\ UNCHANGED <<kind, session, shell, link, epoch, call, closer, release, reader, sending,
                   paste, preview, wire, pastes, leaves, errors>>

\* Ctrl+C passes a paste and cancels it.
Interrupt ==
    /\ Connected /\ typed < MaxTyped
    /\ typed' = typed + 1
    /\ queue' = Enqueued(queue, "interrupt", typed + 1)
    /\ paste' = Aborted(paste)
    /\ UNCHANGED <<kind, session, shell, link, epoch, call, closer, release, reader, sending,
                   preview, wire, pastes, leaves, errors>>

\* check() of sendPaste.
Valid == ~paste.aborted /\ paste.token = Token /\ Connected

\* The finally of sendPaste: end a bracket that began, on the same connection only.
PasteEnds(q, begun, complete) ==
    IF begun /\ paste.token = Token /\ Connected
    THEN /\ paste' = [paste EXCEPT !.pc = "end", !.complete = complete]
         /\ queue' = Enqueued(q, "end", 0)
    ELSE paste' = NoPaste /\ queue' = q

\* Mutant of EnterDue: a paste that was cut short still gets its Enter.
EnterWheneverAsked(ok) == ok /\ paste.enter /\ Connected

\* The next chunk, after the checks, or the end of the paste.
PasteNext(q, begun) ==
    IF Valid /\ paste.next < Chunks
    THEN /\ paste' = [paste EXCEPT !.pc = "chunk", !.next = paste.next + 1,
                                   !.begun = begun]
         /\ queue' = Enqueued(q, "chunk", paste.next + 1)
    ELSE PasteEnds(q, begun, Valid)

\* The Enter asked for is sent after the bracket, unless the paste was cut short.
EnterDue(ok) == ok /\ paste.complete /\ paste.enter /\ ~paste.aborted /\ Connected

\* sendPaste goes on when its write has settled, q is what is left of the queue.
PasteSettled(q, what, ok) ==
    \/ what \in {"begin", "chunk"} /\ ok /\ PasteNext(q, paste.begun \/ what = "begin")
    \/ /\ what = "chunk" /\ ok /\ paste.next < Chunks
       /\ paste' = [paste EXCEPT !.pc = "delay"] /\ queue' = q
    \/ what \in {"begin", "chunk"} /\ ~ok /\ PasteEnds(q, paste.begun, FALSE)
    \/ /\ what = "end" /\ EnterDue(ok)
       /\ paste' = [paste EXCEPT !.pc = "enter"] /\ queue' = Enqueued(q, "enter", 0)
    \/ /\ what = "enter" \/ (what = "end" /\ ~EnterDue(ok))
       /\ paste' = NoPaste /\ queue' = q

\* The head has settled: the next one may run, and its sender goes on.
Settle(ok) ==
    /\ sending' = FALSE
    /\ IF Head(queue).what \in {"command", "interrupt"}
       THEN queue' = Tail(queue) /\ UNCHANGED paste
       ELSE PasteSettled(Tail(queue), Head(queue).what, ok)

\* The connection is still the one the command was typed on.
SameConnection(item) ==
    /\ Connected
    /\ item.generation = session.generation /\ item.writer = session.writer

\* The head of the queue runs: it reaches the device, or is rejected.
Transmit ==
    /\ queue # <<>> /\ ~sending
    /\ LET item == Head(queue)
       IN IF SameConnection(item)
          THEN /\ sending' = TRUE
               /\ wire' = IF link.state = "open" /\ shell # "closed"
                          THEN Append(wire, [what |-> item.what, n |-> item.n,
                                             asked |-> item.asked, at |-> epoch])
                          ELSE wire
               /\ UNCHANGED <<queue, paste>>
          ELSE Settle(FALSE) /\ UNCHANGED wire
    /\ UNCHANGED <<kind, session, shell, link, epoch, call, closer, release, reader, preview,
                   bounds>>

\* A write is settled by the transport: it is rejected once that is gone or closing.
WriteSettles(ok) ==
    /\ sending
    /\ IF ok THEN link.state = "open" /\ shell # "closed"
       ELSE link.state # "open" \/ shell = "closed" \/ release # "idle"
    /\ Settle(ok)
    /\ UNCHANGED <<kind, session, shell, link, epoch, call, closer, release, reader, preview,
                   wire, bounds>>

\* The paste preview keeps the token of the connection it was opened on.
OpenPreview ==
    /\ preview = <<>> /\ pastes < MaxPastes
    /\ preview' = Token
    /\ UNCHANGED <<kind, session, shell, link, epoch, call, closer, release, reader, queue,
                   sending, paste, wire, bounds>>

SendPaste(bracketed, enter) ==
    /\ preview # <<>> /\ preview = Token /\ Connected /\ ~Pasting
    /\ pastes' = pastes + 1 /\ preview' = <<>>
    /\ LET p == [NoPaste EXCEPT !.token = preview, !.bracketed = bracketed, !.enter = enter]
       IN IF bracketed
          THEN paste' = [p EXCEPT !.pc = "begin"] /\ queue' = Enqueued(queue, "begin", 0)
          ELSE /\ paste' = [p EXCEPT !.pc = "chunk", !.next = 1]
               /\ queue' = Enqueued(queue, "chunk", 1)
    /\ UNCHANGED <<kind, session, shell, link, epoch, call, closer, release, reader, sending,
                   wire, typed, leaves, errors>>

\* Closing the preview, or its cancel button: cancelPaste.
ClosePreview ==
    /\ Pasting \/ preview # <<>>
    /\ preview' = <<>> /\ paste' = Aborted(paste)
    /\ UNCHANGED <<kind, session, shell, link, epoch, call, closer, release, reader, queue,
                   sending, wire, bounds>>

\* The delay between two chunks is over, or was cut short by cancelPaste.
PasteDelayEnds ==
    /\ paste.pc = "delay"
    /\ PasteNext(queue, paste.begun)
    /\ UNCHANGED <<kind, session, shell, link, epoch, call, closer, release, reader, sending,
                   preview, wire, bounds>>

-----------------------------------------------------------------------------

ConnectNext ==
    \E a \in Call : \/ Connect(a) \/ ChooserFails(a) \/ ChoosePort(a) \/ PortOpens(a)
                   \/ PortRefuses(a) \/ ChooseAdb(a) \/ ShellReady(a) \/ HandshakeFails(a)

LinkNext ==
    \/ ReadRecovers \/ ReadFails \/ DeviceLost \/ ShellCloses \/ LinkCloses
    \/ ClosePort \/ RetryOpen \/ RetryOpens \/ RetryRefused

WriteNext ==
    \/ Type \/ Interrupt \/ Transmit \/ \E ok \in BOOLEAN : WriteSettles(ok)
    \/ OpenPreview \/ \E b, e \in BOOLEAN : SendPaste(b, e)
    \/ ClosePreview \/ PasteDelayEnds

Next == ConnectNext \/ Disconnect \/ FinishDisconnect \/ LinkNext \/ WriteNext

Spec == Init /\ [][Next]_vars

\* What the browser settles: a port that is closing or opening, a write, a timer that
\* disconnect wakes, and the event loop itself.  Nobody has to click or to plug in.
Fairness ==
    /\ WF_vars(FinishDisconnect) /\ WF_vars(LinkCloses) /\ WF_vars(ClosePort)
    /\ WF_vars(RetryOpen) /\ WF_vars(RetryOpens \/ RetryRefused)
    /\ WF_vars(Transmit) /\ WF_vars(\E ok \in BOOLEAN : WriteSettles(ok))

FairSpec == Spec /\ Fairness

-----------------------------------------------------------------------------
(* properties *)

\* The session's fields, its tasks and its queue keep their shapes.
TypeOK ==
    /\ kind \in Kinds
    /\ session \in [status : {"disconnected", "connecting", "connected", "reconnecting",
                              "disconnecting", "error"},
                    generation : Nat, version : Nat, closing : BOOLEAN, held : BOOLEAN,
                    writer : Nat]
    /\ shell \in {"none", "live", "closed"} /\ epoch \in Nat
    /\ link \in [state : {"closed", "opening", "open", "lost", "closing"},
                 owner : Call \cup {None, "reader"}]
    /\ call \in [Call -> [pc : {"free", "leftover", "choosing", "opening", "handshake",
                               "discarding", "failing", "done"}, generation : Nat]]
    /\ closer \in BOOLEAN /\ sending \in BOOLEAN
    /\ release \in {"idle", "draining", "closing"}
    /\ reader \in {"none", "reading", "lost", "waiting", "opening", "discarding"}
    /\ paste.pc \in {"idle", "begin", "chunk", "delay", "end", "enter"}
    /\ sending => queue # <<>>

\* What reaches a device was asked for on the very connection it goes through: a
\* command typed before the port went away is not delivered after the recovery, nor to
\* the next device (the double check of enqueue).
NothingReplayed == \A i \in DOMAIN wire : wire[i].asked = wire[i].at

\* The Enter of a bracketed paste follows the whole paste, closed, with no interrupt
\* and no other command in between, on one connection (sendPaste).
EnterEndsWholePaste ==
    \A i \in DOMAIN wire : wire[i].what = "enter" =>
        /\ i > Chunks + 2
        /\ \A k \in 1 .. Chunks : /\ wire[i - 2 - Chunks + k].what = "chunk"
                                  /\ wire[i - 2 - Chunks + k].n = k
        /\ wire[i - 1].what = "end" /\ wire[i - 2 - Chunks].what = "begin"
        /\ \A k \in (i - 2 - Chunks) .. i : wire[k].at = wire[i].at

\* An open transport always has somebody who will close it: the session holds it, so a
\* connect call that was given up, or a recovery, leaves no port behind it open.
NoOrphanLink == link.state \in {"open", "lost"} => session.held

\* A connection in use is the one the latest connect call made, and no disconnect was
\* asked for since that call took its generation.
ConnectedIsCurrent ==
    session.status \in {"connected", "reconnecting"} =>
        /\ ~session.closing
        /\ \E a \in Call : call[a].pc = "done" /\ ~Stale(a)

\* A disconnect ends, whatever was in flight when it was asked for.
DisconnectEnds == closer ~> ~closer
=============================================================================
