-------------------------- MODULE BrowserLiveProofs --------------------------
(***************************************************************************)
(* Proofs about the device session, the recorder and the overview of       *)
(* MCBrowserLive for every value of their constants.                       *)
(*                                                                         *)
(* The session: no link without somebody to close it, no command on        *)
(* another connection than its own, and the Enter of a paste behind the    *)
(* paste.  They rest on SessionInv: LinkInv for the connection, ItemsInv   *)
(* for the queue and PasteInv for the paste.                               *)
(*                                                                         *)
(* The recorder: what is stopped is saved, and nothing that was kept once  *)
(* is lost.  They rest on RecInv, and on Committed, which leaves out of a  *)
(* recovery only what the file holds (lemma CommittedThere).               *)
(*                                                                         *)
(* The types of the three, with the bounds of the recorder, come next.     *)
(*                                                                         *)
(* Last, the log files are the output: OutputInv says what stands in them, *)
(* in memory and in the cache, and what a recovery adds.                   *)
(***************************************************************************)
EXTENDS MCBrowserLive, SequenceTheorems, FiniteSetTheorems, TLAPS

SessionRecord ==
    [status : {"disconnected", "connecting", "connected", "reconnecting", "disconnecting",
               "error"},
     generation : Nat, version : Nat, closing : BOOLEAN, held : BOOLEAN, writer : Nat]

LinkRecord ==
    [state : {"closed", "opening", "open", "lost", "closing"}, owner : Call \cup {None, "reader"}]

CallRecord ==
    [pc : {"free", "leftover", "choosing", "opening", "handshake", "discarding", "failing",
           "done"},
     generation : Nat]

LinkTyped ==
    /\ kind \in {"serial", "adb"} /\ session \in SessionRecord
    /\ shell \in {"none", "live", "closed"} /\ epoch \in Nat
    /\ link \in LinkRecord /\ call \in [Call -> CallRecord]
    /\ closer \in BOOLEAN /\ sending \in BOOLEAN
    /\ release \in {"idle", "draining", "closing"}
    /\ reader \in {"none", "reading", "lost", "waiting", "opening", "discarding"}

\* A generation that was given to a call is nobody else's.
Generations ==
    /\ \A a \in Call : call[a].generation <= session.generation
    /\ \A a \in Call : call[a].pc \notin {"free", "leftover"} => call[a].generation # 0
    /\ \A a, b \in Call :
           call[a].generation = call[b].generation /\ call[a].generation # 0 => a = b

Waiting(a) == call[a].pc \in {"choosing", "opening", "handshake"}

InUse == session.status \in {"connected", "reconnecting"}

Opened == link.state \in {"open", "lost"}

Resting == reader = "none" /\ release = "idle"

CallsCurrent ==
    \A a \in Call : Waiting(a) /\ ~Session!Stale(a) =>
        /\ session.status = "connecting" /\ ~session.closing
        /\ call[a].pc = "opening" => session.held

Closings ==
    /\ closer => session.closing /\ session.status = "disconnecting"
    /\ session.closing =>
           session.status \in {"disconnecting", "disconnected", "error"} /\ shell # "live"

SerialOnly ==
    /\ Session!Serial => shell = "none" /\ \A a \in Call : call[a].pc # "handshake"
    /\ ~Session!Serial => Resting /\ (\A a \in Call : call[a].pc # "opening")
                          /\ link.state # "opening"

Retrying == session.closing \/ (session.status = "reconnecting" /\ release = "idle")

Reading ==
    /\ Resting \/ closer \/ InUse
    /\ reader = "reading" => /\ session.status = "connected" /\ release = "idle"
                             /\ Opened /\ session.writer = epoch
    /\ reader = "lost" => release # "idle" /\ (session.closing \/ session.status = "reconnecting")
    /\ reader = "waiting" => ~Opened /\ Retrying
    /\ reader = "opening" => /\ link = [state |-> "opening", owner |-> "reader"]
                             /\ Retrying
    /\ reader = "discarding" => link.state = "closing" /\ session.closing
    /\ release = "closing" => link.state = "closing" /\ reader \in {"none", "lost"}
    /\ Session!Serial /\ session.status = "connected" => reader = "reading"

Held ==
    /\ Session!NoOrphanLink
    /\ InUse => session.held
    /\ Session!Serial /\ session.closing /\ release = "idle" => ~Opened
    /\ sending => session.held /\ session.status # "connecting" /\ (Session!Serial => Opened)

ShellLive ==
    /\ shell = "live" => session.status = "connected"
    /\ ~Session!Serial /\ InUse =>
           session.status = "connected" /\ shell = "live" /\ link.state = "open"

LinkInv ==
    /\ LinkTyped /\ Generations /\ CallsCurrent /\ Closings /\ SerialOnly /\ Reading /\ Held
    /\ ShellLive /\ Session!ConnectedIsCurrent

-----------------------------------------------------------------------------
LEMMA SessionFields ==
    ASSUME NEW s \in SessionRecord
    PROVE  /\ s.status \in {"disconnected", "connecting", "connected", "reconnecting",
                            "disconnecting", "error"}
           /\ s.generation \in Nat /\ s.version \in Nat /\ s.closing \in BOOLEAN
           /\ s.held \in BOOLEAN /\ s.writer \in Nat
  BY DEF SessionRecord

LEMMA StartFields ==
    ASSUME LinkTyped, NEW s \in SessionRecord, NEW l, Session!StartDisconnect(s, l)
    PROVE  /\ session' \in SessionRecord
           /\ session'.closing = TRUE /\ session'.generation = s.generation + 1
           /\ session'.status = (IF closer THEN s.status ELSE "disconnecting")
           /\ session'.held = s.held /\ session'.writer = s.writer
           /\ session'.version = s.version
<1>1. /\ session' = [s EXCEPT !.closing = TRUE, !.generation = s.generation + 1,
                       !.status = IF closer THEN s.status ELSE "disconnecting"]
      /\ closer \in BOOLEAN
  BY DEF Session!StartDisconnect, LinkTyped
<1>2. s.generation + 1 \in Nat /\ s.status \in {"disconnected", "connecting", "connected",
      "reconnecting",
                            "disconnecting", "error"}
  BY SessionFields
<1>3. QED
  BY <1>1, <1>2 DEF SessionRecord

LEMMA BegunFields ==
    ASSUME NEW s \in SessionRecord, NEW t, t = Session!Begun(s)
    PROVE  /\ t \in SessionRecord
           /\ t.closing = FALSE /\ t.generation = s.generation + 1 /\ t.status = "connecting"
           /\ t.held = s.held /\ t.writer = s.writer /\ t.version = s.version
<1>1. s.generation + 1 \in Nat
  BY SessionFields
<1>2. QED
  BY <1>1 DEF Session!Begun, SessionRecord

LEMMA CallFields ==
    ASSUME LinkTyped, NEW a \in Call
    PROVE  /\ call[a] \in CallRecord
           /\ call[a].generation \in Nat
           /\ call[a].pc \in {"free", "leftover", "choosing", "opening", "handshake",
                              "discarding", "failing", "done"}
<1>1. call[a] \in CallRecord
  BY DEF LinkTyped
<1>2. QED
  BY <1>1 DEF CallRecord

\* One call goes to another point, and keeps its generation.
LEMMA CallMoves ==
    ASSUME LinkTyped, NEW a \in Call,
           NEW p \in {"free", "leftover", "choosing", "opening", "handshake",
                      "discarding", "failing", "done"},
           call' = [call EXCEPT ![a].pc = p]
    PROVE  /\ call' \in [Call -> CallRecord]
           /\ call'[a].pc = p /\ call'[a].generation = call[a].generation
           /\ \A b \in Call : b # a => call'[b] = call[b]
<1>1. /\ call \in [Call -> CallRecord] /\ call' = [call EXCEPT ![a] = [call[a] EXCEPT !.pc = p]]
  BY DEF LinkTyped
<1>2. /\ call[a] \in CallRecord /\ [call[a] EXCEPT !.pc = p] \in CallRecord
      /\ [call[a] EXCEPT !.pc = p].pc = p
      /\ [call[a] EXCEPT !.pc = p].generation = call[a].generation
  BY <1>1 DEF CallRecord
<1>3. QED
  BY <1>1, <1>2


\* Calls keep their generations, and none begins to wait.
CallsFade ==
    /\ call' \in [Call -> CallRecord]
    /\ \A a \in Call : call'[a].generation = call[a].generation
    /\ \A a \in Call : call'[a].pc \in {"free", "leftover", "failing", "done", call[a].pc}
    /\ \A a \in Call : call'[a].pc \notin {"free", "leftover"} => call[a].pc \notin {"free",
       "leftover"}

LEMMA FadedGenerations ==
    ASSUME LinkInv, CallsFade, session'.generation \in Nat,
           session.generation <= session'.generation
    PROVE  Generations'
<1>1. \A a \in Call : /\ call[a].generation \in Nat /\ call[a].generation <= session.generation
                      /\ call'[a].generation = call[a].generation
  BY CallFields DEF LinkInv, Generations, CallsFade
<1>2. session.generation \in Nat
  BY SessionFields DEF LinkInv, LinkTyped
<1>3. \A a \in Call : call'[a].generation <= session'.generation
  BY <1>1, <1>2
<1>4. \A a \in Call : call'[a].pc \notin {"free", "leftover"} => call'[a].generation # 0
  BY <1>1 DEF LinkInv, Generations, CallsFade
<1>5. \A a, b \in Call :
          call'[a].generation = call'[b].generation /\ call'[a].generation # 0 => a = b
  BY <1>1 DEF LinkInv, Generations
<1>6. QED
  BY <1>3, <1>4, <1>5 DEF Generations

\* disconnect begins: from whatever state, with every call stale.
LEMMA StartStep ==
    ASSUME LinkInv, NEW s \in SessionRecord, NEW l \in LinkRecord,
           s.status = session.status, s.generation = session.generation,
           s.writer = session.writer, session.held => s.held,
           \/ l = link
           \/ l.state = "closed" /\ link.state = "opening" /\ link.owner # "reader",
           Session!StartDisconnect(s, l), CallsFade,
           UNCHANGED <<kind, epoch, sending>>
    PROVE  LinkInv'
<1>1. /\ session' \in SessionRecord
      /\ session'.closing = TRUE /\ session'.generation = session.generation + 1
      /\ session'.status = "disconnecting"
      /\ session'.held = s.held /\ session'.writer = session.writer
      /\ session.generation \in Nat
  BY StartFields, SessionFields DEF LinkInv, LinkTyped, Closings
<1>2. closer' = TRUE /\ closer \in BOOLEAN
  BY DEF Session!StartDisconnect, LinkInv, LinkTyped
<1>3. Generations'
  BY <1>1, FadedGenerations
<1>4. CallsCurrent'
  <2>1. \A a \in Call : call'[a].generation <= session.generation /\ call'[a].generation \in Nat
    BY CallFields DEF LinkInv, Generations, CallsFade
  <2>2. \A a \in Call : call'[a].generation # session'.generation
    BY <1>1, <2>1
  <2>3. QED
    BY <2>2 DEF CallsCurrent, Session!Stale
<1>5. Session!ConnectedIsCurrent'
  BY <1>1 DEF Session!ConnectedIsCurrent
<1>6. CASE Session!Serial
  <2>1. /\ release' = (IF release = "idle" /\ ~closer THEN "draining" ELSE release)
        /\ reader' = (IF reader = "reading" THEN "none" ELSE reader)
        /\ link' = l /\ shell' = shell
    BY <1>6 DEF Session!StartDisconnect
  <2>2. LinkTyped'
    BY <1>1, <1>2, <2>1 DEF LinkInv, LinkTyped, CallsFade
  <2>3. SerialOnly' /\ ShellLive' /\ Closings'
    BY <1>1, <1>2, <1>6, <2>1 DEF LinkInv, SerialOnly, ShellLive, Closings, CallsFade,
       Session!Serial
  <2>4. Reading'
    BY <1>1, <1>2, <1>6, <2>1, <2>2 DEF LinkInv, LinkTyped, Reading, Retrying, Opened, Resting,
       InUse, Session!Serial, Closings
  <2>5. Held'
    BY <1>1, <1>2, <1>6, <2>1, <2>2 DEF LinkInv, LinkTyped, Held, Opened, InUse, Session!Serial,
       Closings, Session!NoOrphanLink
  <2>6. QED
    BY <1>3, <1>4, <1>5, <2>2, <2>3, <2>4, <2>5 DEF LinkInv
<1>7. CASE ~Session!Serial
  <2>1. /\ link' = [l EXCEPT !.state = IF s.held /\ l.state # "closed"
                                      THEN "closing" ELSE l.state]
        /\ shell' = (IF shell = "live" THEN "closed" ELSE shell)
        /\ release' = release /\ reader' = reader
    BY <1>7 DEF Session!StartDisconnect
  <2>2. link' \in LinkRecord /\ link'.state \in {"closing", l.state}
        /\ (s.held => link'.state \in {"closed", "closing"})
    BY <2>1 DEF LinkRecord
  <2>3. LinkTyped'
    BY <1>1, <1>2, <2>1, <2>2 DEF LinkInv, LinkTyped, CallsFade
  <2>4. SerialOnly' /\ ShellLive' /\ Closings'
    BY <1>1, <1>2, <1>7, <2>1, <2>2, <2>3 DEF LinkInv, LinkTyped, SerialOnly, ShellLive, Closings,
       CallsFade, Session!Serial, Resting, InUse
  <2>5. Reading'
    BY <1>1, <1>2, <1>7, <2>1, <2>2, <2>3 DEF LinkInv, LinkTyped, Reading, Retrying, Opened,
       Resting, InUse, Session!Serial, Closings, SerialOnly
  <2>6. Held'
    BY <1>1, <1>2, <1>7, <2>1, <2>2, <2>3 DEF LinkInv, LinkTyped, Held, Opened, InUse,
       Session!Serial, Closings, Session!NoOrphanLink
  <2>7. QED
    BY <1>3, <1>4, <1>5, <2>3, <2>4, <2>5, <2>6 DEF LinkInv
<1>8. QED
  BY <1>6, <1>7


\* The catch of connect.
LEMMA FailsStep ==
    ASSUME LinkInv, NEW a \in Call, call[a].pc \notin {"free", "leftover"},
           NEW s \in SessionRecord, NEW l \in LinkRecord,
           s.status = session.status, s.generation = session.generation,
           s.writer = session.writer, session.held => s.held,
           \/ l = link
           \/ l.state = "closed" /\ link.state = "opening" /\ link.owner # "reader",
           Session!Fails(a, s, l), UNCHANGED <<kind, epoch, sending>>
    PROVE  LinkInv'
<1>1. LinkTyped
  BY DEF LinkInv
<1>2. CASE Session!Stale(a)
  <2>1. /\ call' = [call EXCEPT ![a].pc = "done"] /\ link' = l
        /\ UNCHANGED <<session, closer, release, reader, shell>>
    BY <1>2 DEF Session!Fails, Session!Ends
  <2>2. /\ call' \in [Call -> CallRecord]
        /\ call'[a].pc = "done" /\ call'[a].generation = call[a].generation
        /\ \A b \in Call : b # a => call'[b] = call[b]
    BY <1>1, <2>1, CallMoves
  <2>3. CallsFade
    BY <2>2 DEF CallsFade
  <2>4. Generations'
    BY <2>1, <2>3, FadedGenerations, SessionFields DEF LinkInv, LinkTyped
  <2>5. LinkTyped'
    BY <1>1, <2>1, <2>2 DEF LinkTyped
  <2>6. CallsCurrent' /\ SerialOnly' /\ Session!ConnectedIsCurrent'
    <3>1. CallsCurrent'
      BY <2>1, <2>2 DEF LinkInv, CallsCurrent, Session!Stale, Waiting
    <3>2. SerialOnly'
      BY <2>1, <2>2 DEF LinkInv, SerialOnly, Session!Serial, Resting
    <3>3. Session!ConnectedIsCurrent'
      BY <1>2, <2>1, <2>2 DEF LinkInv, Session!ConnectedIsCurrent, Session!Stale
    <3>4. QED
      BY <3>1, <3>2, <3>3
  <2>7. Closings' /\ Reading' /\ Held' /\ ShellLive'
    BY <1>1, <2>1 DEF LinkInv, LinkTyped, Closings, Reading, Retrying, Opened, Resting, InUse,
                      Held, ShellLive, Session!Serial, Session!NoOrphanLink
  <2>8. QED
    BY <2>4, <2>5, <2>6, <2>7 DEF LinkInv
<1>3. CASE ~Session!Stale(a)
  <2>1. call' = [call EXCEPT ![a].pc = "failing"] /\ Session!StartDisconnect(s, l)
    BY <1>3 DEF Session!Fails
  <2>2. /\ call' \in [Call -> CallRecord]
        /\ call'[a].pc = "failing" /\ call'[a].generation = call[a].generation
        /\ \A b \in Call : b # a => call'[b] = call[b]
    BY <1>1, <2>1, CallMoves
  <2>3. CallsFade
    BY <2>2 DEF CallsFade
  <2>4. QED
    BY <2>1, <2>3, StartStep
<1>4. QED
  BY <1>2, <1>3

LEMMA HeldFields ==
    ASSUME NEW s \in SessionRecord, NEW t, t = [s EXCEPT !.held = TRUE]
    PROVE  /\ t \in SessionRecord /\ t.held = TRUE
           /\ t.status = s.status /\ t.generation = s.generation /\ t.version = s.version
           /\ t.closing = s.closing /\ t.writer = s.writer
  BY DEF SessionRecord

LEMMA ConnectedFields ==
    ASSUME NEW s \in SessionRecord, NEW n \in Nat, NEW t,
           t = [s EXCEPT !.status = "connected", !.writer = n]
    PROVE  /\ t \in SessionRecord /\ t.status = "connected" /\ t.writer = n
           /\ t.generation = s.generation /\ t.version = s.version
           /\ t.closing = s.closing /\ t.held = s.held
  BY DEF SessionRecord

LEMMA StatusFields ==
    ASSUME NEW s \in SessionRecord,
           NEW x \in {"disconnected", "connecting", "connected", "reconnecting",
                      "disconnecting", "error"},
           NEW t, t = [s EXCEPT !.status = x]
    PROVE  /\ t \in SessionRecord /\ t.status = x /\ t.writer = s.writer
           /\ t.generation = s.generation /\ t.version = s.version
           /\ t.closing = s.closing /\ t.held = s.held
  BY DEF SessionRecord

\* A new attempt begins, and nothing of the last one is left.
LEMMA FreshStep ==
    ASSUME LinkInv, NEW a \in Call, NEW s \in SessionRecord, s.generation = session.generation,
           ~s.held, call' = Session!Began(a, s), session' = Session!Begun(s),
           closer' = FALSE, Resting', shell' \in {"none", "closed"},
           Session!Serial => shell' = "none",
           ~Opened, ~sending, ~Session!Serial => link.state # "opening",
           UNCHANGED <<kind, link, epoch, sending>>
    PROVE  LinkInv'
<1>1. /\ session' \in SessionRecord
      /\ session'.closing = FALSE /\ session'.generation = session.generation + 1
      /\ session'.status = "connecting" /\ session'.held = FALSE
  BY BegunFields DEF SessionRecord
<1>2. session.generation \in Nat /\ session.generation + 1 \in Nat
  BY SessionFields DEF LinkInv, LinkTyped
<1>3. /\ call' \in [Call -> CallRecord]
      /\ call'[a].pc = "choosing" /\ call'[a].generation = session.generation + 1
      /\ \A b \in Call : b # a => call'[b] = call[b]
  <2>1. [pc |-> "choosing", generation |-> session.generation + 1] \in CallRecord
    BY <1>2 DEF CallRecord
  <2>2. call \in [Call -> CallRecord]
    BY DEF LinkInv, LinkTyped
  <2>3. call' = [call EXCEPT ![a] = [pc |-> "choosing", generation |-> session.generation + 1]]
    BY DEF Session!Began
  <2>4. QED
    BY <2>1, <2>2, <2>3
<1>4. \A b \in Call : /\ call[b].generation \in Nat /\ call[b].generation <= session.generation
                      /\ b # a => call'[b].generation = call[b].generation
  BY <1>3, CallFields DEF LinkInv, Generations
<1>5. LinkTyped'
  BY <1>1, <1>3 DEF LinkInv, LinkTyped, Resting
<1>6. Generations'
  <2>1. \A b \in Call : call'[b].generation <= session'.generation
    BY <1>1, <1>2, <1>3, <1>4
  <2>2. \A b \in Call : call'[b].pc \notin {"free", "leftover"} => call'[b].generation # 0
    BY <1>2, <1>3 DEF LinkInv, Generations
  <2>3. ASSUME NEW b \in Call, NEW c \in Call, call'[b].generation = call'[c].generation,
               call'[b].generation # 0
        PROVE  b = c
    BY <2>3, <1>2, <1>3, <1>4 DEF LinkInv, Generations
  <2>4. QED
    BY <2>1, <2>2, <2>3 DEF Generations
<1>7. CallsCurrent'
  <2>1. ASSUME NEW b \in Call, call'[b].generation = session'.generation
        PROVE  b = a
    BY <2>1, <1>1, <1>2, <1>4
  <2>2. QED
    BY <1>1, <1>3, <2>1 DEF CallsCurrent, Session!Stale, Waiting
<1>8. SerialOnly'
  BY <1>3 DEF LinkInv, SerialOnly, Session!Serial, Resting
<1>9. Closings' /\ Reading' /\ Held' /\ ShellLive' /\ Session!ConnectedIsCurrent'
  BY <1>1 DEF Closings, Reading, Held, ShellLive, Session!ConnectedIsCurrent, Session!NoOrphanLink,
              Session!Serial, InUse, Opened, Resting, Retrying
<1>10. QED
  BY <1>5, <1>6, <1>7, <1>8, <1>9 DEF LinkInv

LEMMA ConnectStep ==
    ASSUME LinkInv, NEW a \in Call, Session!Connect(a)
    PROVE  LinkInv'
<1>1. LinkTyped /\ session \in SessionRecord /\ session.status \in {"disconnected", "error"}
  BY DEF LinkInv, LinkTyped, Session!Connect
<1>2. ~closer /\ ~InUse /\ closer \in BOOLEAN
  BY <1>1 DEF LinkInv, Closings, InUse, LinkTyped
<1>3. CASE ~session.held
  <2>1. Resting /\ ~Opened /\ ~sending
    BY <1>2, <1>3 DEF LinkInv, Reading, Held, Session!NoOrphanLink, Opened
  <2>2. shell \in {"none", "closed"} /\ (Session!Serial => shell = "none")
        /\ (~Session!Serial => link.state # "opening")
    BY <1>1 DEF LinkInv, LinkTyped, ShellLive, SerialOnly
  <2>3. /\ call' = Session!Began(a, session) /\ session' = Session!Begun(session)
        /\ UNCHANGED <<closer, release, reader, link, shell, kind, epoch, sending>>
    BY <1>3 DEF Session!Connect
  <2>4. QED
    BY <1>1, <1>2, <1>3, <2>1, <2>2, <2>3, FreshStep DEF Resting
<1>4. CASE session.held
  <2>1. call' = [call EXCEPT ![a].pc = "leftover"] /\ Session!StartDisconnect(session, link)
        /\ call[a].pc = "free" /\ UNCHANGED <<kind, epoch, sending>>
    BY <1>4 DEF Session!Connect
  <2>2. /\ call' \in [Call -> CallRecord]
        /\ call'[a].pc = "leftover" /\ call'[a].generation = call[a].generation
        /\ \A b \in Call : b # a => call'[b] = call[b]
    BY <1>1, <2>1, CallMoves
  <2>3. CallsFade
    BY <2>1, <2>2 DEF CallsFade
  <2>4. link \in LinkRecord
    BY <1>1 DEF LinkTyped
  <2>5. QED
    BY <1>1, <2>1, <2>3, <2>4, StartStep
<1>5. QED
  BY <1>3, <1>4

LEMMA DisconnectStep ==
    ASSUME LinkInv, Session!Disconnect
    PROVE  LinkInv'
<1>1. Session!StartDisconnect(session, link) /\ UNCHANGED <<kind, epoch, call, sending>>
  BY DEF Session!Disconnect
<1>2. session \in SessionRecord /\ link \in LinkRecord /\ CallsFade
  BY <1>1, CallFields DEF LinkInv, LinkTyped, CallsFade
<1>3. QED
  BY <1>1, <1>2, StartStep

LEMMA SomeoneFails ==
    ASSUME LinkInv, NEW a \in Call,
           Session!ChooserFails(a) \/ Session!PortRefuses(a) \/ Session!HandshakeFails(a),
           Session!SessionAssumption
    PROVE  LinkInv'
<1>1. session \in SessionRecord /\ link \in LinkRecord
  BY DEF LinkInv, LinkTyped
<1>2. CASE Session!ChooserFails(a) \/ Session!HandshakeFails(a)
  BY <1>1, <1>2, FailsStep DEF Session!ChooserFails, Session!HandshakeFails
<1>3. CASE Session!PortRefuses(a)
  <2> DEFINE l == [state |-> "closed", owner |-> None]
  <2>1. l \in LinkRecord /\ l.state = "closed"
    BY DEF LinkRecord
  <2>2. link.state = "opening" /\ link.owner = a /\ a # "reader"
    BY <1>3 DEF Session!PortRefuses, Session!SessionAssumption
  <2>3. Session!Fails(a, session, l) /\ call[a].pc \notin {"free", "leftover"}
        /\ UNCHANGED <<kind, epoch, sending>>
    BY <1>3 DEF Session!PortRefuses
  <2> HIDE DEF l
  <2>4. QED
    BY <1>1, <2>1, <2>2, <2>3, FailsStep
<1>4. QED
  BY <1>2, <1>3


\* A call that goes on, to where a current call may be.
LEMMA CallGoesOn ==
    ASSUME LinkInv, NEW a \in Call,
           NEW p \in {"opening", "handshake", "discarding", "done"},
           call[a].pc \notin {"free", "leftover"}, call' = [call EXCEPT ![a].pc = p],
           session'.generation = session.generation
    PROVE  /\ call' \in [Call -> CallRecord]
           /\ call'[a].pc = p /\ call'[a].generation = call[a].generation
           /\ \A b \in Call : b # a => call'[b] = call[b]
           /\ Generations'
<1>1. /\ call' \in [Call -> CallRecord]
      /\ call'[a].pc = p /\ call'[a].generation = call[a].generation
      /\ \A b \in Call : b # a => call'[b] = call[b]
  BY CallMoves DEF LinkInv
<1>2. \A b \in Call : call'[b].generation = call[b].generation
  BY <1>1
<1>3. Generations'
  BY <1>1, <1>2 DEF LinkInv, Generations
<1>4. QED
  BY <1>1, <1>3

\* The current call is the only one that waits.
LEMMA OneCurrent ==
    ASSUME LinkInv, NEW a \in Call, NEW b \in Call, call[a].pc \notin {"free", "leftover"},
           ~Session!Stale(a), ~Session!Stale(b)
    PROVE  a = b
<1>1. call[a].generation # 0 /\ call[a].generation = call[b].generation
  BY DEF LinkInv, Generations, Session!Stale
<1>2. QED
  BY <1>1 DEF LinkInv, Generations

LEMMA ChoosePortStep ==
    ASSUME LinkInv, NEW a \in Call, Session!ChoosePort(a)
    PROVE  LinkInv'
<1> DEFINE t == [session EXCEPT !.held = TRUE]
<1>1. /\ t \in SessionRecord /\ t.held = TRUE
      /\ t.status = session.status /\ t.generation = session.generation
      /\ t.closing = session.closing /\ t.writer = session.writer
      /\ link \in LinkRecord /\ LinkTyped
  BY HeldFields DEF LinkInv, LinkTyped
<1>2. Session!Serial /\ call[a].pc = "choosing" /\ UNCHANGED <<kind, epoch, sending>>
  BY DEF Session!ChoosePort
<1> HIDE DEF t
<1>3. CASE Session!Stale(a) \/ link.state # "closed"
  <2>1. Session!Fails(a, t, link)
    BY <1>3 DEF Session!ChoosePort, t
  <2>2. QED
    BY <1>1, <1>2, <2>1, FailsStep
<1>4. CASE ~(Session!Stale(a) \/ link.state # "closed")
  <2>1. /\ session' = t /\ link' = [state |-> "opening", owner |-> a]
        /\ call' = [call EXCEPT ![a].pc = "opening"]
        /\ UNCHANGED <<closer, release, reader, shell>>
        /\ ~Session!Stale(a) /\ link.state = "closed"
    BY <1>4 DEF Session!ChoosePort, t
  <2>2. /\ call' \in [Call -> CallRecord]
        /\ call'[a].pc = "opening" /\ call'[a].generation = call[a].generation
        /\ \A b \in Call : b # a => call'[b] = call[b]
        /\ Generations'
    BY <1>1, <1>2, <2>1, CallGoesOn
  <2>3. link' \in LinkRecord /\ link'.state = "opening"
    BY <2>1 DEF LinkRecord
  <2>4. session.status = "connecting" /\ ~session.closing
    BY <1>2, <2>1 DEF LinkInv, CallsCurrent, Waiting
  <2>5. LinkTyped'
    BY <1>1, <1>2, <2>1, <2>2, <2>3 DEF LinkTyped
  <2>6. CallsCurrent'
    BY <1>1, <2>1, <2>2, <2>4 DEF LinkInv, CallsCurrent, Waiting, Session!Stale
  <2>7. Closings' /\ ShellLive' /\ Session!ConnectedIsCurrent'
    BY <1>1, <1>2, <2>1, <2>4 DEF LinkInv, Closings, ShellLive, InUse, Session!Serial,
       Session!ConnectedIsCurrent
  <2>8. SerialOnly'
    BY <1>2, <2>1, <2>2 DEF LinkInv, SerialOnly, Session!Serial
  <2>9. ~closer /\ Resting
    BY <2>4 DEF LinkInv, Closings, Reading, InUse
  <2>10. Reading' /\ Held'
    BY <1>1, <1>2, <2>1, <2>3, <2>4, <2>9 DEF LinkInv, Reading, Resting, Retrying, Opened, InUse,
                                   Held, Session!Serial, Session!NoOrphanLink
  <2>11. QED
    BY <2>2, <2>5, <2>6, <2>7, <2>8, <2>10 DEF LinkInv
<1>5. QED
  BY <1>3, <1>4

LEMMA StateFields ==
    ASSUME NEW l \in LinkRecord, NEW x \in {"closed", "opening", "open", "lost", "closing"},
           NEW m, m = [l EXCEPT !.state = x]
    PROVE  m \in LinkRecord /\ m.state = x /\ m.owner = l.owner
  BY DEF LinkRecord

LEMMA PortOpensStep ==
    ASSUME LinkInv, NEW a \in Call, Session!PortOpens(a), Session!SessionAssumption
    PROVE  LinkInv'
<1>1. /\ call[a].pc = "opening" /\ link.state = "opening" /\ link.owner = a /\ a # "reader"
      /\ Session!Serial /\ epoch' = epoch + 1 /\ epoch' \in Nat /\ LinkTyped
      /\ UNCHANGED <<kind, shell, closer, release, sending>> /\ link \in LinkRecord
      /\ session \in SessionRecord
  BY DEF Session!PortOpens, Session!SessionAssumption, LinkInv, LinkTyped
<1>2. reader # "opening" /\ reader # "reading" /\ reader # "discarding" /\ ~Opened /\ ~sending
      /\ session.status # "connected" /\ release # "closing"
  BY <1>1 DEF LinkInv, Reading, Opened, Held
<1>3. CASE Session!Stale(a)
  <2>1. /\ link' = [link EXCEPT !.state = "closing"]
        /\ call' = [call EXCEPT ![a].pc = "discarding"] /\ UNCHANGED <<session, reader>>
    BY <1>3 DEF Session!PortOpens
  <2>2. /\ call' \in [Call -> CallRecord]
        /\ call'[a].pc = "discarding" /\ call'[a].generation = call[a].generation
        /\ \A b \in Call : b # a => call'[b] = call[b]
        /\ Generations'
    BY <1>1, <2>1, CallGoesOn
  <2>3. link' \in LinkRecord /\ link'.state = "closing"
    BY <1>1, <2>1, StateFields
  <2>4. LinkTyped'
    BY <1>1, <2>1, <2>2, <2>3 DEF LinkTyped
  <2>5. CallsCurrent' /\ SerialOnly'
    <3>1. CallsCurrent'
      BY <2>1, <2>2 DEF LinkInv, CallsCurrent, Waiting, Session!Stale
    <3>2. SerialOnly'
      BY <1>1, <2>1, <2>2 DEF LinkInv, SerialOnly, Session!Serial
    <3>3. QED
      BY <3>1, <3>2
  <2>6. Session!ConnectedIsCurrent'
    BY <1>1, <2>1, <2>2 DEF LinkInv, Session!ConnectedIsCurrent, Session!Stale
  <2>7. Closings' /\ ShellLive' /\ Reading' /\ Held'
    BY <1>1, <1>2, <2>1, <2>3 DEF LinkInv, Closings, ShellLive, Reading, Resting, Retrying,
            Opened, InUse, Held, Session!Serial, Session!NoOrphanLink
  <2>8. QED
    BY <2>2, <2>4, <2>5, <2>6, <2>7 DEF LinkInv
<1>4. CASE ~Session!Stale(a)
  <2>1. /\ link' = [link EXCEPT !.state = "open"]
        /\ session' = [session EXCEPT !.status = "connected", !.writer = epoch']
        /\ reader' = "reading" /\ call' = [call EXCEPT ![a].pc = "done"]
    BY <1>1, <1>4 DEF Session!PortOpens, Session!Ends
  <2>2. /\ session' \in SessionRecord /\ session'.status = "connected" /\ session'.writer = epoch'
        /\ session'.generation = session.generation
        /\ session'.closing = session.closing /\ session'.held = session.held
    BY <1>1, <2>1 DEF SessionRecord
  <2>3. /\ call' \in [Call -> CallRecord]
        /\ call'[a].pc = "done" /\ call'[a].generation = call[a].generation
        /\ \A b \in Call : b # a => call'[b] = call[b]
        /\ Generations'
    BY <1>1, <2>1, <2>2, CallGoesOn
  <2>4. link' \in LinkRecord /\ link'.state = "open"
    BY <1>1, <2>1, StateFields
  <2>5. session.status = "connecting" /\ ~session.closing /\ session.held
    BY <1>1, <1>4 DEF LinkInv, CallsCurrent, Waiting
  <2>6. ~closer /\ Resting
    BY <2>5 DEF LinkInv, Closings, Reading, InUse
  <2>7. LinkTyped'
    BY <1>1, <2>1, <2>2, <2>3, <2>4 DEF LinkTyped
  <2>8. CallsCurrent'
    <3>1. ASSUME NEW b \in Call, call'[b].generation = session'.generation
          PROVE  b = a
      <4>1. ~Session!Stale(b)
        BY <2>2, <2>3, <3>1 DEF Session!Stale
      <4>2. QED
        BY <1>1, <1>4, <4>1, OneCurrent
    <3>2. QED
      BY <2>3, <3>1 DEF CallsCurrent, Waiting, Session!Stale
  <2>9. SerialOnly'
    BY <1>1, <2>3 DEF LinkInv, SerialOnly, Session!Serial
  <2>10. Session!ConnectedIsCurrent'
    BY <1>4, <2>2, <2>3, <2>5 DEF Session!ConnectedIsCurrent, Session!Stale
  <2>11. Closings' /\ ShellLive' /\ Reading' /\ Held'
    BY <1>1, <1>2, <2>1, <2>2, <2>4, <2>5, <2>6 DEF LinkInv, Closings, ShellLive, Reading,
       Resting, Retrying,
            Opened, InUse, Held, Session!Serial, Session!NoOrphanLink, SerialOnly
  <2>12. QED
    BY <2>3, <2>7, <2>8, <2>9, <2>10, <2>11 DEF LinkInv
<1>5. QED
  BY <1>3, <1>4

LEMMA ChooseAdbStep ==
    ASSUME LinkInv, NEW a \in Call, Session!ChooseAdb(a)
    PROVE  LinkInv'
<1>1. /\ call[a].pc = "choosing" /\ link.state = "closed"
      /\ ~Session!Serial /\ epoch' = epoch + 1 /\ epoch' \in Nat /\ LinkTyped
      /\ UNCHANGED <<kind, shell, closer, release, reader, sending>>
      /\ session \in SessionRecord
  BY DEF Session!ChooseAdb, LinkInv, LinkTyped, Session!Serial
<1>2. ~Opened /\ Resting /\ ~InUse /\ shell # "live"
  BY <1>1 DEF LinkInv, Opened, SerialOnly, ShellLive, InUse
<1>3. CASE Session!Stale(a)
  <2>1. /\ link' = [state |-> "closing", owner |-> a]
        /\ call' = [call EXCEPT ![a].pc = "discarding"] /\ UNCHANGED session
    BY <1>3 DEF Session!ChooseAdb
  <2>2. /\ call' \in [Call -> CallRecord]
        /\ call'[a].pc = "discarding" /\ call'[a].generation = call[a].generation
        /\ \A b \in Call : b # a => call'[b] = call[b]
        /\ Generations'
    BY <1>1, <2>1, CallGoesOn
  <2>3. link' \in LinkRecord /\ link'.state = "closing"
    BY <2>1 DEF LinkRecord
  <2>4. LinkTyped'
    BY <1>1, <2>1, <2>2, <2>3 DEF LinkTyped
  <2>5. CallsCurrent' /\ SerialOnly'
    <3>1. CallsCurrent'
      BY <2>1, <2>2 DEF LinkInv, CallsCurrent, Waiting, Session!Stale
    <3>2. SerialOnly'
      BY <1>1, <1>2, <2>2, <2>3 DEF LinkInv, SerialOnly, Session!Serial, Resting
    <3>3. QED
      BY <3>1, <3>2
  <2>6. Session!ConnectedIsCurrent'
    BY <1>1, <2>1, <2>2 DEF LinkInv, Session!ConnectedIsCurrent, Session!Stale
  <2>7. Closings' /\ ShellLive' /\ Reading' /\ Held'
    BY <1>1, <1>2, <2>1, <2>3 DEF LinkInv, Closings, ShellLive, Reading, Resting, Retrying,
            Opened, InUse, Held, Session!Serial, Session!NoOrphanLink
  <2>8. QED
    BY <2>2, <2>4, <2>5, <2>6, <2>7 DEF LinkInv
<1>4. CASE ~Session!Stale(a)
  <2>1. /\ link' = [state |-> "open", owner |-> a]
        /\ session' = [session EXCEPT !.held = TRUE]
        /\ call' = [call EXCEPT ![a].pc = "handshake"]
    BY <1>4 DEF Session!ChooseAdb
  <2>2. /\ session' \in SessionRecord /\ session'.held = TRUE
        /\ session'.status = session.status /\ session'.generation = session.generation
        /\ session'.closing = session.closing /\ session'.writer = session.writer
    BY <1>1, <2>1, HeldFields
  <2>3. /\ call' \in [Call -> CallRecord]
        /\ call'[a].pc = "handshake" /\ call'[a].generation = call[a].generation
        /\ \A b \in Call : b # a => call'[b] = call[b]
        /\ Generations'
    BY <1>1, <2>1, <2>2, CallGoesOn
  <2>4. link' \in LinkRecord /\ link'.state = "open"
    BY <2>1 DEF LinkRecord
  <2>5. session.status = "connecting" /\ ~session.closing
    BY <1>1, <1>4 DEF LinkInv, CallsCurrent, Waiting
  <2>6. LinkTyped'
    BY <1>1, <2>2, <2>3, <2>4 DEF LinkTyped
  <2>7. CallsCurrent'
    BY <2>2, <2>3, <2>5 DEF LinkInv, CallsCurrent, Waiting, Session!Stale
  <2>8. SerialOnly'
    BY <1>1, <1>2, <2>3, <2>4 DEF LinkInv, SerialOnly, Session!Serial, Resting
  <2>9. Closings' /\ ShellLive' /\ Session!ConnectedIsCurrent'
    BY <1>1, <1>2, <2>2, <2>5 DEF LinkInv, Closings, ShellLive, InUse, Session!Serial,
       Session!ConnectedIsCurrent
  <2>10. Reading' /\ Held'
    BY <1>1, <1>2, <2>2, <2>4, <2>5 DEF LinkInv, Reading, Resting, Retrying, Opened, InUse,
            Held, Session!Serial, Session!NoOrphanLink
  <2>11. QED
    BY <2>3, <2>6, <2>7, <2>8, <2>9, <2>10 DEF LinkInv
<1>5. QED
  BY <1>3, <1>4

LEMMA ShellReadyStep ==
    ASSUME LinkInv, NEW a \in Call, Session!ShellReady(a)
    PROVE  LinkInv'
<1>1. /\ call[a].pc = "handshake" /\ call' = [call EXCEPT ![a].pc = "done"]
      /\ ~Session!Serial /\ LinkTyped /\ session \in SessionRecord
      /\ UNCHANGED <<kind, link, epoch, closer, release, reader, sending>>
  BY DEF Session!ShellReady, Session!Ends, LinkInv, LinkTyped, SerialOnly
<1>2. Resting
  BY <1>1 DEF LinkInv, SerialOnly
<1>3. CASE Session!Stale(a)
  <2>1. UNCHANGED <<session, shell>>
    BY <1>3 DEF Session!ShellReady
  <2>2. /\ call' \in [Call -> CallRecord]
        /\ call'[a].pc = "done" /\ call'[a].generation = call[a].generation
        /\ \A b \in Call : b # a => call'[b] = call[b]
        /\ Generations'
    BY <1>1, <2>1, CallGoesOn
  <2>3. LinkTyped'
    BY <1>1, <2>1, <2>2 DEF LinkTyped
  <2>4. CallsCurrent' /\ SerialOnly'
    <3>1. CallsCurrent'
      BY <2>1, <2>2 DEF LinkInv, CallsCurrent, Waiting, Session!Stale
    <3>2. SerialOnly'
      BY <1>1, <1>2, <2>1, <2>2 DEF LinkInv, SerialOnly, Session!Serial, Resting
    <3>3. QED
      BY <3>1, <3>2
  <2>5. Session!ConnectedIsCurrent'
    BY <1>1, <2>1, <2>2 DEF LinkInv, Session!ConnectedIsCurrent, Session!Stale
  <2>6. Closings' /\ ShellLive' /\ Reading' /\ Held'
    BY <1>1, <1>2, <2>1 DEF LinkInv, Closings, ShellLive, Reading, Resting, Retrying,
            Opened, InUse, Held, Session!Serial, Session!NoOrphanLink
  <2>7. QED
    BY <2>2, <2>3, <2>4, <2>5, <2>6 DEF LinkInv
<1>4. CASE ~Session!Stale(a)
  <2>1. link.state = "open" /\ shell' = "live" /\ session' = [session EXCEPT !.status = "connected"]
    BY <1>4 DEF Session!ShellReady
  <2>2. /\ session' \in SessionRecord /\ session'.status = "connected"
        /\ session'.generation = session.generation
        /\ session'.closing = session.closing /\ session'.held = session.held
    BY <1>1, <2>1, StatusFields
  <2>3. /\ call' \in [Call -> CallRecord]
        /\ call'[a].pc = "done" /\ call'[a].generation = call[a].generation
        /\ \A b \in Call : b # a => call'[b] = call[b]
        /\ Generations'
    BY <1>1, <2>1, <2>2, CallGoesOn
  <2>4. session.status = "connecting" /\ ~session.closing /\ session.held
    BY <1>1, <1>4, <2>1 DEF LinkInv, CallsCurrent, Waiting, Held, Session!NoOrphanLink
  <2>5. LinkTyped'
    BY <1>1, <2>1, <2>2, <2>3 DEF LinkTyped
  <2>6. CallsCurrent'
    <3>1. ASSUME NEW b \in Call, call'[b].generation = session'.generation
          PROVE  b = a
      <4>1. ~Session!Stale(b)
        BY <2>2, <2>3, <3>1 DEF Session!Stale
      <4>2. QED
        BY <1>1, <1>4, <4>1, OneCurrent
    <3>2. QED
      BY <2>3, <3>1 DEF CallsCurrent, Waiting, Session!Stale
  <2>7. SerialOnly'
    BY <1>1, <1>2, <2>3 DEF LinkInv, SerialOnly, Session!Serial, Resting
  <2>8. Session!ConnectedIsCurrent'
    BY <1>4, <2>2, <2>3, <2>4 DEF Session!ConnectedIsCurrent, Session!Stale
  <2>9. ~closer
    BY <2>4 DEF LinkInv, Closings
  <2>10. Closings' /\ ShellLive' /\ Reading' /\ Held'
    BY <1>1, <1>2, <2>1, <2>2, <2>4, <2>9 DEF LinkInv, Closings, ShellLive, Reading, Resting,
       Retrying,
            Opened, InUse, Held, Session!Serial, Session!NoOrphanLink
  <2>11. QED
    BY <2>3, <2>5, <2>6, <2>7, <2>8, <2>10 DEF LinkInv
<1>5. QED
  BY <1>3, <1>4


LEMMA EndedFields ==
    ASSUME NEW s \in SessionRecord, NEW t, NEW x \in {"disconnected", "error"},
           t = [s EXCEPT !.held = FALSE, !.writer = 0, !.status = x]
    PROVE  /\ t \in SessionRecord /\ t.held = FALSE /\ t.writer = 0 /\ t.status = x
           /\ t.generation = s.generation /\ t.closing = s.closing /\ t.version = s.version
  BY DEF SessionRecord

\* finishDisconnect ends with nothing open, whoever waited for it.
LEMMA FinishStep ==
    ASSUME LinkInv, Session!FinishDisconnect
    PROVE  LinkInv'
<1> DEFINE s == [session EXCEPT !.held = FALSE, !.writer = 0, !.status = "disconnected"]
<1>1. /\ LinkTyped /\ session \in SessionRecord
      /\ closer /\ closer' = FALSE /\ shell' = "none"
      /\ UNCHANGED <<kind, link, epoch, release, reader, sending>>
  BY DEF Session!FinishDisconnect, LinkInv, LinkTyped
<1>2. session.closing = TRUE /\ session.status = "disconnecting" /\ session.closing \in BOOLEAN
  BY <1>1, SessionFields DEF LinkInv, Closings
<1>3. Resting
  BY DEF Session!FinishDisconnect, LinkInv, SerialOnly, Resting
<1>4. ~Opened /\ ~sending
  <2>1. CASE Session!Serial
    BY <1>2, <1>3, <2>1 DEF LinkInv, Held, Resting
  <2>2. CASE ~Session!Serial
    BY <2>2 DEF Session!FinishDisconnect, LinkInv, Held, Opened, Session!NoOrphanLink,
       Session!Drained
  <2>3. QED
    BY <2>1, <2>2
<1>5. /\ s \in SessionRecord /\ s.held = FALSE /\ s.status = "disconnected"
      /\ s.generation = session.generation /\ s.closing = TRUE
  BY <1>1, <1>2, EndedFields
<1>6. \/ session' = s /\ UNCHANGED call
      \/ \E a \in Call : session' = Session!Begun(s) /\ call' = Session!Began(a, s)
      \/ \E a \in Call : /\ call[a].pc = "failing"
                         /\ session' = [s EXCEPT !.status = "error"] /\ Session!Ends(a)
  BY DEF Session!FinishDisconnect
<1> HIDE DEF s
<1>7. ASSUME session' \in SessionRecord, session'.held = FALSE, session'.closing = TRUE,
             session'.status \in {"disconnected", "error"},
             session'.generation = session.generation,
             CallsFade, \A a \in Call : call'[a].pc \in {call[a].pc, "done"}
      PROVE  LinkInv'
  <2>1. LinkTyped'
    BY <1>1, <1>7 DEF LinkTyped, CallsFade
  <2>2. Generations'
    BY <1>7, FadedGenerations, SessionFields
  <2>3. CallsCurrent'
    BY <1>2, <1>7 DEF LinkInv, CallsCurrent, CallsFade, Waiting, Session!Stale
  <2>4. SerialOnly'
    BY <1>1, <1>7 DEF LinkInv, SerialOnly, Session!Serial, Resting
  <2>5. Closings' /\ ShellLive' /\ Session!ConnectedIsCurrent' /\ Reading' /\ Held'
    BY <1>1, <1>3, <1>4, <1>7 DEF Closings, ShellLive, Session!ConnectedIsCurrent, Reading, Held,
            Resting, Retrying, InUse, Opened, Session!Serial, Session!NoOrphanLink
  <2>6. QED
    BY <2>1, <2>2, <2>3, <2>4, <2>5 DEF LinkInv
<1>8. CASE session' = s /\ UNCHANGED call
  <2>1. CallsFade /\ \A a \in Call : call'[a].pc \in {call[a].pc, "done"}
    BY <1>1, <1>8 DEF CallsFade, LinkTyped
  <2>2. QED
    BY <1>5, <1>7, <1>8, <2>1
<1>9. ASSUME NEW a \in Call, session' = Session!Begun(s), call' = Session!Began(a, s)
      PROVE  LinkInv'

         <2>1. Resting' /\ (Session!Serial => shell' = "none")
               /\ (~Session!Serial => link.state # "opening")
    BY <1>1, <1>3 DEF Resting, LinkInv, SerialOnly
  <2>2. QED
    BY <1>1, <1>4, <1>5, <1>9, <2>1, FreshStep
<1>10. ASSUME NEW a \in Call, call[a].pc = "failing",
              session' = [s EXCEPT !.status = "error"], Session!Ends(a)
       PROVE  LinkInv'
  <2>1. /\ call' \in [Call -> CallRecord]
        /\ call'[a].pc = "done" /\ call'[a].generation = call[a].generation
        /\ \A b \in Call : b # a => call'[b] = call[b]
    BY <1>1, <1>10, CallMoves DEF Session!Ends
  <2>2. CallsFade /\ \A b \in Call : call'[b].pc \in {call[b].pc, "done"}
    BY <1>10, <2>1 DEF CallsFade
  <2>3. /\ session' \in SessionRecord /\ session'.status = "error" /\ session'.held = s.held
        /\ session'.closing = s.closing /\ session'.generation = s.generation
    BY <1>5, <1>10, StatusFields
  <2>4. QED
    BY <1>5, <1>7, <2>2, <2>3
<1>11. QED
  BY <1>6, <1>8, <1>9, <1>10

-----------------------------------------------------------------------------
(* the reader, the port and the shell *)

\* What the calls know of the session is kept when no field they look at changes.
LEMMA CallsKept ==
    ASSUME LinkInv, UNCHANGED <<kind, call>>, session' \in SessionRecord,
           session'.generation = session.generation, session'.closing = session.closing,
           session'.held = session.held,
           \/ session'.status = session.status
           \/ session.status # "connecting"
    PROVE  Generations' /\ CallsCurrent'
<1>1. Generations'
  BY DEF LinkInv, Generations
<1>2. CallsCurrent'
  BY DEF LinkInv, CallsCurrent, Waiting, Session!Stale
<1>3. QED
  BY <1>1, <1>2

LEMMA WriterFields ==
    ASSUME NEW s \in SessionRecord, NEW t, t = [s EXCEPT !.writer = 0]
    PROVE  /\ t \in SessionRecord /\ t.held = s.held /\ t.writer = 0 /\ t.status = s.status
           /\ t.generation = s.generation /\ t.closing = s.closing /\ t.version = s.version
  BY DEF SessionRecord

LEMMA ClosePortStep ==
    ASSUME LinkInv, Session!ClosePort
    PROVE  LinkInv'
<1>1. /\ LinkTyped /\ session \in SessionRecord /\ link \in LinkRecord
      /\ release = "draining" /\ ~sending /\ Session!Serial
      /\ UNCHANGED <<kind, shell, epoch, call, closer, sending>>
  BY DEF Session!ClosePort, Session!Drained, LinkInv, LinkTyped, SerialOnly, Resting
<1>2. reader # "reading" /\ session.status # "connected"
  BY <1>1 DEF LinkInv, Reading
<1>3. CASE session.held /\ link.state \in {"open", "lost"}
  <2>1. release' = "closing" /\ link' = [link EXCEPT !.state = "closing"]
        /\ UNCHANGED <<session, reader>>
    BY <1>3 DEF Session!ClosePort
  <2>2. link' \in LinkRecord /\ link'.state = "closing"
    BY <1>1, <2>1, StateFields
  <2>3. reader \in {"none", "lost"}
    BY <1>1, <1>2, <1>3 DEF LinkInv, LinkTyped, Reading, Opened
  <2>4. Generations' /\ CallsCurrent'
    BY <1>1, <2>1, CallsKept
  <2>5. LinkTyped' /\ Closings' /\ SerialOnly' /\ ShellLive' /\ Session!ConnectedIsCurrent'
    BY <1>1, <2>1, <2>2 DEF LinkInv, LinkTyped, Closings, SerialOnly, ShellLive, Session!Serial,
            Session!ConnectedIsCurrent, Session!Stale, InUse, Resting
  <2>6. Reading' /\ Held'
    BY <1>1, <1>2, <2>1, <2>2, <2>3 DEF LinkInv, Reading, Held, Resting, Retrying, InUse, Opened,
            Session!Serial, Session!NoOrphanLink
  <2>7. QED
    BY <2>4, <2>5, <2>6 DEF LinkInv
<1>4. CASE ~(session.held /\ link.state \in {"open", "lost"})
  <2>1. release' = "idle" /\ session' = [session EXCEPT !.writer = 0]
        /\ reader' = Session!AfterClose(reader) /\ link' = link
    BY <1>4 DEF Session!ClosePort
  <2>2. /\ session' \in SessionRecord /\ session'.held = session.held
        /\ session'.status = session.status /\ session'.generation = session.generation
        /\ session'.closing = session.closing
    BY <1>1, <2>1, WriterFields
  <2>3. ~Opened
    BY <1>4 DEF LinkInv, Held, Session!NoOrphanLink, Opened
  <2>4. \/ reader = "lost" /\ session.closing /\ reader' = "none"
        \/ reader = "lost" /\ ~session.closing /\ reader' = "waiting"
        \/ reader # "lost" /\ reader' = reader
    BY <2>1 DEF Session!AfterClose, Session!Active
  <2>5. Generations' /\ CallsCurrent'
    BY <1>1, <2>2, CallsKept
  <2>6. LinkTyped' /\ Closings' /\ SerialOnly' /\ ShellLive' /\ Session!ConnectedIsCurrent'
    BY <1>1, <2>1, <2>2, <2>4 DEF LinkInv, LinkTyped, Closings, SerialOnly, ShellLive,
       Session!Serial,
            Session!ConnectedIsCurrent, Session!Stale, InUse, Resting
  <2>7. Reading'
    BY <1>1, <1>2, <2>1, <2>2, <2>3, <2>4 DEF LinkInv, LinkTyped, Reading, Resting, Retrying,
       InUse, Opened,
            Session!Serial
  <2>8. Held'
    BY <1>1, <1>2, <2>1, <2>2, <2>3 DEF LinkInv, Held, InUse, Opened, Session!Serial,
       Session!NoOrphanLink
  <2>9. QED
    BY <2>5, <2>6, <2>7, <2>8 DEF LinkInv
<1>5. QED
  BY <1>3, <1>4

LEMMA LinkClosesStep ==
    ASSUME LinkInv, Session!LinkCloses
    PROVE  LinkInv'
<1>1. /\ LinkTyped /\ session \in SessionRecord
      /\ link.state = "closing" /\ link' = [state |-> "closed", owner |-> None]
      /\ UNCHANGED <<kind, shell, epoch, closer, sending>>
  BY DEF Session!LinkCloses, LinkInv, LinkTyped
<1>2. link' \in LinkRecord /\ link'.state = "closed"
  BY <1>1 DEF LinkRecord
<1>3. /\ session' \in SessionRecord /\ session'.held = session.held
      /\ session'.status = session.status /\ session'.generation = session.generation
      /\ session'.closing = session.closing
  BY <1>1, WriterFields DEF Session!LinkCloses
<1>4. /\ call' \in [Call -> CallRecord]
      /\ \A a \in Call : /\ call'[a].generation = call[a].generation
                         /\ \/ call'[a].pc = call[a].pc
                            \/ call[a].pc = "discarding" /\ call'[a].pc = "done"
  <2>1. call' = [a \in Call |-> IF call[a].pc = "discarding"
                                THEN [call[a] EXCEPT !.pc = "done"] ELSE call[a]]
    BY DEF Session!LinkCloses
  <2>2. \A a \in Call : /\ call[a] \in CallRecord /\ [call[a] EXCEPT !.pc = "done"] \in CallRecord
                        /\ [call[a] EXCEPT !.pc = "done"].pc = "done"
                        /\ [call[a] EXCEPT !.pc = "done"].generation = call[a].generation
    BY CallFields DEF LinkInv, CallRecord
  <2>3. QED
    BY <2>1, <2>2
<1>5. CallsFade
  BY <1>4 DEF CallsFade
<1>6. Generations'
  BY <1>3, <1>5, FadedGenerations, SessionFields
<1>7. CallsCurrent'
  BY <1>3, <1>4 DEF LinkInv, CallsCurrent, Waiting, Session!Stale
<1>8. \/ release = "closing" /\ release' = "idle" /\ reader' = Session!AfterClose(reader)
      \/ release # "closing" /\ release' = release /\ reader = "discarding" /\ reader' = "none"
      \/ release # "closing" /\ release' = release /\ reader # "discarding" /\ reader' = reader
  BY DEF Session!LinkCloses
<1>9. \/ reader' = reader
      \/ reader = "lost" /\ session.closing /\ reader' = "none"
      \/ reader = "lost" /\ ~session.closing /\ reader' = "waiting"
      \/ reader = "discarding" /\ reader' = "none"
  BY <1>8 DEF Session!AfterClose, Session!Active
<1>10. /\ LinkTyped' /\ Closings' /\ ShellLive' /\ Session!ConnectedIsCurrent'
  <2>1. LinkTyped' /\ Closings'
    BY <1>1, <1>2, <1>3, <1>4, <1>8, <1>9 DEF LinkInv, LinkTyped, Closings
  <2>2. ShellLive'
    BY <1>1, <1>2, <1>3 DEF LinkInv, ShellLive, InUse, Session!Serial
  <2>3. Session!ConnectedIsCurrent'
    BY <1>3, <1>4 DEF LinkInv, Session!ConnectedIsCurrent, Session!Stale
  <2>4. QED
    BY <2>1, <2>2, <2>3
<1>11. SerialOnly'
  BY <1>1, <1>2, <1>4, <1>8, <1>9 DEF LinkInv, SerialOnly, Session!Serial, Resting
<1>12. ~Opened /\ ~Opened' /\ reader # "opening" /\ reader # "reading"
  BY <1>1, <1>2 DEF LinkInv, Reading, Opened
<1>13. Reading'
  <2>1. CASE release = "closing"
    <3>1. reader \in {"none", "lost"} /\ release' = "idle"
      BY <1>8, <2>1 DEF LinkInv, Reading
    <3>2. \/ reader' = "none"
          \/ reader = "lost" /\ reader' = "waiting" /\ ~session.closing
      BY <1>8, <2>1, <3>1 DEF Session!AfterClose, Session!Active
    <3>3. QED
      BY <1>1, <1>2, <1>3, <1>12, <2>1, <3>1, <3>2 DEF LinkInv, Reading, Resting, Retrying, InUse,
         Session!Serial, Opened
  <2>2. CASE release # "closing"
    BY <1>1, <1>2, <1>3, <1>8, <1>12, <2>2 DEF LinkInv, Reading, Resting, Retrying, InUse,
       Session!Serial, Opened
  <2>3. QED
    BY <2>1, <2>2
<1>14. Held'
  BY <1>1, <1>3, <1>8, <1>12 DEF LinkInv, Held, InUse, Session!Serial, Session!NoOrphanLink, Opened
<1>15. QED
  BY <1>6, <1>7, <1>10, <1>11, <1>13, <1>14 DEF LinkInv

LEMMA VersionFields ==
    ASSUME NEW s \in SessionRecord, NEW t, NEW x \in {s.status, "reconnecting"},
           t = [s EXCEPT !.version = s.version + 1, !.status = x]
    PROVE  /\ t \in SessionRecord /\ t.held = s.held /\ t.writer = s.writer /\ t.status = x
           /\ t.generation = s.generation /\ t.closing = s.closing
<1>1. s.version + 1 \in Nat /\ x \in {"disconnected", "connecting", "connected", "reconnecting",
                            "disconnecting", "error"}
  BY SessionFields
<1>2. QED
  BY <1>1 DEF SessionRecord

LEMMA ReadRecoversStep ==
    ASSUME LinkInv, Session!ReadRecovers
    PROVE  LinkInv'
<1>1. /\ LinkTyped /\ session \in SessionRecord
      /\ session' = [session EXCEPT !.version = session.version + 1]
      /\ UNCHANGED <<kind, shell, link, epoch, call, closer, release, reader, sending>>
  BY DEF Session!ReadRecovers, LinkInv, LinkTyped
<1>2. /\ session' \in SessionRecord /\ session'.held = session.held
      /\ session'.status = session.status /\ session'.generation = session.generation
      /\ session'.closing = session.closing /\ session'.writer = session.writer
  BY <1>1 DEF SessionRecord
<1>3. Generations' /\ CallsCurrent'
  BY <1>1, <1>2, CallsKept
<1>4. LinkTyped' /\ Closings' /\ SerialOnly' /\ ShellLive' /\ Session!ConnectedIsCurrent'
  BY <1>1, <1>2 DEF LinkInv, LinkTyped, Closings, SerialOnly, ShellLive, Session!Serial,
          Session!ConnectedIsCurrent, Session!Stale, InUse, Resting
<1>5. Reading' /\ Held'
  BY <1>1, <1>2 DEF LinkInv, Reading, Held, Resting, Retrying, InUse, Opened,
          Session!Serial, Session!NoOrphanLink
<1>6. QED
  BY <1>3, <1>4, <1>5 DEF LinkInv

LEMMA ReadFailsStep ==
    ASSUME LinkInv, Session!ReadFails
    PROVE  LinkInv'
<1>1. /\ LinkTyped /\ session \in SessionRecord /\ reader = "reading"
      /\ session' = [session EXCEPT !.version = session.version + 1, !.status = "reconnecting"]
      /\ release' = "draining" /\ reader' = "lost"
      /\ UNCHANGED <<kind, shell, link, epoch, call, closer, sending>>
  BY DEF Session!ReadFails, LinkInv, LinkTyped
<1>2. /\ session' \in SessionRecord /\ session'.held = session.held
      /\ session'.status = "reconnecting" /\ session'.generation = session.generation
      /\ session'.closing = session.closing
  BY <1>1, VersionFields
<1>3. session.status = "connected" /\ release = "idle" /\ ~session.closing /\ Session!Serial
      /\ ~closer /\ Opened
  BY <1>1 DEF LinkInv, Reading, Closings, SerialOnly, Resting
<1>4. Generations' /\ CallsCurrent'
  BY <1>1, <1>2, <1>3, CallsKept
<1>5. LinkTyped' /\ Closings' /\ SerialOnly' /\ ShellLive' /\ Session!ConnectedIsCurrent'
  <2>1. LinkTyped' /\ Closings' /\ SerialOnly' /\ ShellLive'
    BY <1>1, <1>2, <1>3 DEF LinkInv, LinkTyped, Closings, SerialOnly, ShellLive, Session!Serial,
          InUse, Resting
  <2>2. Session!ConnectedIsCurrent'
    BY <1>1, <1>2, <1>3 DEF LinkInv, Session!ConnectedIsCurrent, Session!Stale
  <2>3. QED
    BY <2>1, <2>2
<1>6. Reading' /\ Held'
  BY <1>1, <1>2, <1>3 DEF LinkInv, Reading, Held, Resting, Retrying, InUse, Opened,
          Session!Serial, Session!NoOrphanLink
<1>7. QED
  BY <1>4, <1>5, <1>6 DEF LinkInv

LEMMA RetryStep ==
    ASSUME LinkInv, Session!RetryOpen \/ Session!RetryRefused
    PROVE  LinkInv'
<1>1. /\ LinkTyped /\ session \in SessionRecord
      /\ reader \in {"waiting", "opening"} /\ ~Opened
      /\ UNCHANGED <<kind, session, shell, epoch, call, closer, release, sending>>
  BY DEF Session!RetryOpen, Session!RetryRefused, LinkInv, LinkTyped, Reading, Opened
<1>2. Session!Serial /\ session.status # "connected" /\ Retrying /\ release # "closing"
      /\ (session.closing \in BOOLEAN)
  BY <1>1, SessionFields DEF LinkInv, SerialOnly, Resting, Reading
<1>3. /\ link' \in LinkRecord
      /\ \/ reader' = "none" /\ link' = link /\ session.closing
         \/ reader' = "none" /\ link'.state = "closed" /\ session.closing
         \/ reader' = "waiting" /\ link'.state = "closed" /\ ~session.closing
         \/ /\ reader' = "opening" /\ link' = [state |-> "opening", owner |-> "reader"]
            /\ link'.state = "opening" /\ ~session.closing
  <2>1. CASE Session!RetryOpen /\ reader' = "none"
    BY <1>1, <2>1 DEF Session!RetryOpen, Session!Active, LinkTyped
  <2>2. CASE Session!RetryOpen /\ reader' # "none"
    BY <1>1, <2>2 DEF Session!RetryOpen, Session!Active, LinkRecord
  <2>3. CASE Session!RetryRefused
    BY <2>3 DEF Session!RetryRefused, Session!Active, LinkRecord
  <2>4. QED
    BY <2>1, <2>2, <2>3
<1>4. Generations' /\ CallsCurrent'
  BY <1>1, CallsKept
<1>5. LinkTyped' /\ Closings' /\ SerialOnly' /\ ShellLive' /\ Session!ConnectedIsCurrent'
  BY <1>1, <1>2, <1>3 DEF LinkInv, LinkTyped, Closings, SerialOnly, ShellLive, Session!Serial,
          Session!ConnectedIsCurrent, Session!Stale, InUse
<1>6. Reading' /\ Held'
  <2>1. ~Opened'
    BY <1>1, <1>3 DEF Opened
  <2>2. Held'
    BY <1>1, <2>1 DEF LinkInv, Held, InUse, Opened, Session!Serial, Session!NoOrphanLink
  <2>3. Retrying' /\ (Resting \/ closer \/ InUse)
    BY <1>1, <1>2 DEF Retrying, LinkInv, Reading
  <2>4. closer' \/ InUse'
    BY <1>1, <2>3 DEF Resting, InUse
  <2>5. Reading'
    BY <1>1, <1>2, <1>3, <2>1, <2>3, <2>4 DEF Reading, Session!Serial
  <2>6. QED
    BY <2>2, <2>5
<1>7. QED
  BY <1>4, <1>5, <1>6 DEF LinkInv

LEMMA RetryOpensStep ==
    ASSUME LinkInv, Session!RetryOpens
    PROVE  LinkInv'
<1>1. /\ LinkTyped /\ session \in SessionRecord /\ link \in LinkRecord
      /\ reader = "opening" /\ epoch' = epoch + 1 /\ epoch' \in Nat
      /\ UNCHANGED <<kind, shell, call, closer, release, sending>>
  BY DEF Session!RetryOpens, LinkInv, LinkTyped
<1>2. /\ Session!Serial /\ link.state = "opening" /\ ~Opened /\ ~sending /\ release # "closing"
      /\ session.closing \in BOOLEAN
  BY <1>1, SessionFields DEF LinkInv, SerialOnly, Resting, Reading, Opened, Held
<1>3. CASE session.closing
  <2>1. link' = [link EXCEPT !.state = "closing"] /\ reader' = "discarding" /\ UNCHANGED session
    BY <1>3 DEF Session!RetryOpens, Session!Active
  <2>2. link' \in LinkRecord /\ link'.state = "closing"
    BY <1>1, <2>1, StateFields
  <2>3. Generations' /\ CallsCurrent'
    BY <1>1, <2>1, CallsKept
  <2>4. LinkTyped' /\ Closings' /\ SerialOnly' /\ ShellLive' /\ Session!ConnectedIsCurrent'
    BY <1>1, <1>2, <2>1, <2>2 DEF LinkInv, LinkTyped, Closings, SerialOnly, ShellLive,
       Session!Serial,
          Session!ConnectedIsCurrent, Session!Stale, InUse
  <2>5. Reading' /\ Held'
    BY <1>1, <1>2, <1>3, <2>1, <2>2 DEF LinkInv, Reading, Held, Resting, Retrying, InUse, Opened,
          Session!Serial, Session!NoOrphanLink, Closings
  <2>6. QED
    BY <2>3, <2>4, <2>5 DEF LinkInv
<1>4. CASE ~session.closing
  <2>1. /\ link' = [link EXCEPT !.state = "open"] /\ reader' = "reading"
        /\ session' = [session EXCEPT !.status = "connected", !.writer = epoch']
    BY <1>1, <1>4 DEF Session!RetryOpens, Session!Active
  <2>2. /\ session' \in SessionRecord /\ session'.status = "connected" /\ session'.writer = epoch'
        /\ session'.generation = session.generation
        /\ session'.closing = session.closing /\ session'.held = session.held
    BY <1>1, <2>1 DEF SessionRecord
  <2>3. link' \in LinkRecord /\ link'.state = "open"
    BY <1>1, <2>1, StateFields
  <2>4. session.status = "reconnecting" /\ release = "idle" /\ session.held /\ ~closer
    BY <1>1, <1>4 DEF LinkInv, Reading, Retrying, Held, InUse, Closings
  <2>5. Generations' /\ CallsCurrent'
    BY <1>1, <2>2, <2>4, CallsKept
  <2>6. LinkTyped' /\ Closings' /\ SerialOnly' /\ ShellLive'
    BY <1>1, <1>2, <1>4, <2>1, <2>2, <2>3, <2>4 DEF LinkInv, LinkTyped, Closings, SerialOnly,
       ShellLive,
          Session!Serial, InUse
  <2>7. Session!ConnectedIsCurrent'
    BY <1>1, <2>2, <2>4 DEF LinkInv, Session!ConnectedIsCurrent, Session!Stale
  <2>8. Reading' /\ Held'
    BY <1>1, <1>2, <1>4, <2>1, <2>2, <2>3, <2>4 DEF LinkInv, Reading, Held, Resting, Retrying,
       InUse, Opened,
          Session!Serial, Session!NoOrphanLink
  <2>9. QED
    BY <2>5, <2>6, <2>7, <2>8 DEF LinkInv
<1>5. QED
  BY <1>3, <1>4

LEMMA LossStep ==
    ASSUME LinkInv, Session!DeviceLost \/ Session!ShellCloses
    PROVE  LinkInv'
<1>1. /\ LinkTyped /\ session \in SessionRecord /\ link.state = "open" /\ link \in LinkRecord
      /\ UNCHANGED <<kind, epoch, call, closer, release, reader, sending>>
  BY DEF Session!DeviceLost, Session!ShellCloses, LinkInv, LinkTyped
<1>2. link' \in LinkRecord /\ link'.state \in {"open", "lost"}
  <2>1. link' = link \/ link' = [link EXCEPT !.state = "lost"]
    BY DEF Session!DeviceLost, Session!ShellCloses
  <2>2. QED
    BY <1>1, <2>1, StateFields
<1>3. \/ /\ shell = "live" /\ shell' = "closed"
         /\ session' = [session EXCEPT !.status = "error"]
      \/ UNCHANGED <<session, shell>> /\ (Session!Serial \/ shell # "live")
  BY DEF Session!DeviceLost, Session!ShellCloses
<1>4. /\ Opened /\ Opened' /\ reader \notin {"opening", "discarding", "waiting"}
      /\ release # "closing"
  BY <1>1, <1>2 DEF LinkInv, Reading, Opened
<1>5. CASE shell = "live" /\ session' = [session EXCEPT !.status = "error"] /\ shell' = "closed"
  <2>1. /\ session' \in SessionRecord /\ session'.held = session.held
        /\ session'.status = "error" /\ session'.generation = session.generation
        /\ session'.closing = session.closing /\ session'.writer = session.writer
    BY <1>1, <1>5, StatusFields
  <2>2. session.status = "connected" /\ ~Session!Serial /\ Resting /\ ~closer
    BY <1>5 DEF LinkInv, ShellLive, SerialOnly, Closings
  <2>3. Generations' /\ CallsCurrent'
    BY <1>1, <2>1, <2>2, CallsKept
  <2>4. LinkTyped' /\ Closings' /\ SerialOnly' /\ ShellLive' /\ Session!ConnectedIsCurrent'
    BY <1>1, <1>2, <1>5, <2>1, <2>2 DEF LinkInv, LinkTyped, Closings, SerialOnly, ShellLive,
       Session!Serial,
          Session!ConnectedIsCurrent, InUse, Resting
  <2>5. Reading' /\ Held'
    BY <1>1, <1>4, <2>1, <2>2 DEF LinkInv, Reading, Held, Resting, Retrying, InUse, Opened,
          Session!Serial, Session!NoOrphanLink
  <2>6. QED
    BY <2>3, <2>4, <2>5 DEF LinkInv
<1>6. CASE UNCHANGED <<session, shell>> /\ (Session!Serial \/ shell # "live")
  <2>1. Generations' /\ CallsCurrent'
    BY <1>1, <1>6, CallsKept
  <2>2. LinkTyped' /\ Closings' /\ SerialOnly' /\ ShellLive' /\ Session!ConnectedIsCurrent'
    BY <1>1, <1>2, <1>6 DEF LinkInv, LinkTyped, Closings, SerialOnly, ShellLive, Session!Serial,
          Session!ConnectedIsCurrent, Session!Stale, InUse, Resting
  <2>3. Reading' /\ Held'
    BY <1>1, <1>4, <1>6 DEF LinkInv, Reading, Held, Resting, Retrying, InUse, Opened,
          Session!Serial, Session!NoOrphanLink
  <2>4. QED
    BY <2>1, <2>2, <2>3 DEF LinkInv
<1>7. QED
  BY <1>3, <1>5, <1>6

\* A write leaves the connection alone: it begins while the session is connected, or ends.
LEMMA WriteStep ==
    ASSUME LinkInv,
           UNCHANGED <<kind, session, shell, link, epoch, call, closer, release, reader>>,
           sending' \in BOOLEAN, sending' => sending \/ session.status = "connected"
    PROVE  LinkInv'
<1>1. Generations' /\ CallsCurrent'
  BY CallsKept DEF LinkInv, LinkTyped
<1>2. LinkTyped' /\ Closings' /\ SerialOnly' /\ ShellLive' /\ Session!ConnectedIsCurrent'
      /\ Reading'
  BY DEF LinkInv, LinkTyped, Closings, SerialOnly, ShellLive, Session!Serial, Reading, Retrying,
         Opened, Session!ConnectedIsCurrent, Session!Stale, InUse, Resting
<1>3. Held'
  BY DEF LinkInv, Held, Reading, InUse, Opened, Session!Serial, Session!NoOrphanLink
<1>4. QED
  BY <1>1, <1>2, <1>3 DEF LinkInv

LEMMA LinkInit ==
    ASSUME Session!SessionAssumption, Session!Init
    PROVE  LinkInv
<1>1. LinkTyped
  BY DEF Session!Init, Session!SessionAssumption, LinkTyped, SessionRecord, LinkRecord, CallRecord
<1>2. \A a \in Call : call[a].pc = "free" /\ call[a].generation = 0
  BY DEF Session!Init
<1>3. session.generation = 0 /\ session.status = "disconnected" /\ ~session.closing
      /\ link.state = "closed"
  BY DEF Session!Init
<1>4. Generations /\ CallsCurrent
  BY <1>2, <1>3 DEF Generations, CallsCurrent, Waiting
<1>5. Closings /\ SerialOnly /\ Reading /\ Held /\ ShellLive /\ Session!ConnectedIsCurrent
  BY <1>2, <1>3 DEF Session!Init, Closings, SerialOnly, Reading, Held, ShellLive,
     Session!ConnectedIsCurrent,
          Resting, InUse, Opened, Session!NoOrphanLink
<1>6. QED
  BY <1>1, <1>4, <1>5 DEF LinkInv

LEMMA LinkStep ==
    ASSUME Session!SessionAssumption, LinkInv, [Session!Next]_sessionVars
    PROVE  LinkInv'
<1>1. CASE Session!ConnectNext
  BY <1>1, ConnectStep, ChoosePortStep, PortOpensStep, ChooseAdbStep, ShellReadyStep, SomeoneFails
     DEF Session!ConnectNext
<1>2. CASE Session!Disconnect \/ Session!FinishDisconnect
  BY <1>2, DisconnectStep, FinishStep
<1>3. CASE Session!LinkNext
  BY <1>3, ReadRecoversStep, ReadFailsStep, LossStep, LinkClosesStep, ClosePortStep, RetryStep,
     RetryOpensStep DEF Session!LinkNext
<1>4. CASE Session!WriteNext \/ UNCHANGED sessionVars
  <2>1. UNCHANGED <<kind, session, shell, link, epoch, call, closer, release, reader>>
    BY <1>4 DEF Session!WriteNext, sessionVars, Session!Type, Session!Interrupt, Session!Transmit,
            Session!WriteSettles, Session!OpenPreview, Session!SendPaste, Session!ClosePreview,
            Session!PasteDelayEnds
  <2>2. \/ sending' \in {sending, FALSE}
        \/ sending' = TRUE /\ session.status = "connected"
    BY <1>4 DEF Session!WriteNext, sessionVars, Session!Type, Session!Interrupt, Session!Transmit,
            Session!WriteSettles, Session!OpenPreview, Session!SendPaste, Session!ClosePreview,
            Session!PasteDelayEnds, Session!Settle, Session!SameConnection, Session!Connected
  <2>3. sending \in BOOLEAN
    BY DEF LinkInv, LinkTyped
  <2>4. sending' \in BOOLEAN
    BY <2>2, <2>3
  <2>5. sending' => sending \/ session.status = "connected"
    BY <2>2, <2>3
  <2>6. QED
    BY <2>1, <2>4, <2>5, WriteStep
<1>5. QED
  BY <1>1, <1>2, <1>3, <1>4 DEF Session!Next


-----------------------------------------------------------------------------
(* What a step of the connection leaves to the writes *)

\* The transport takes what is written to it.
Live == link.state = "open" /\ shell # "closed"

\* A step beside the writes: what was queued stays, nothing queued becomes deliverable by
\* another connection, and a paste that is not cut short keeps its connection.
Aside ==
    /\ UNCHANGED <<kind, queue, sending, wire, preview>>
    /\ session'.generation \in Nat /\ session.generation <= session'.generation
    /\ session'.generation = session.generation =>
           /\ session'.status = "connecting" => session.status = "connecting"
           /\ ~Session!Serial /\ session'.status = "connected" =>
                  \/ session.status = "connecting"
                  \/ session.status = "connected" /\ epoch' = epoch
    /\ \/ paste' = Session!Aborted(paste)
       \/ /\ paste' = paste
          /\ Session!Connected => Session!Token' = Session!Token /\ Session!Connected'
             /\ epoch' = epoch
    /\ sending /\ Live' => Live /\ epoch' = epoch

LEMMA StartAside ==
    ASSUME LinkInv, NEW s \in SessionRecord, NEW l \in LinkRecord,
           s.generation = session.generation,
           Session!StartDisconnect(s, l), l = link \/ l.state = "closed",
           UNCHANGED <<kind, queue, sending, wire, preview, epoch>>
    PROVE  Aside
<1>1. session'.generation = session.generation + 1 /\ session.generation \in Nat
  BY StartFields, SessionFields DEF LinkInv, LinkTyped
<1>2. paste' = Session!Aborted(paste)
  BY DEF Session!StartDisconnect
<1>3. Live' => Live
  <2>1. CASE Session!Serial
    BY <2>1 DEF Session!StartDisconnect, Live
  <2>2. CASE ~Session!Serial
    <3>1. link' = [l EXCEPT !.state = IF s.held /\ l.state # "closed" THEN "closing" ELSE l.state]
          /\ shell' = (IF shell = "live" THEN "closed" ELSE shell)
      BY <2>2 DEF Session!StartDisconnect
    <3>2. link'.state = (IF s.held /\ l.state # "closed" THEN "closing" ELSE l.state)
      BY <3>1 DEF LinkRecord
    <3>3. QED
      BY <3>1, <3>2 DEF Live
  <2>3. QED
    BY <2>1, <2>2
<1>4. QED
  BY <1>1, <1>2, <1>3 DEF Aside

LEMMA FailsAside ==
    ASSUME LinkInv, NEW a \in Call, NEW s \in SessionRecord, NEW l \in LinkRecord,
           s.generation = session.generation, Session!Fails(a, s, l),
           l = link \/ l.state = "closed",
           UNCHANGED <<kind, queue, sending, wire, preview, epoch>>
    PROVE  Aside
<1>1. CASE Session!Stale(a)
  BY <1>1, SessionFields DEF Session!Fails, Aside, LinkInv, LinkTyped, Session!Token,
     Session!Connected, Live
<1>2. CASE ~Session!Stale(a)
  BY <1>2, StartAside DEF Session!Fails
<1>3. QED
  BY <1>1, <1>2

LEMMA ConnectAside ==
    ASSUME LinkInv, Session!SessionAssumption, NEW a \in Call,
           \/ Session!Connect(a) \/ Session!ChooserFails(a) \/ Session!PortRefuses(a)
           \/ Session!HandshakeFails(a)
    PROVE  Aside
<1>1. session \in SessionRecord /\ link \in LinkRecord /\ session.generation \in Nat
  BY SessionFields DEF LinkInv, LinkTyped
<1>2. CASE Session!Connect(a) /\ session.held
  BY <1>1, <1>2, StartAside DEF Session!Connect, Session!bounds
<1>3. CASE Session!Connect(a) /\ ~session.held
  <2>1. session' = Session!Begun(session) /\ paste' = Session!Aborted(paste)
        /\ UNCHANGED <<kind, queue, sending, wire, preview, epoch, link, shell>>
    BY <1>3 DEF Session!Connect
  <2>2. session'.generation = session.generation + 1
    BY <1>1, <2>1, BegunFields
  <2>3. QED
    BY <1>1, <2>1, <2>2 DEF Aside, Live
<1>4. CASE Session!ChooserFails(a) \/ Session!HandshakeFails(a)
  BY <1>1, <1>4, FailsAside DEF Session!ChooserFails, Session!HandshakeFails
<1>5. CASE Session!PortRefuses(a)
  <2> DEFINE l == [state |-> "closed", owner |-> None]
  <2>1. l \in LinkRecord /\ l.state = "closed"
    BY DEF LinkRecord
  <2>2. Session!Fails(a, session, l) /\ UNCHANGED <<kind, queue, sending, wire, preview, epoch>>
    BY <1>5 DEF Session!PortRefuses
  <2> HIDE DEF l
  <2>3. QED
    BY <1>1, <2>1, <2>2, FailsAside
<1>6. QED
  BY <1>2, <1>3, <1>4, <1>5

\* The session is not connected while its call goes on, nor is anything sent.
LEMMA OpeningAside ==
    ASSUME LinkInv, Session!SessionAssumption, NEW a \in Call,
           \/ Session!ChoosePort(a) \/ Session!PortOpens(a) \/ Session!ChooseAdb(a)
           \/ Session!ShellReady(a)
    PROVE  Aside
<1>1. session \in SessionRecord /\ link \in LinkRecord /\ session.generation \in Nat /\ LinkTyped
  BY SessionFields DEF LinkInv, LinkTyped
<1>2. CASE Session!ChoosePort(a)
  <2> DEFINE t == [session EXCEPT !.held = TRUE]
  <2>1. t \in SessionRecord /\ t.generation = session.generation /\ t.status = session.status
        /\ t.version = session.version
    BY <1>1, HeldFields
  <2> HIDE DEF t
  <2>2. CASE Session!Stale(a) \/ link.state # "closed"
    <3>1. Session!Fails(a, t, link) /\ UNCHANGED <<kind, queue, sending, wire, preview, epoch>>
      BY <1>2, <2>2 DEF Session!ChoosePort, t
    <3>2. QED
      BY <1>1, <2>1, <3>1, FailsAside
  <2>3. CASE ~(Session!Stale(a) \/ link.state # "closed")
    <3>1. /\ session' = t /\ link' = [state |-> "opening", owner |-> a]
          /\ UNCHANGED <<kind, queue, sending, wire, preview, epoch, paste, shell>>
      BY <1>2, <2>3 DEF Session!ChoosePort, t
    <3>2. session.status = "connecting"
      BY <1>2, <2>3 DEF Session!ChoosePort, LinkInv, CallsCurrent, Waiting
    <3>3. QED
      BY <1>1, <2>1, <3>1, <3>2 DEF Aside, Session!Token, Session!Connected, Live
  <2>4. QED
    BY <2>2, <2>3
<1>3. CASE Session!PortOpens(a)
  <2>1. /\ link.state = "opening" /\ Session!Serial /\ call[a].pc = "opening"
           /\ link.owner = a /\ a # "reader"
        /\ UNCHANGED <<kind, queue, sending, wire, preview, paste, shell>>
    BY <1>3 DEF Session!PortOpens, Session!SessionAssumption
  <2>2. ~sending /\ ~Session!Connected
    BY <2>1 DEF LinkInv, Held, Reading, Opened, Session!Connected
  <2>3. \/ session' = session
        \/ session'.generation = session.generation /\ session'.status = "connected"
    BY <1>1, <1>3 DEF Session!PortOpens, SessionRecord
  <2>4. QED
    BY <1>1, <2>1, <2>2, <2>3 DEF Aside
<1>4. CASE Session!ChooseAdb(a)
  <2>1. /\ link.state = "closed" /\ ~Session!Serial /\ call[a].pc = "choosing"
        /\ UNCHANGED <<kind, queue, sending, wire, preview, paste, shell>>
    BY <1>4 DEF Session!ChooseAdb, Session!Serial
  <2>2. ~Session!Connected
    BY <2>1 DEF LinkInv, ShellLive, InUse, Session!Connected
  <2>3. CASE Session!Stale(a)
    <3>1. UNCHANGED session /\ link'.state = "closing"
      BY <1>4, <2>3 DEF Session!ChooseAdb
    <3>2. QED
      BY <1>1, <2>1, <2>2, <3>1 DEF Aside, Live, Session!Connected
  <2>4. CASE ~Session!Stale(a)
    <3>1. session' = [session EXCEPT !.held = TRUE]
      BY <1>4, <2>4 DEF Session!ChooseAdb
    <3>2. session'.generation = session.generation /\ session'.status = session.status
      BY <1>1, <3>1, HeldFields
    <3>3. ~sending
      BY <2>1, <2>4 DEF LinkInv, Held, CallsCurrent, Waiting
    <3>4. QED
      BY <1>1, <2>1, <2>2, <3>2, <3>3 DEF Aside, Session!Connected
  <2>5. QED
    BY <2>3, <2>4
<1>5. CASE Session!ShellReady(a)
  <2>1. UNCHANGED <<kind, queue, sending, wire, preview, paste, epoch, link>>
        /\ call[a].pc = "handshake"
    BY <1>5 DEF Session!ShellReady
  <2>2. CASE Session!Stale(a)
    <3>1. UNCHANGED <<session, shell>>
      BY <1>5, <2>2 DEF Session!ShellReady
    <3>2. QED
      BY <1>1, <2>1, <3>1 DEF Aside, Live, Session!Token, Session!Connected
  <2>3. CASE ~Session!Stale(a)
    <3>1. session.status = "connecting" /\ ~sending
      BY <2>1, <2>3 DEF LinkInv, CallsCurrent, Waiting, Held
    <3>2. session' = [session EXCEPT !.status = "connected"]
      BY <1>5, <2>3 DEF Session!ShellReady
    <3>3. session'.generation = session.generation /\ session'.status = "connected"
      BY <1>1, <3>2, StatusFields
    <3>4. QED
      BY <1>1, <2>1, <3>1, <3>3 DEF Aside, Session!Connected
  <2>4. QED
    BY <2>2, <2>3
<1>6. QED
  BY <1>2, <1>3, <1>4, <1>5

LEMMA FinishAside ==
    ASSUME LinkInv, Session!FinishDisconnect
    PROVE  Aside
<1> DEFINE s == [session EXCEPT !.held = FALSE, !.writer = 0, !.status = "disconnected"]
<1>1. /\ LinkTyped /\ session \in SessionRecord /\ closer /\ session.generation \in Nat
      /\ paste' = Session!Aborted(paste)
      /\ UNCHANGED <<kind, queue, sending, wire, preview, epoch, link>>
  BY SessionFields DEF Session!FinishDisconnect, LinkInv, LinkTyped
<1>2. ~sending
  <2>1. CASE Session!Serial
    BY <1>1, <2>1 DEF Session!FinishDisconnect, LinkInv, Held, Closings
  <2>2. CASE ~Session!Serial
    BY <2>2 DEF Session!FinishDisconnect, Session!Drained
  <2>3. QED
    BY <2>1, <2>2
<1>3. /\ s \in SessionRecord /\ s.status = "disconnected" /\ s.generation = session.generation
  BY <1>1, EndedFields
<1>4. \/ session' = s
      \/ session' = Session!Begun(s)
      \/ session' = [s EXCEPT !.status = "error"]
  BY DEF Session!FinishDisconnect
<1> HIDE DEF s
<1>5. \/ session'.generation = session.generation /\ session'.status \in {"disconnected", "error"}
      \/ session'.generation = session.generation + 1
  <2>1. ASSUME session' = Session!Begun(s)
        PROVE  session'.generation = session.generation + 1
    BY <1>3, <2>1, BegunFields
  <2>2. ASSUME session' = [s EXCEPT !.status = "error"]
        PROVE  session'.generation = session.generation /\ session'.status = "error"
    BY <1>3, <2>2, StatusFields
  <2>3. QED
    BY <1>3, <1>4, <2>1, <2>2
<1>6. QED
  BY <1>1, <1>2, <1>5 DEF Aside

LEMMA LinkAside ==
    ASSUME LinkInv, Session!LinkNext
    PROVE  Aside
<1>1. /\ LinkTyped /\ session \in SessionRecord /\ session.generation \in Nat /\ link \in LinkRecord
      /\ UNCHANGED <<kind, queue, sending, wire, preview>>
  BY SessionFields DEF LinkInv, LinkTyped, Session!LinkNext, Session!ReadRecovers,
     Session!ReadFails,
     Session!DeviceLost, Session!ShellCloses, Session!LinkCloses, Session!ClosePort,
     Session!RetryOpen, Session!RetryOpens, Session!RetryRefused
<1>2. CASE Session!ReadRecovers \/ Session!ReadFails
  <2>1. /\ paste' = Session!Aborted(paste) /\ epoch' = epoch /\ link' = link /\ shell' = shell
        /\ \/ session' = [session EXCEPT !.version = session.version + 1]
           \/ session' = [session EXCEPT !.version = session.version + 1, !.status = "reconnecting"]
    BY <1>2 DEF Session!ReadRecovers, Session!ReadFails
  <2>2. session'.generation = session.generation /\ session'.status \in {session.status,
        "reconnecting"}
    BY <1>1, <2>1 DEF SessionRecord
  <2>3. QED
    BY <1>1, <2>1, <2>2 DEF Aside, Live
<1>3. CASE Session!DeviceLost \/ Session!ShellCloses
  <2>1. /\ epoch' = epoch /\ link.state = "open" /\ shell' \in {shell, "closed"}
        /\ \/ paste' = Session!Aborted(paste) /\ session' = [session EXCEPT !.status = "error"]
           \/ UNCHANGED <<session, shell, paste>>
    BY <1>3 DEF Session!DeviceLost, Session!ShellCloses
  <2>2. session'.generation = session.generation /\ session'.status \in {session.status, "error"}
    BY <1>1, <2>1 DEF SessionRecord
  <2>3. QED
    BY <1>1, <2>1, <2>2 DEF Aside, Live, Session!Token, Session!Connected
<1>4. CASE Session!LinkCloses \/ Session!ClosePort
  <2>1. /\ epoch' = epoch /\ paste' = paste /\ shell' = shell
        /\ \/ UNCHANGED session
           \/ session' = [session EXCEPT !.writer = 0]
        /\ link'.state \in {"closed", "closing"} \/ link' = link
    BY <1>1, <1>4 DEF Session!LinkCloses, Session!ClosePort, LinkRecord
  <2>2. session'.generation = session.generation /\ session'.status = session.status
        /\ session'.version = session.version
    BY <1>1, <2>1, WriterFields
  <2>3. QED
    BY <1>1, <2>1, <2>2 DEF Aside, Live, Session!Token, Session!Connected
<1>5. CASE Session!RetryOpen \/ Session!RetryRefused
  <2>1. /\ UNCHANGED <<epoch, paste, session, shell>>
        /\ link' = link \/ link'.state \in {"opening", "closed"}
    BY <1>5 DEF Session!RetryOpen, Session!RetryRefused
  <2>2. QED
    BY <1>1, <1>5, <2>1 DEF Aside, Live, Session!Token, Session!Connected, Session!RetryOpen,
       Session!RetryRefused
<1>6. CASE Session!RetryOpens
  <2>1. reader = "opening" /\ UNCHANGED <<paste, shell>>
    BY <1>6 DEF Session!RetryOpens
  <2>2. Session!Serial /\ ~sending /\ ~Session!Connected
    BY <2>1 DEF LinkInv, Reading, Held, Opened, SerialOnly, Resting, Session!Connected
  <2>3. \/ UNCHANGED session
        \/ session' = [session EXCEPT !.status = "connected", !.writer = epoch + 1]
    BY <1>6 DEF Session!RetryOpens
  <2>4. session'.generation = session.generation /\ session'.status \in {session.status,
        "connected"}
    BY <1>1, <2>3 DEF SessionRecord
  <2>5. QED
    BY <1>1, <2>1, <2>2, <2>4 DEF Aside, Session!Serial
<1>7. QED
  BY <1>2, <1>3, <1>4, <1>5, <1>6 DEF Session!LinkNext

LEMMA StepAside ==
    ASSUME LinkInv, Session!SessionAssumption, [Session!Next]_sessionVars, ~Session!WriteNext
    PROVE  Aside
<1>1. CASE Session!ConnectNext
  BY <1>1, ConnectAside, OpeningAside DEF Session!ConnectNext
<1>2. CASE Session!Disconnect
  <2>1. Session!StartDisconnect(session, link) /\ UNCHANGED <<kind, queue, sending, wire,
        preview, epoch>>
    BY <1>2 DEF Session!Disconnect
  <2>2. session \in SessionRecord /\ link \in LinkRecord
    BY DEF LinkInv, LinkTyped
  <2>3. QED
    BY <2>1, <2>2, StartAside
<1>3. CASE Session!FinishDisconnect
  BY <1>3, FinishAside
<1>4. CASE Session!LinkNext
  BY <1>4, LinkAside
<1>5. CASE UNCHANGED sessionVars
  BY <1>5, SessionFields DEF sessionVars, LinkInv, LinkTyped, Aside, Live, Session!Token,
     Session!Connected
<1>6. QED
  BY <1>1, <1>2, <1>3, <1>4, <1>5 DEF Session!Next


-----------------------------------------------------------------------------
(* What is queued, and what reaches the device *)

What == {"command", "interrupt", "begin", "chunk", "end", "enter"}

ItemRecord == [what : What, n : Nat, generation : Nat, writer : Nat, asked : Nat]

SentRecord == [what : What, n : Nat, asked : Nat, at : Nat]

PasteRecord ==
    [pc : {"idle", "begin", "chunk", "delay", "end", "enter"}, token : Seq(Nat),
     next : 0 .. Chunks, aborted : BOOLEAN, bracketed : BOOLEAN, begun : BOOLEAN,
     complete : BOOLEAN, enter : BOOLEAN]

\* An item that would pass the checks of enqueue was asked for on the connection of now.
Asked(item) ==
    /\ item.generation <= session.generation
    /\ Session!Serial => item.writer = item.asked
    /\ item.generation = session.generation => session.status # "connecting"
    /\ ~Session!Serial /\ session.status = "connected" /\ item.generation = session.generation
           => item.asked = epoch

ItemsTyped ==
    /\ queue \in Seq(ItemRecord) /\ wire \in Seq(SentRecord)
    /\ paste \in PasteRecord /\ preview \in Seq(Nat)
    /\ sending => Len(queue) >= 1

ItemsInv ==
    /\ ItemsTyped
    /\ \A i \in 1 .. Len(queue) : Asked(queue[i])
    /\ \A i \in 1 .. Len(wire) : wire[i].asked = wire[i].at

LEMMA Joined ==
    ASSUME NEW S, NEW q \in Seq(S), NEW x \in S, NEW r, r = Append(q, x)
    PROVE  /\ r \in Seq(S) /\ Len(q) \in Nat /\ Len(r) = Len(q) + 1
           /\ \A i \in 1 .. Len(q) : r[i] = q[i]
           /\ r[Len(q) + 1] = x
  BY AppendProperties, LenProperties

LEMMA Left ==
    ASSUME NEW S, NEW q \in Seq(S), Len(q) >= 1 \/ q # <<>>, NEW r, r = Tail(q)
    PROVE  /\ r \in Seq(S) /\ Len(q) \in Nat /\ Len(q) >= 1 /\ Len(r) = Len(q) - 1
           /\ \A i \in 1 .. Len(r) : r[i] = q[i + 1] /\ i + 1 \in 1 .. Len(q)
           /\ Head(q) = q[1] /\ q[1] \in S
<1>1. q # <<>> /\ Len(q) \in Nat
  BY LenProperties, EmptySeq
<1>2. /\ r \in Seq(S) /\ Len(r) = Len(q) - 1 /\ Head(q) \in S
      /\ \A i \in 1 .. Len(q) - 1 : r[i] = q[i + 1]
  BY <1>1, HeadTailProperties
<1>3. Len(q) >= 1
  BY <1>1, EmptySeq, LenProperties
<1>4. Head(q) = q[1]
  BY <1>1
<1>5. QED
  BY <1>1, <1>2, <1>3, <1>4

LEMMA ItemFields ==
    ASSUME NEW x \in ItemRecord
    PROVE  x.what \in What /\ x.n \in Nat /\ x.generation \in Nat /\ x.writer \in Nat
           /\ x.asked \in Nat
  BY DEF ItemRecord

LEMMA ItemMade ==
    ASSUME LinkInv, Session!Connected, NEW w \in What, NEW n \in Nat, NEW x, x = Session!Item(w, n)
    PROVE  x \in ItemRecord /\ Asked(x) /\ x.what = w /\ x.n = n /\ x.asked = epoch
<1>1. /\ session.generation \in Nat /\ session.writer \in Nat /\ epoch \in Nat
      /\ Session!Serial => session.writer = epoch
  BY SessionFields DEF LinkInv, LinkTyped, Reading, Session!Connected
<1>2. x = [what |-> w, n |-> n, generation |-> session.generation,
           writer |-> session.writer, asked |-> epoch]
  BY DEF Session!Item
<1>3. QED
  BY <1>1, <1>2 DEF ItemRecord, Asked, Session!Connected

\* The double check of enqueue lets through only what was asked for on this connection.
LEMMA SameIsAsked ==
    ASSUME LinkInv, NEW x \in ItemRecord, Asked(x), Session!SameConnection(x)
    PROVE  x.asked = epoch
  BY ItemFields DEF LinkInv, Reading, Asked, Session!SameConnection, Session!Connected

LEMMA PasteFields ==
    ASSUME NEW p \in PasteRecord
    PROVE  /\ p.pc \in {"idle", "begin", "chunk", "delay", "end", "enter"}
           /\ p.token \in Seq(Nat) /\ p.next \in 0 .. Chunks /\ p.aborted \in BOOLEAN
           /\ p.bracketed \in BOOLEAN /\ p.begun \in BOOLEAN /\ p.complete \in BOOLEAN
           /\ p.enter \in BOOLEAN
  BY DEF PasteRecord

LEMMA AbortedFields ==
    ASSUME NEW p \in PasteRecord, NEW t, t = Session!Aborted(p)
    PROVE  /\ t \in PasteRecord /\ t.aborted = TRUE /\ t.pc = p.pc /\ t.token = p.token
           /\ t.next = p.next /\ t.begun = p.begun /\ t.complete = p.complete
  BY DEF Session!Aborted, PasteRecord

LEMMA NoPasteFields ==
    ASSUME Session!SessionAssumption
    PROVE  /\ Session!NoPaste \in PasteRecord /\ Session!NoPaste.pc = "idle"
           /\ Session!NoPaste.aborted = FALSE
<1>1. <<>> \in Seq(Nat) /\ 0 \in 0 .. Chunks
  BY EmptySeq DEF Session!SessionAssumption
<1>2. QED
  BY <1>1 DEF Session!NoPaste, PasteRecord

\* What a step beside the writes leaves of an item.
LEMMA AskedKept ==
    ASSUME LinkInv, Aside, NEW x \in ItemRecord, Asked(x)
    PROVE  Asked(x)'
<1>1. session.generation \in Nat /\ x.generation \in Nat
  BY SessionFields, ItemFields DEF LinkInv, LinkTyped
<1>2. CASE session'.generation = session.generation
  BY <1>1, <1>2 DEF Aside, Asked, Session!Serial
<1>3. CASE session'.generation # session.generation
  <2>1. x.generation < session'.generation
    BY <1>1, <1>3 DEF Aside, Asked
  <2>2. QED
    BY <1>1, <2>1 DEF Aside, Asked, Session!Serial
<1>4. QED
  BY <1>2, <1>3

LEMMA ItemsAside ==
    ASSUME LinkInv, ItemsInv, Aside
    PROVE  ItemsInv'
<1>1. UNCHANGED <<queue, wire, sending, preview>>
  BY DEF Aside
<1>2. paste' \in PasteRecord
  BY AbortedFields DEF Aside, ItemsInv, ItemsTyped
<1>3. ItemsTyped'
  BY <1>1, <1>2 DEF ItemsInv, ItemsTyped
<1>4. \A i \in 1 .. Len(queue) : queue[i] \in ItemRecord
  BY ElementOfSeq DEF ItemsInv, ItemsTyped
<1>5. ASSUME NEW i \in 1 .. Len(queue')
      PROVE  Asked(queue[i])'
  <2>1. PICK x \in ItemRecord : x = queue[i]
    BY <1>1, <1>4
  <2>2. Asked(x) /\ queue'[i] = x
    BY <1>1, <2>1 DEF ItemsInv
  <2>3. Asked(x)'
    BY <2>2, AskedKept
  <2>4. QED
    BY <2>2, <2>3 DEF Asked
<1>6. \A i \in 1 .. Len(wire') : wire'[i].asked = wire'[i].at
  BY <1>1 DEF ItemsInv
<1>7. QED
  BY <1>3, <1>5, <1>6 DEF ItemsInv

\* The queue goes on from q: it stays so, or an item of this moment joins it.
Rejoined(q) ==
    \/ queue' = q
    \/ /\ Session!Connected
       /\ \E w \in What, n \in Nat : queue' = Append(q, Session!Item(w, n))

AllAsked(q) == q \in Seq(ItemRecord) /\ \A i \in 1 .. Len(q) : Asked(q[i])

SessionKept == UNCHANGED <<kind, session, shell, link, epoch>>

LEMMA RejoinedAsked ==
    ASSUME LinkInv, NEW q, AllAsked(q), Rejoined(q), SessionKept
    PROVE  AllAsked(queue)' /\ Len(queue') \in Nat /\ Len(queue') >= Len(q)
<1>1. ASSUME NEW r, AllAsked(r)
      PROVE  AllAsked(r)'
  BY <1>1 DEF AllAsked, Asked, SessionKept, Session!Serial
<1>2. q \in Seq(ItemRecord) /\ Len(q) \in Nat
  BY LenProperties DEF AllAsked
<1>3. CASE queue' = q
  BY <1>1, <1>2, <1>3 DEF AllAsked
<1>4. ASSUME Session!Connected, NEW w \in What, NEW n \in Nat,
             queue' = Append(q, Session!Item(w, n))
      PROVE  AllAsked(queue)' /\ Len(queue') \in Nat /\ Len(queue') >= Len(q)
  <2> DEFINE x == Session!Item(w, n)
  <2>1. x \in ItemRecord /\ Asked(x)
    BY <1>4, ItemMade
  <2> HIDE DEF x
  <2>2. queue' = Append(q, x)
    BY <1>4 DEF x
  <2>3. /\ queue' \in Seq(ItemRecord) /\ Len(queue') = Len(q) + 1
        /\ \A i \in 1 .. Len(q) : queue'[i] = q[i]
        /\ queue'[Len(q) + 1] = x
    BY <1>2, <2>1, <2>2, Joined
  <2>4. \A i \in 1 .. Len(queue') : Asked(queue'[i])
    BY <1>2, <2>1, <2>3 DEF AllAsked
  <2>5. \A i \in 1 .. Len(queue') : Asked(queue[i])'
    BY <2>4 DEF Asked, SessionKept, Session!Serial
  <2>6. QED
    BY <1>2, <2>3, <2>5 DEF AllAsked
<1>5. QED
  BY <1>3, <1>4 DEF Rejoined

LEMMA LeftAsked ==
    ASSUME ItemsInv, Len(queue) >= 1 \/ queue # <<>>
    PROVE  AllAsked(Tail(queue)) /\ Head(queue) = queue[1] /\ queue[1] \in ItemRecord
           /\ Asked(queue[1])
<1> DEFINE r == Tail(queue)
<1>1. queue \in Seq(ItemRecord)
  BY DEF ItemsInv, ItemsTyped
<1>2. /\ r \in Seq(ItemRecord) /\ Len(queue) \in Nat /\ Len(queue) >= 1 /\ Len(r) = Len(queue) - 1
      /\ \A i \in 1 .. Len(r) : r[i] = queue[i + 1] /\ i + 1 \in 1 .. Len(queue)
      /\ Head(queue) = queue[1] /\ queue[1] \in ItemRecord
  BY <1>1, Left
<1> HIDE DEF r
<1>3. \A i \in 1 .. Len(r) : Asked(r[i])
  BY <1>2 DEF ItemsInv
<1>4. Asked(queue[1])
  BY <1>2 DEF ItemsInv
<1>5. QED
  BY <1>2, <1>3, <1>4 DEF AllAsked, r

LEMMA WritesKept ==
    ASSUME ItemsInv, LinkInv, SessionKept, AllAsked(queue)', UNCHANGED wire, paste' \in PasteRecord,
           preview' \in Seq(Nat), sending' => Len(queue') >= 1
    PROVE  ItemsInv'
  BY DEF ItemsInv, ItemsTyped, AllAsked

LEMMA TokenTyped ==
    ASSUME LinkInv
    PROVE  Session!Token \in Seq(Nat)
<1>1. session.generation \in Nat /\ session.version \in Nat
  BY SessionFields DEF LinkInv, LinkTyped
<1>2. QED
  BY <1>1 DEF Session!Token


LEMMA EndsRejoin ==
    ASSUME Session!SessionAssumption, paste \in PasteRecord, NEW q,
           NEW begun \in BOOLEAN, NEW complete \in BOOLEAN, Session!PasteEnds(q, begun, complete)
    PROVE  Rejoined(q) /\ paste' \in PasteRecord
<1>1. CASE begun /\ paste.token = Session!Token /\ Session!Connected
  <2>1. queue' = Append(q, Session!Item("end", 0)) /\ "end" \in What /\ 0 \in Nat
    BY <1>1 DEF Session!PasteEnds, Session!Enqueued, What
  <2>2. paste' = [paste EXCEPT !.pc = "end", !.complete = complete]
    BY <1>1 DEF Session!PasteEnds
  <2>3. QED
    BY <1>1, <2>1, <2>2 DEF Rejoined, PasteRecord
<1>2. CASE ~(begun /\ paste.token = Session!Token /\ Session!Connected)
  <2>1. queue' = q /\ paste' = Session!NoPaste
    BY <1>2 DEF Session!PasteEnds
  <2>2. QED
    BY <2>1, NoPasteFields DEF Rejoined
<1>3. QED
  BY <1>1, <1>2

LEMMA NextRejoin ==
    ASSUME Session!SessionAssumption, paste \in PasteRecord, NEW q,
           NEW begun \in BOOLEAN, Session!PasteNext(q, begun)
    PROVE  Rejoined(q) /\ paste' \in PasteRecord
<1>1. CASE Session!Valid /\ paste.next < Chunks
  <2>1. /\ queue' = Append(q, Session!Item("chunk", paste.next + 1))
        /\ paste' = [paste EXCEPT !.pc = "chunk", !.next = paste.next + 1, !.begun = begun]
    BY <1>1 DEF Session!PasteNext, Session!Enqueued
  <2>2. /\ "chunk" \in What /\ paste.next + 1 \in Nat /\ paste.next + 1 \in 0 .. Chunks
        /\ Session!Connected
    BY <1>1, PasteFields DEF What, Session!Valid, Session!SessionAssumption
  <2>3. paste' \in PasteRecord
    BY <2>1, <2>2 DEF PasteRecord
  <2>4. QED
    BY <2>1, <2>2, <2>3 DEF Rejoined
<1>2. CASE ~(Session!Valid /\ paste.next < Chunks)
  <2> DEFINE v == Session!Valid
  <2>1. Session!PasteEnds(q, begun, v)
    BY <1>2 DEF Session!PasteNext
  <2>2. v \in BOOLEAN
    BY DEF Session!Valid
  <2> HIDE DEF v
  <2>3. QED
    BY <2>1, <2>2, EndsRejoin
<1>3. QED
  BY <1>1, <1>2

LEMMA SettledRejoin ==
    ASSUME Session!SessionAssumption, paste \in PasteRecord, NEW q, NEW what \in What,
           NEW ok \in BOOLEAN, Session!PasteSettled(q, what, ok)
    PROVE  Rejoined(q) /\ paste' \in PasteRecord
<1>1. CASE what \in {"begin", "chunk"} /\ ok /\ Session!PasteNext(q, paste.begun \/ what = "begin")
  <2> DEFINE b == paste.begun \/ what = "begin"
  <2>1. b \in BOOLEAN
    BY PasteFields
  <2>2. Session!PasteNext(q, b)
    BY <1>1
  <2> HIDE DEF b
  <2>3. QED
    BY <2>1, <2>2, NextRejoin
<1>2. CASE what = "chunk" /\ paste' = [paste EXCEPT !.pc = "delay"] /\ queue' = q
  BY <1>2 DEF PasteRecord, Rejoined
<1>3. CASE Session!PasteEnds(q, paste.begun, FALSE)
  <2>1. paste.begun \in BOOLEAN
    BY PasteFields
  <2>2. QED
    BY <1>3, <2>1, EndsRejoin
<1>4. CASE /\ what = "end" /\ Session!EnterDue(ok)
           /\ paste' = [paste EXCEPT !.pc = "enter"]
           /\ queue' = Session!Enqueued(q, "enter", 0)
  BY <1>4 DEF PasteRecord, Rejoined, Session!EnterDue, Session!Enqueued, What
<1>5. CASE paste' = Session!NoPaste /\ queue' = q
  BY <1>5, NoPasteFields DEF Rejoined
<1>6. QED
  BY <1>1, <1>2, <1>3, <1>4, <1>5 DEF Session!PasteSettled

\* The head settles: what is left, and the next write of its sender, was asked for as it says.
LEMMA SettleItems ==
    ASSUME Session!SessionAssumption, LinkInv, ItemsInv, NEW ok \in BOOLEAN, Session!Settle(ok),
           queue # <<>> \/ sending, SessionKept, UNCHANGED <<wire, preview>>
    PROVE  ItemsInv'
<1> DEFINE q == Tail(queue)
<1>1. paste \in PasteRecord /\ queue \in Seq(ItemRecord) /\ preview' \in Seq(Nat)
  BY DEF ItemsInv, ItemsTyped
<1>2. Len(queue) >= 1 \/ queue # <<>>
  BY DEF ItemsInv, ItemsTyped
<1>3. /\ AllAsked(q) /\ Head(queue) = queue[1] /\ queue[1] \in ItemRecord
      /\ queue[1].what \in What
  BY <1>2, LeftAsked, ItemFields
<1>4. \/ queue' = q /\ paste' = paste
      \/ Session!PasteSettled(q, queue[1].what, ok)
  BY <1>3 DEF Session!Settle
<1> HIDE DEF q
<1>5. Rejoined(q) /\ paste' \in PasteRecord
  BY <1>1, <1>3, <1>4, SettledRejoin DEF Rejoined
<1>6. AllAsked(queue)'
  BY <1>3, <1>5, RejoinedAsked
<1>7. sending' = FALSE
  BY DEF Session!Settle
<1>8. QED
  BY <1>1, <1>5, <1>6, <1>7, WritesKept

LEMMA QueueAsked ==
    ASSUME ItemsInv
    PROVE  AllAsked(queue) /\ paste \in PasteRecord /\ preview \in Seq(Nat)
  BY DEF ItemsInv, ItemsTyped, AllAsked

LEMMA TypeItems ==
    ASSUME Session!SessionAssumption, LinkInv, ItemsInv, typed \in Nat,
           Session!Type \/ Session!Interrupt
    PROVE  ItemsInv'
<1>1. /\ SessionKept /\ UNCHANGED <<wire, preview, sending>> /\ Session!Connected
      /\ paste' \in {paste, Session!Aborted(paste)} /\ typed + 1 \in Nat
      /\ \E w \in {"command", "interrupt"} : queue' = Append(queue, Session!Item(w, typed + 1))
  BY DEF Session!Type, Session!Interrupt, SessionKept, Session!Enqueued
<1>2. Rejoined(queue)
  BY <1>1 DEF Rejoined, What
<1>3. AllAsked(queue) /\ paste' \in PasteRecord /\ preview' \in Seq(Nat)
  BY <1>1, QueueAsked, AbortedFields
<1>4. AllAsked(queue)' /\ Len(queue') \in Nat /\ Len(queue') >= Len(queue)
  BY <1>1, <1>2, <1>3, RejoinedAsked
<1>5. Len(queue) \in Nat /\ (sending => Len(queue) >= 1)
  BY LenProperties DEF ItemsInv, ItemsTyped
<1>6. QED
  BY <1>1, <1>3, <1>4, <1>5, WritesKept

\* The head reaches the device on the connection it was asked for.
LEMMA TransmitItems ==
    ASSUME Session!SessionAssumption, LinkInv, ItemsInv, Session!Transmit
    PROVE  ItemsInv'
<1>1. queue # <<>> /\ SessionKept /\ preview' = preview
  BY DEF Session!Transmit, SessionKept
<1>2. /\ Head(queue) = queue[1] /\ queue[1] \in ItemRecord /\ Asked(queue[1]) /\ AllAsked(queue)
      /\ paste \in PasteRecord
  BY <1>1, LeftAsked, QueueAsked
<1>3. Len(queue) \in Nat /\ Len(queue) >= 1 /\ queue \in Seq(ItemRecord) /\ wire \in Seq(SentRecord)
  BY <1>1, LenProperties, EmptySeq DEF ItemsInv, ItemsTyped
<1>4. CASE Session!SameConnection(queue[1])
  <2> DEFINE x == [what |-> queue[1].what, n |-> queue[1].n, asked |-> queue[1].asked, at |-> epoch]
  <2>1. sending' = TRUE /\ UNCHANGED <<queue, paste>>
    BY <1>2, <1>4 DEF Session!Transmit
  <2>2. wire' = wire \/ wire' = Append(wire, x)
    BY <1>2, <1>4 DEF Session!Transmit
  <2>3. x.asked = x.at
    BY <1>2, <1>4, SameIsAsked
  <2>4. x \in SentRecord
    BY <1>2, ItemFields DEF SentRecord, LinkInv, LinkTyped
  <2> HIDE DEF x
  <2>5. wire' \in Seq(SentRecord) /\ \A i \in 1 .. Len(wire') : wire'[i].asked = wire'[i].at
    <3>1. CASE wire' = wire
      BY <1>3, <3>1 DEF ItemsInv
    <3>2. CASE wire' = Append(wire, x)
      <4>1. /\ wire' \in Seq(SentRecord) /\ Len(wire') = Len(wire) + 1 /\ Len(wire) \in Nat
            /\ \A i \in 1 .. Len(wire) : wire'[i] = wire[i]
            /\ wire'[Len(wire) + 1] = x
        BY <1>3, <2>4, <3>2, Joined
      <4>2. QED
        BY <2>3, <4>1 DEF ItemsInv
    <3>3. QED
      BY <2>2, <3>1, <3>2
  <2>6. \A i \in 1 .. Len(queue') : Asked(queue[i])'
    BY <1>1, <1>2, <2>1 DEF AllAsked, Asked, SessionKept, Session!Serial
  <2>7. ItemsTyped'
    BY <1>1, <1>3, <2>1, <2>5 DEF ItemsInv, ItemsTyped
  <2>8. QED
    BY <2>5, <2>6, <2>7 DEF ItemsInv
<1>5. CASE ~Session!SameConnection(queue[1])
  <2>1. Session!Settle(FALSE) /\ wire' = wire
    BY <1>2, <1>5 DEF Session!Transmit
  <2>2. QED
    BY <1>1, <2>1, SettleItems
<1>6. QED
  BY <1>4, <1>5

LEMMA PasteItems ==
    ASSUME Session!SessionAssumption, LinkInv, ItemsInv,
           \/ Session!OpenPreview \/ \E b, e \in BOOLEAN : Session!SendPaste(b, e)
           \/ Session!ClosePreview \/ Session!PasteDelayEnds
    PROVE  ItemsInv'
<1>1. /\ SessionKept /\ UNCHANGED <<wire, sending>>
      /\ AllAsked(queue) /\ paste \in PasteRecord /\ preview \in Seq(Nat)
  BY QueueAsked DEF Session!OpenPreview, Session!SendPaste, Session!ClosePreview,
     Session!PasteDelayEnds, SessionKept
<1>2. Rejoined(queue) /\ paste' \in PasteRecord /\ preview' \in Seq(Nat)
  <2>1. CASE Session!OpenPreview
    BY <1>1, <2>1, TokenTyped DEF Session!OpenPreview, Rejoined
  <2>2. ASSUME NEW b \in BOOLEAN, NEW e \in BOOLEAN, Session!SendPaste(b, e)
        PROVE  Rejoined(queue) /\ paste' \in PasteRecord /\ preview' \in Seq(Nat)
    <3>1. preview' = <<>> /\ Session!Connected
      BY <2>2 DEF Session!SendPaste
    <3>2. Rejoined(queue)
      BY <2>2, <3>1 DEF Session!SendPaste, Rejoined, Session!Enqueued, What
    <3>3. Session!NoPaste \in PasteRecord /\ 1 \in 0 .. Chunks
      <4>1. Chunks \in Nat /\ Chunks # 0
        BY DEF Session!SessionAssumption
      <4>2. 1 \in 0 .. Chunks
        BY <4>1
      <4>3. QED
        BY <4>2, NoPasteFields
    <3>4. paste' \in PasteRecord
      <4> DEFINE p == [Session!NoPaste EXCEPT !.token = preview, !.bracketed = b, !.enter = e]
      <4>1. p \in PasteRecord
        BY <1>1, <3>3 DEF PasteRecord
      <4>2. \/ paste' = [p EXCEPT !.pc = "begin"]
            \/ paste' = [p EXCEPT !.pc = "chunk", !.next = 1]
        BY <2>2 DEF Session!SendPaste
      <4> HIDE DEF p
      <4>3. QED
        BY <3>3, <4>1, <4>2 DEF PasteRecord
    <3>5. QED
      BY <3>1, <3>2, <3>4, EmptySeq
  <2>3. CASE Session!ClosePreview
    BY <1>1, <2>3, AbortedFields, EmptySeq DEF Session!ClosePreview, Rejoined
  <2>4. CASE Session!PasteDelayEnds
    <3>1. Session!PasteNext(queue, paste.begun) /\ preview' = preview /\ paste.begun \in BOOLEAN
      BY <1>1, <2>4, PasteFields DEF Session!PasteDelayEnds
    <3>2. QED
      BY <1>1, <3>1, NextRejoin
  <2>5. QED
    BY <2>1, <2>2, <2>3, <2>4
<1>3. AllAsked(queue)' /\ Len(queue') \in Nat /\ Len(queue') >= Len(queue)
  BY <1>1, <1>2, RejoinedAsked
<1>4. Len(queue) \in Nat /\ (sending => Len(queue) >= 1)
  BY LenProperties DEF ItemsInv, ItemsTyped
<1>5. QED
  BY <1>1, <1>2, <1>3, <1>4, WritesKept

LEMMA ItemsStep ==
    ASSUME Session!SessionAssumption, LinkInv, ItemsInv, typed \in Nat, [Session!Next]_sessionVars
    PROVE  ItemsInv'
<1>1. CASE ~Session!WriteNext
  BY <1>1, StepAside, ItemsAside
<1>2. ASSUME NEW ok \in BOOLEAN, Session!WriteSettles(ok)
      PROVE  ItemsInv'
  <2>1. sending /\ Session!Settle(ok) /\ SessionKept /\ UNCHANGED <<wire, preview>>
    BY <1>2 DEF Session!WriteSettles, SessionKept
  <2>2. QED
    BY <2>1, SettleItems
<1>3. QED
  BY <1>1, <1>2, TypeItems, TransmitItems, PasteItems DEF Session!WriteNext

LEMMA TypedStep ==
    ASSUME typed \in Nat, [Session!Next]_sessionVars
    PROVE  typed' \in Nat
<1>1. CASE Session!WriteNext
  <2>1. typed' = typed + 1 \/ typed' = typed
    BY <1>1 DEF Session!WriteNext, Session!Type, Session!Interrupt, Session!Transmit,
       Session!WriteSettles, Session!OpenPreview, Session!SendPaste, Session!ClosePreview,
       Session!PasteDelayEnds, Session!bounds
  <2>2. QED
    BY <2>1
<1>2. CASE Session!LinkNext
  BY <1>2 DEF Session!LinkNext, Session!ReadRecovers, Session!ReadFails, Session!DeviceLost,
     Session!ShellCloses, Session!LinkCloses, Session!ClosePort, Session!RetryOpen,
     Session!RetryOpens, Session!RetryRefused, Session!bounds
<1>3. CASE Session!ConnectNext
  BY <1>3 DEF Session!ConnectNext, Session!Connect, Session!ChooserFails, Session!ChoosePort,
     Session!PortOpens, Session!PortRefuses, Session!ChooseAdb, Session!ShellReady,
     Session!HandshakeFails, Session!bounds
<1>4. QED
  BY <1>1, <1>2, <1>3 DEF Session!Next, Session!Disconnect, Session!FinishDisconnect,
     Session!bounds, sessionVars

LEMMA ItemsInit ==
    ASSUME Session!SessionAssumption, Session!Init
    PROVE  ItemsInv /\ typed \in Nat
<1>1. /\ queue = <<>> /\ wire = <<>> /\ preview = <<>> /\ sending = FALSE /\ typed = 0
      /\ paste = Session!NoPaste
  BY DEF Session!Init
<1>2. queue \in Seq(ItemRecord) /\ wire \in Seq(SentRecord) /\ preview \in Seq(Nat)
      /\ Len(queue) = 0 /\ Len(wire) = 0
  BY <1>1, EmptySeq
<1>3. ItemsTyped
  BY <1>1, <1>2, NoPasteFields DEF ItemsTyped
<1>4. QED
  BY <1>1, <1>2, <1>3 DEF ItemsInv


-----------------------------------------------------------------------------
(* The paste: one item of its own in the queue, and what is on the wire behind it *)

User == {"command", "interrupt"}

OnlyUser(q) == \A i \in 1 .. Len(q) : q[i].what \in User

\* At most one item of queue q is of a paste, which stands at pc.
OneItem(q, pc) ==
    /\ \A i \in 1 .. Len(q) : q[i].what \notin User => pc # "idle" /\ q[i].what = pc
    /\ \A i, j \in 1 .. Len(q) : q[i].what \notin User /\ q[j].what \notin User => i = j

Alone(q, what, n) == Len(q) = 1 /\ q[1].what = what /\ q[1].n = n

\* A begin and the first k chunks end at l on wire w, all on connection e.
Covers(w, k, l, e) ==
    /\ l \in k + 1 .. Len(w)
    /\ w[l - k].what = "begin"
    /\ \A j \in 1 .. k : w[l - k + j].what = "chunk" /\ w[l - k + j].n = j
    /\ \A j \in l - k .. l : w[j].at = e

\* Wire w ends with a whole paste that is closed.
Whole(w, e) ==
    /\ Len(w) >= 1 /\ Covers(w, Chunks, Len(w) - 1, e)
    /\ w[Len(w)].what = "end" /\ w[Len(w)].at = e

\* Item i of wire w, when it is an Enter, follows a whole paste.
EnterFollows(w, i) ==
    w[i].what = "enter" =>
        /\ i > Chunks + 2
        /\ \A k \in 1 .. Chunks : /\ w[i - 2 - Chunks + k].what = "chunk"
                                  /\ w[i - 2 - Chunks + k].n = k
        /\ w[i - 1].what = "end" /\ w[i - 2 - Chunks].what = "begin"
        /\ \A k \in (i - 2 - Chunks) .. i : w[k].at = w[i].at

Going == Session!Pasting /\ ~paste.aborted

OnWire ==
    sending /\ Live =>
        /\ Len(wire) >= 1
        /\ wire[Len(wire)].what = queue[1].what /\ wire[Len(wire)].at = epoch

Beginning ==
    Going /\ paste.pc = "begin" =>
        /\ ~paste.begun /\ paste.next = 0
        /\ Len(queue) >= 1 /\ queue[Len(queue)].what = "begin"

ChunkUnderWay ==
    Going /\ paste.pc = "chunk" /\ paste.begun =>
        /\ Alone(queue, "chunk", paste.next) /\ paste.next >= 1
        /\ ~sending => Covers(wire, paste.next - 1, Len(wire), epoch)
        /\ sending /\ Live => Covers(wire, paste.next, Len(wire), epoch)

Delaying ==
    Going /\ paste.pc = "delay" /\ paste.begun =>
        Len(queue) = 0 /\ Covers(wire, paste.next, Len(wire), epoch)

Ending ==
    Going /\ paste.pc = "end" /\ paste.complete =>
        /\ Alone(queue, "end", 0)
        /\ ~sending => Covers(wire, Chunks, Len(wire), epoch)
        /\ sending /\ Live => Whole(wire, epoch)

Entering ==
    paste.pc = "enter" =>
        /\ Len(queue) >= 1 /\ queue[1].what = "enter"
        /\ ~sending => Whole(wire, queue[1].asked)

Promises ==
    /\ Going => Session!Valid
    /\ OneItem(queue, paste.pc)
    /\ Beginning /\ ChunkUnderWay /\ Delaying /\ Ending /\ Entering

PasteInv ==
    /\ OnWire /\ Promises
    /\ \A i \in 1 .. Len(wire) : EnterFollows(wire, i)

LEMMA UserOne ==
    ASSUME NEW q, NEW pc, OnlyUser(q)
    PROVE  OneItem(q, pc)
  BY DEF OnlyUser, OneItem

LEMMA OneJoins ==
    ASSUME NEW q \in Seq(ItemRecord), NEW x \in ItemRecord, NEW pc, OnlyUser(q),
           x.what = pc, pc # "idle", NEW r, r = Append(q, x)
    PROVE  OneItem(r, pc)
<1>1. /\ Len(q) \in Nat /\ Len(r) = Len(q) + 1 /\ r[Len(q) + 1] = x
      /\ \A i \in 1 .. Len(q) : r[i] = q[i]
  BY Joined
<1>2. \A i \in 1 .. Len(q) : r[i].what \in User
  BY <1>1 DEF OnlyUser
<1>3. \A i \in 1 .. Len(r) : r[i].what \notin User => i = Len(q) + 1
  BY <1>1, <1>2
<1>4. QED
  BY <1>1, <1>3 DEF OneItem

LEMMA UserJoins ==
    ASSUME NEW q \in Seq(ItemRecord), NEW x \in ItemRecord, NEW pc, OneItem(q, pc),
           x.what \in User, NEW r, r = Append(q, x)
    PROVE  OneItem(r, pc)
<1>1. /\ Len(q) \in Nat /\ Len(r) = Len(q) + 1 /\ r[Len(q) + 1] = x
      /\ \A i \in 1 .. Len(q) : r[i] = q[i]
  BY Joined
<1>2. \A i \in 1 .. Len(r) : r[i].what \notin User => i \in 1 .. Len(q) /\ r[i] = q[i]
  BY <1>1
<1>3. QED
  BY <1>2 DEF OneItem

LEMMA IdleUser ==
    ASSUME NEW q \in Seq(ItemRecord), NEW pc \in {"idle", "delay"}, OneItem(q, pc)
    PROVE  OnlyUser(q)
<1>1. \A i \in 1 .. Len(q) : q[i].what \in What
  BY ElementOfSeq, ItemFields
<1>2. QED
  BY <1>1 DEF OneItem, OnlyUser, What

LEMMA OneLeaves ==
    ASSUME NEW q \in Seq(ItemRecord), Len(q) >= 1, NEW pc, OneItem(q, pc), NEW r, r = Tail(q)
    PROVE  /\ q[1].what \in User => OneItem(r, pc)
           /\ q[1].what \notin User => OnlyUser(r)
<1>1. /\ Len(q) \in Nat /\ Len(r) = Len(q) - 1
      /\ \A i \in 1 .. Len(r) : r[i] = q[i + 1] /\ i + 1 \in 1 .. Len(q)
  BY Left
<1>2. ASSUME q[1].what \notin User, NEW i \in 1 .. Len(r)
      PROVE  r[i].what \in User
  <2>1. i + 1 # 1 /\ i + 1 \in 1 .. Len(q) /\ 1 \in 1 .. Len(q) /\ r[i] = q[i + 1]
    BY <1>1
  <2>2. QED
    BY <1>2, <2>1 DEF OneItem
<1>3. ASSUME NEW i \in 1 .. Len(r), NEW j \in 1 .. Len(r), r[i].what \notin User,
             r[j].what \notin User
      PROVE  i = j
  <2>1. i + 1 = j + 1
    BY <1>1, <1>3 DEF OneItem
  <2>2. QED
    BY <2>1
<1>4. \A i \in 1 .. Len(r) : r[i].what \notin User => pc # "idle" /\ r[i].what = pc
  BY <1>1 DEF OneItem
<1>5. QED
  BY <1>2, <1>3, <1>4 DEF OneItem, OnlyUser

-----------------------------------------------------------------------------
(* The wire grows by one *)

LEMMA CoversChunk ==
    ASSUME NEW w \in Seq(SentRecord), NEW k \in Nat, NEW e, Covers(w, k, Len(w), e),
           NEW x \in SentRecord, x.what = "chunk", x.n = k + 1, x.at = e,
           NEW v, v = Append(w, x)
    PROVE  Covers(v, k + 1, Len(v), e)
<1>1. /\ Len(w) \in Nat /\ Len(v) = Len(w) + 1 /\ v[Len(w) + 1] = x
      /\ \A i \in 1 .. Len(w) : v[i] = w[i]
  BY Joined
<1>2. Len(w) >= k + 1
  BY <1>1 DEF Covers
<1> DEFINE b == Len(w) - k
<1>3. b \in 1 .. Len(w) /\ b = Len(v) - (k + 1) /\ Len(v) \in k + 1 + 1 .. Len(v)
  BY <1>1, <1>2
<1>4. w[b].what = "begin"
  BY DEF Covers
<1>5. \A j \in 1 .. k : w[b + j].what = "chunk" /\ w[b + j].n = j
  BY DEF Covers
<1>6. \A j \in b .. Len(w) : w[j].at = e
  BY DEF Covers
<1> HIDE DEF b
<1>7. v[b].what = "begin"
  BY <1>1, <1>3, <1>4
<1>8. ASSUME NEW j \in 1 .. k + 1
      PROVE  v[b + j].what = "chunk" /\ v[b + j].n = j
  <2>1. CASE j = k + 1
    <3>1. b + j = Len(w) + 1
      BY <1>1, <1>3, <2>1
    <3>2. QED
      BY <1>1, <2>1, <3>1
  <2>2. CASE j # k + 1
    <3>1. j \in 1 .. k /\ b + j \in 1 .. Len(w)
      BY <1>1, <1>3, <2>2
    <3>2. QED
      BY <1>1, <1>5, <3>1
  <2>3. QED
    BY <2>1, <2>2
<1>9. ASSUME NEW j \in b .. Len(v)
      PROVE  v[j].at = e
  <2>1. CASE j = Len(v)
    BY <1>1, <2>1
  <2>2. CASE j # Len(v)
    <3>1. j \in b .. Len(w) /\ j \in 1 .. Len(w)
      BY <1>1, <1>3, <2>2
    <3>2. QED
      BY <1>1, <1>6, <3>1
  <2>3. QED
    BY <2>1, <2>2
<1>10. QED
  BY <1>3, <1>7, <1>8, <1>9 DEF Covers

LEMMA CoversBegin ==
    ASSUME NEW w, Len(w) \in Nat, Len(w) >= 1, NEW e, w[Len(w)].what = "begin", w[Len(w)].at = e
    PROVE  Covers(w, 0, Len(w), e)
<1>1. Len(w) - 0 = Len(w) /\ Len(w) \in 0 + 1 .. Len(w)
  OBVIOUS
<1>2. \A j \in Len(w) .. Len(w) : j = Len(w)
  OBVIOUS
<1>3. QED
  BY <1>1, <1>2 DEF Covers

LEMMA WholeEnd ==
    ASSUME Session!SessionAssumption, NEW w \in Seq(SentRecord), NEW e,
           Covers(w, Chunks, Len(w), e), NEW x \in SentRecord, x.what = "end", x.at = e,
           NEW v, v = Append(w, x)
    PROVE  Whole(v, e)
<1>1. /\ Len(w) \in Nat /\ Len(v) = Len(w) + 1 /\ v[Len(w) + 1] = x
      /\ \A i \in 1 .. Len(w) : v[i] = w[i]
  BY Joined
<1>2. Chunks \in Nat /\ Len(w) \in Chunks + 1 .. Len(w) /\ Len(v) - 1 = Len(w)
  BY <1>1 DEF Covers, Session!SessionAssumption
<1>3. /\ \A j \in 1 .. Chunks : Len(w) - Chunks + j \in 1 .. Len(w)
      /\ \A j \in Len(w) - Chunks .. Len(w) : j \in 1 .. Len(w)
      /\ Len(w) - Chunks \in 1 .. Len(w)
  BY <1>1, <1>2
<1>4. Covers(v, Chunks, Len(w), e)
  BY <1>1, <1>2, <1>3 DEF Covers
<1>5. QED
  BY <1>1, <1>2, <1>4 DEF Whole

\* Every Enter on a wire that grew by x follows a whole paste, when x does.
LEMMA EnterSent ==
    ASSUME Session!SessionAssumption, NEW w \in Seq(SentRecord), NEW x \in SentRecord,
           \A i \in 1 .. Len(w) : EnterFollows(w, i), x.what = "enter" => Whole(w, x.at),
           NEW v, v = Append(w, x)
    PROVE  \A i \in 1 .. Len(v) : EnterFollows(v, i)
<1>1. /\ Len(w) \in Nat /\ Len(v) = Len(w) + 1 /\ v[Len(w) + 1] = x
      /\ \A i \in 1 .. Len(w) : v[i] = w[i]
  BY Joined
<1>2. Chunks \in Nat
  BY DEF Session!SessionAssumption
<1>3. ASSUME NEW i \in 1 .. Len(w)
      PROVE  EnterFollows(v, i)
  <2>1. EnterFollows(w, i) /\ v[i] = w[i]
    BY <1>1
  <2>2. ASSUME i > Chunks + 2
        PROVE  /\ \A k \in 1 .. Chunks : v[i - 2 - Chunks + k] = w[i - 2 - Chunks + k]
               /\ v[i - 1] = w[i - 1] /\ v[i - 2 - Chunks] = w[i - 2 - Chunks]
               /\ \A k \in (i - 2 - Chunks) .. i : v[k] = w[k]
    <3>1. /\ \A k \in 1 .. Chunks : i - 2 - Chunks + k \in 1 .. Len(w)
          /\ i - 1 \in 1 .. Len(w) /\ i - 2 - Chunks \in 1 .. Len(w)
          /\ \A k \in (i - 2 - Chunks) .. i : k \in 1 .. Len(w)
      BY <1>1, <1>2, <2>2
    <3>2. QED
      BY <1>1, <3>1
  <2>3. ASSUME w[i].what = "enter"
        PROVE  EnterFollows(v, i)
    <3>1. i > Chunks + 2 /\ w[i - 1].what = "end" /\ w[i - 2 - Chunks].what = "begin"
      BY <2>1, <2>3 DEF EnterFollows
    <3>2. \A k \in 1 .. Chunks : /\ w[i - 2 - Chunks + k].what = "chunk"
                                /\ w[i - 2 - Chunks + k].n = k
      BY <2>1, <2>3 DEF EnterFollows
    <3>3. \A k \in (i - 2 - Chunks) .. i : w[k].at = w[i].at
      BY <2>1, <2>3 DEF EnterFollows
    <3>4. \A k \in 1 .. Chunks : /\ v[i - 2 - Chunks + k].what = "chunk"
                                /\ v[i - 2 - Chunks + k].n = k
      BY <2>2, <3>1, <3>2
    <3>5. \A k \in (i - 2 - Chunks) .. i : v[k].at = v[i].at
      BY <2>1, <2>2, <3>1, <3>3
    <3>6. v[i - 1].what = "end" /\ v[i - 2 - Chunks].what = "begin"
      BY <2>2, <3>1
    <3>7. QED
      BY <3>1, <3>4, <3>5, <3>6 DEF EnterFollows
  <2>4. QED
    BY <2>1, <2>3 DEF EnterFollows
<1>4. EnterFollows(v, Len(v))
  <2> DEFINE i == Len(v)
             l == Len(w) - 1
  <2> SUFFICES ASSUME x.what = "enter"
               PROVE  EnterFollows(v, i)
    BY <1>1 DEF EnterFollows
  <2>1. Whole(w, x.at) /\ Covers(w, Chunks, l, x.at)
    BY DEF Whole
  <2>2. l >= Chunks + 1 /\ l <= Len(w)
    BY <1>1, <1>2, <2>1 DEF Covers
  <2>3. /\ i > Chunks + 2 /\ i - 2 - Chunks = l - Chunks /\ i - 1 = Len(w)
        /\ l - Chunks \in 1 .. Len(w) /\ Len(w) \in 1 .. Len(w)
        /\ \A k \in 1 .. Chunks : i - 2 - Chunks + k = l - Chunks + k
           /\ l - Chunks + k \in 1 .. Len(w)
        /\ \A k \in (i - 2 - Chunks) .. i :
               \/ k \in l - Chunks .. l /\ k \in 1 .. Len(w)
               \/ k = Len(w) \/ k = i
    BY <1>1, <1>2, <2>2
  <2>4. ASSUME NEW k \in 1 .. Chunks
        PROVE  v[i - 2 - Chunks + k].what = "chunk" /\ v[i - 2 - Chunks + k].n = k
    <3>1. w[l - Chunks + k].what = "chunk" /\ w[l - Chunks + k].n = k
      BY <2>1 DEF Covers
    <3>2. v[i - 2 - Chunks + k] = w[l - Chunks + k]
      BY <1>1, <2>3
    <3>3. QED
      BY <3>1, <3>2
  <2>5. v[i - 1].what = "end" /\ v[i - 2 - Chunks].what = "begin"
    BY <1>1, <2>1, <2>3 DEF Covers, Whole
  <2>6. v[i] = x
    BY <1>1
  <2>7. ASSUME NEW k \in (i - 2 - Chunks) .. i
        PROVE  v[k].at = v[i].at
    <3>1. CASE k \in l - Chunks .. l /\ k \in 1 .. Len(w)
      <4>1. w[k].at = x.at
        BY <2>1, <3>1 DEF Covers
      <4>2. v[k] = w[k]
        BY <1>1, <3>1
      <4>3. QED
        BY <2>6, <4>1, <4>2
    <3>2. CASE k = Len(w)
      BY <1>1, <2>1, <2>3, <2>6, <3>2 DEF Whole
    <3>3. CASE k = i
      BY <3>3
    <3>4. QED
      BY <2>3, <3>1, <3>2, <3>3
  <2> HIDE DEF i, l
  <2>8. QED
    BY <2>3, <2>4, <2>5, <2>7 DEF EnterFollows
<1>5. QED
  BY <1>1, <1>3, <1>4


-----------------------------------------------------------------------------
(* What a step does to a paste *)

LEMMA PasteAside ==
    ASSUME LinkInv, ItemsInv, PasteInv, Aside
    PROVE  PasteInv'
<1>1. UNCHANGED <<queue, sending, wire>> /\ paste \in PasteRecord
  BY DEF Aside, ItemsInv, ItemsTyped
<1>2. paste'.pc = paste.pc
  BY <1>1, AbortedFields DEF Aside
<1>3. ASSUME Going'
      PROVE  /\ paste' = paste /\ Going /\ Session!Valid /\ Session!Valid' /\ epoch' = epoch
             /\ sending /\ Live' => Live
  <2>1. paste' # Session!Aborted(paste)
    BY <1>1, <1>3, AbortedFields DEF Going
  <2>2. paste' = paste
    BY <2>1 DEF Aside
  <2>3. Going /\ Session!Valid
    BY <1>3, <2>2 DEF Going, Session!Pasting, PasteInv, Promises
  <2>4. QED
    BY <2>1, <2>2, <2>3 DEF Aside, Session!Valid
<1>4. OnWire'
  BY <1>1 DEF Aside, OnWire, PasteInv
<1>5. OneItem(queue', paste'.pc) /\ Entering'
  BY <1>1, <1>2 DEF PasteInv, Promises, Entering
<1>6. Beginning' /\ ChunkUnderWay' /\ Delaying' /\ Ending'
  BY <1>1, <1>3 DEF PasteInv, Promises, Beginning, ChunkUnderWay, Delaying, Ending
<1>7. QED
  BY <1>1, <1>3, <1>4, <1>5, <1>6 DEF PasteInv, Promises

LEMMA LiveKept ==
    ASSUME SessionKept
    PROVE  (Live' <=> Live) /\ epoch' = epoch /\ (Session!Connected' <=> Session!Connected)
           /\ Session!Token' = Session!Token
  BY DEF SessionKept, Live, Session!Connected, Session!Token

\* No paste goes on: nothing is promised.
LEMMA NoPromise ==
    ASSUME ~Going', OneItem(queue', paste'.pc), paste'.pc # "enter"
    PROVE  Promises'
  BY DEF Promises, Beginning, ChunkUnderWay, Delaying, Ending, Entering

\* The finally of sendPaste, with q in the queue: a bracket is closed after all chunks.
LEMMA EndsPromise ==
    ASSUME LinkInv, Session!SessionAssumption, SessionKept, UNCHANGED wire,
           paste \in PasteRecord, NEW q \in Seq(ItemRecord), OnlyUser(q),
           NEW begun \in BOOLEAN, NEW complete \in BOOLEAN,
           Session!PasteEnds(q, begun, complete), sending' => Len(q) >= 1,
           ~paste.aborted /\ begun /\ complete =>
               Len(q) = 0 /\ Covers(wire, Chunks, Len(wire), epoch)
    PROVE  Promises'
<1>1. CASE begun /\ paste.token = Session!Token /\ Session!Connected
  <2> DEFINE x == Session!Item("end", 0)
  <2>1. queue' = Append(q, x)
    BY <1>1 DEF Session!PasteEnds, Session!Enqueued
  <2>2. x \in ItemRecord /\ x.what = "end" /\ x.n = 0
    BY <1>1, ItemMade DEF What
  <2> HIDE DEF x
  <2>3. paste' = [paste EXCEPT !.pc = "end", !.complete = complete]
    BY <1>1 DEF Session!PasteEnds
  <2>4. /\ paste'.pc = "end" /\ paste'.complete = complete /\ paste'.aborted = paste.aborted
        /\ paste'.token = paste.token
    BY <2>3 DEF PasteRecord
  <2>5. OneItem(queue', "end")
    BY <2>1, <2>2, OneJoins
  <2>6. /\ Len(q) \in Nat /\ Len(queue') = Len(q) + 1 /\ queue'[Len(q) + 1] = x
    BY <2>1, <2>2, Joined
  <2>7. Ending'
    BY <1>1, <2>2, <2>4, <2>6, LiveKept DEF Ending, Going, Alone
  <2>8. Going' => Session!Valid'
    BY <1>1, <2>4, LiveKept DEF Going, Session!Valid
  <2>9. QED
    BY <2>4, <2>5, <2>7, <2>8 DEF Promises, Beginning, ChunkUnderWay, Delaying, Entering
<1>2. CASE ~(begun /\ paste.token = Session!Token /\ Session!Connected)
  <2>1. queue' = q /\ paste' = Session!NoPaste
    BY <1>2 DEF Session!PasteEnds
  <2>2. paste'.pc = "idle"
    BY <2>1, NoPasteFields
  <2>3. QED
    BY <2>1, <2>2, UserOne, NoPromise DEF Going, Session!Pasting
<1>3. QED
  BY <1>1, <1>2

\* The next chunk, with q in the queue.
LEMMA NextPromise ==
    ASSUME LinkInv, Session!SessionAssumption, SessionKept, UNCHANGED wire,
           paste \in PasteRecord, NEW q \in Seq(ItemRecord), OnlyUser(q),
           NEW begun \in BOOLEAN, Session!PasteNext(q, begun), sending' => Len(q) >= 1,
           ~paste.aborted /\ begun =>
               Len(q) = 0 /\ Covers(wire, paste.next, Len(wire), epoch)
    PROVE  Promises'
<1>1. CASE Session!Valid /\ paste.next < Chunks
  <2> DEFINE k == paste.next + 1
             x == Session!Item("chunk", k)
  <2>1. /\ queue' = Append(q, x)
        /\ paste' = [paste EXCEPT !.pc = "chunk", !.next = k, !.begun = begun]
    BY <1>1 DEF Session!PasteNext, Session!Enqueued
  <2>2. k \in Nat /\ k - 1 = paste.next /\ k >= 1 /\ Session!Connected
    BY <1>1, PasteFields DEF Session!Valid, Session!SessionAssumption
  <2> HIDE DEF k
  <2>3. x \in ItemRecord /\ x.what = "chunk" /\ x.n = k
    BY <2>2, ItemMade DEF What
  <2> HIDE DEF x
  <2>4. /\ paste'.pc = "chunk" /\ paste'.next = k /\ paste'.aborted = paste.aborted
        /\ paste'.token = paste.token /\ paste'.begun = begun
    BY <2>1 DEF PasteRecord
  <2>5. OneItem(queue', "chunk")
    BY <2>1, <2>3, OneJoins
  <2>6. /\ Len(q) \in Nat /\ Len(queue') = Len(q) + 1 /\ queue'[Len(q) + 1] = x
    BY <2>1, <2>3, Joined
  <2>7. ChunkUnderWay'
    BY <2>2, <2>3, <2>4, <2>6, LiveKept DEF ChunkUnderWay, Going, Alone
  <2>8. Going' => Session!Valid'
    BY <1>1, <2>4, LiveKept DEF Going, Session!Valid
  <2>9. QED
    BY <2>4, <2>5, <2>7, <2>8 DEF Promises, Beginning, Ending, Delaying, Entering
<1>2. CASE ~(Session!Valid /\ paste.next < Chunks)
  <2> DEFINE v == Session!Valid
  <2>1. Session!PasteEnds(q, begun, v)
    BY <1>2 DEF Session!PasteNext
  <2>2. v \in BOOLEAN
    BY DEF Session!Valid
  <2>3. v => paste.next = Chunks
    BY <1>2, PasteFields DEF Session!SessionAssumption
  <2> HIDE DEF v
  <2>4. ~paste.aborted /\ begun /\ v => Len(q) = 0 /\ Covers(wire, Chunks, Len(wire), epoch)
    BY <2>3
  <2>5. QED
    BY <2>1, <2>2, <2>4, EndsPromise
<1>3. QED
  BY <1>1, <1>2

LEMMA KeepsWire ==
    ASSUME PasteInv, Promises', UNCHANGED wire, OnWire'
    PROVE  PasteInv'
  BY DEF PasteInv

LEMMA TypePaste ==
    ASSUME Session!SessionAssumption, LinkInv, ItemsInv, PasteInv, typed \in Nat,
           Session!Type \/ Session!Interrupt
    PROVE  PasteInv'
<1>1. /\ SessionKept /\ UNCHANGED <<wire, sending>> /\ Session!Connected /\ typed + 1 \in Nat
      /\ \/ paste' = paste /\ ~Session!Pasting
         \/ paste' = Session!Aborted(paste)
  BY DEF Session!Type, Session!Interrupt, SessionKept
<1>2. PICK w \in User : queue' = Append(queue, Session!Item(w, typed + 1))
  BY DEF Session!Type, Session!Interrupt, Session!Enqueued, User
<1> DEFINE x == Session!Item(w, typed + 1)
<1>3. x \in ItemRecord /\ x.what \in User
  BY <1>1, ItemMade DEF What, User
<1>4. queue' = Append(queue, x)
  BY <1>2
<1> HIDE DEF x
<1>5. /\ queue \in Seq(ItemRecord) /\ paste \in PasteRecord /\ OneItem(queue, paste.pc)
      /\ sending => Len(queue) >= 1
  BY DEF ItemsInv, ItemsTyped, PasteInv, Promises
<1>6. paste'.pc = paste.pc /\ ~Going'
  BY <1>1, <1>5, AbortedFields DEF Going, Session!Pasting
<1>7. OneItem(queue', paste'.pc)
  BY <1>3, <1>4, <1>5, <1>6, UserJoins
<1>8. /\ Len(queue) \in Nat /\ Len(queue') = Len(queue) + 1
      /\ \A i \in 1 .. Len(queue) : queue'[i] = queue[i]
  BY <1>3, <1>4, <1>5, Joined
<1>9. Len(queue) >= 1 => queue'[1] = queue[1] /\ Len(queue') >= 1
  BY <1>8
<1>10. OnWire'
  BY <1>1, <1>5, <1>9, LiveKept DEF OnWire, PasteInv
<1>11. Entering'
  BY <1>1, <1>6, <1>9 DEF Entering, PasteInv, Promises
<1>12. Promises'
  BY <1>6, <1>7, <1>11 DEF Promises, Beginning, ChunkUnderWay, Delaying, Ending
<1>13. QED
  BY <1>1, <1>10, <1>12, KeepsWire

LEMMA PreviewPaste ==
    ASSUME LinkInv, ItemsInv, PasteInv, Session!OpenPreview \/ Session!ClosePreview
    PROVE  PasteInv'
<1>1. /\ SessionKept /\ UNCHANGED <<queue, wire, sending>>
      /\ paste' = paste \/ paste' = Session!Aborted(paste)
  BY DEF Session!OpenPreview, Session!ClosePreview, SessionKept
<1>2. paste'.pc = paste.pc /\ (paste' = paste \/ ~Going')
  BY <1>1, AbortedFields DEF ItemsInv, ItemsTyped, Going
<1>3. OnWire' /\ OneItem(queue', paste'.pc) /\ Entering'
  BY <1>1, <1>2, LiveKept DEF PasteInv, Promises, OnWire, Entering
<1>4. CASE ~Going'
  BY <1>1, <1>3, <1>4, KeepsWire DEF Promises, Beginning, ChunkUnderWay, Delaying, Ending
<1>5. CASE paste' = paste
  <2>1. Going' <=> Going
    BY <1>5 DEF Going, Session!Pasting
  <2>2. Going' => Session!Valid'
    BY <1>1, <1>5, <2>1, LiveKept DEF PasteInv, Promises, Session!Valid
  <2>3. Beginning' /\ ChunkUnderWay' /\ Delaying' /\ Ending'
    BY <1>1, <1>5, <2>1, LiveKept
       DEF PasteInv, Promises, Beginning, ChunkUnderWay, Delaying, Ending
  <2>4. QED
    BY <1>1, <1>3, <2>2, <2>3, KeepsWire DEF Promises
<1>6. QED
  BY <1>2, <1>4, <1>5

LEMMA SendPastePaste ==
    ASSUME Session!SessionAssumption, LinkInv, ItemsInv, PasteInv,
           NEW b \in BOOLEAN, NEW e \in BOOLEAN, Session!SendPaste(b, e)
    PROVE  PasteInv'
<1>1. /\ SessionKept /\ UNCHANGED <<wire, sending>> /\ Session!Connected /\ ~Session!Pasting
      /\ preview = Session!Token
  BY DEF Session!SendPaste, SessionKept
<1>2. /\ queue \in Seq(ItemRecord) /\ OnlyUser(queue) /\ (sending => Len(queue) >= 1)
  BY <1>1, IdleUser DEF ItemsInv, ItemsTyped, PasteInv, Promises, Session!Pasting
<1> DEFINE what == IF b THEN "begin" ELSE "chunk"
           n == IF b THEN 0 ELSE 1
           x == Session!Item(what, n)
<1>3. x \in ItemRecord /\ x.what = what
  <2>1. what \in What /\ n \in Nat
    BY DEF What
  <2> HIDE DEF what, n
  <2>2. QED
    BY <1>1, <2>1, ItemMade
<1>4. queue' = Append(queue, x)
  BY DEF Session!SendPaste, Session!Enqueued
<1>5. /\ paste'.pc = what /\ paste'.begun = FALSE /\ paste'.aborted = FALSE
      /\ paste'.token = preview /\ (b => paste'.next = 0)
  BY DEF Session!SendPaste, Session!NoPaste
<1> HIDE DEF x
<1>6. what \in {"begin", "chunk"}
  OBVIOUS
<1> HIDE DEF n
<1>7. /\ Len(queue) \in Nat /\ Len(queue') = Len(queue) + 1 /\ queue'[Len(queue) + 1] = x
      /\ \A i \in 1 .. Len(queue) : queue'[i] = queue[i]
  BY <1>2, <1>3, <1>4, Joined
<1>8. Beginning'
  BY <1>3, <1>5, <1>7 DEF Beginning
<1> HIDE DEF what
<1>9. OneItem(queue', paste'.pc)
  BY <1>2, <1>3, <1>4, <1>5, <1>6, OneJoins
<1>10. OnWire'
  <2>1. Len(queue) >= 1 => queue'[1] = queue[1]
    BY <1>7
  <2>2. QED
    BY <1>1, <1>2, <2>1, LiveKept DEF OnWire, PasteInv
<1>11. Session!Valid'
  BY <1>1, <1>5, LiveKept DEF Session!Valid
<1>12. Promises'
  BY <1>5, <1>6, <1>8, <1>9, <1>11 DEF Promises, ChunkUnderWay, Delaying, Ending, Entering
<1>13. QED
  BY <1>1, <1>10, <1>12, KeepsWire

LEMMA DelayEndsPaste ==
    ASSUME Session!SessionAssumption, LinkInv, ItemsInv, PasteInv, Session!PasteDelayEnds
    PROVE  PasteInv'
<1>1. /\ SessionKept /\ UNCHANGED <<wire, sending>> /\ paste.pc = "delay"
      /\ Session!PasteNext(queue, paste.begun)
  BY DEF Session!PasteDelayEnds, SessionKept
<1>2. /\ queue \in Seq(ItemRecord) /\ OnlyUser(queue) /\ (sending => Len(queue) >= 1)
      /\ paste \in PasteRecord /\ paste.begun \in BOOLEAN
  BY <1>1, IdleUser, PasteFields DEF ItemsInv, ItemsTyped, PasteInv, Promises
<1>3. ~paste.aborted /\ paste.begun =>
          Len(queue) = 0 /\ Covers(wire, paste.next, Len(wire), epoch)
  BY <1>1 DEF PasteInv, Promises, Delaying, Going, Session!Pasting
<1>4. Promises'
  <2> DEFINE g == paste.begun
  <2>1. g \in BOOLEAN /\ Session!PasteNext(queue, g)
        /\ (~paste.aborted /\ g => Len(queue) = 0 /\ Covers(wire, paste.next, Len(wire), epoch))
    BY <1>1, <1>2, <1>3
  <2> HIDE DEF g
  <2>2. QED
    BY <1>1, <1>2, <2>1, NextPromise
<1>5. Rejoined(queue)
  BY <1>1, <1>2, NextRejoin
<1>6. Len(queue) >= 1 => queue'[1] = queue[1]
  <2>1. ASSUME Session!Connected, NEW w \in What, NEW n \in Nat,
               queue' = Append(queue, Session!Item(w, n))
        PROVE  Len(queue) >= 1 => queue'[1] = queue[1]
    <3>1. Session!Item(w, n) \in ItemRecord
      BY <2>1, ItemMade
    <3>2. Len(queue) \in Nat /\ \A i \in 1 .. Len(queue) : queue'[i] = queue[i]
      BY <1>2, <2>1, <3>1, Joined
    <3>3. QED
      BY <3>2
  <2>2. QED
    BY <1>5, <2>1 DEF Rejoined
<1>7. OnWire'
  BY <1>1, <1>2, <1>6, LiveKept DEF OnWire, PasteInv
<1>8. QED
  BY <1>1, <1>4, <1>7, KeepsWire


\* The head reaches the device: what it continues stands on the wire already.
LEMMA TransmitPaste ==
    ASSUME Session!SessionAssumption, LinkInv, ItemsInv, PasteInv, SessionKept,
           ~sending, queue # <<>>, Session!SameConnection(queue[1]), sending' = TRUE,
           UNCHANGED <<queue, paste>>,
           wire' = IF Live THEN Append(wire, [what |-> queue[1].what, n |-> queue[1].n,
                                              asked |-> queue[1].asked, at |-> epoch])
                           ELSE wire
    PROVE  PasteInv'
<1> DEFINE x == [what |-> queue[1].what, n |-> queue[1].n, asked |-> queue[1].asked,
                 at |-> epoch]
<1>1. /\ queue \in Seq(ItemRecord) /\ wire \in Seq(SentRecord) /\ paste \in PasteRecord
      /\ queue[1] \in ItemRecord /\ Asked(queue[1]) /\ Len(queue) \in Nat /\ Len(queue) >= 1
  BY LeftAsked, LenProperties, EmptySeq DEF ItemsInv, ItemsTyped
<1>2. /\ x \in SentRecord /\ x.what = queue[1].what /\ x.n = queue[1].n /\ x.at = epoch
      /\ x.asked = queue[1].asked /\ queue[1].asked = epoch
  BY <1>1, ItemFields, SameIsAsked DEF SentRecord, LinkInv, LinkTyped
<1>3. wire' = IF Live THEN Append(wire, x) ELSE wire
  OBVIOUS
<1> HIDE DEF x
<1>4. Live => /\ Len(wire) \in Nat /\ Len(wire') = Len(wire) + 1 /\ wire'[Len(wire')] = x
  BY <1>1, <1>2, <1>3, Joined
<1>5. OnWire'
  BY <1>2, <1>4, LiveKept DEF OnWire
<1>6. \A i \in 1 .. Len(wire') : EnterFollows(wire', i)
  <2>1. x.what = "enter" => Whole(wire, x.at)
    <3>1. x.what = "enter" => paste.pc = "enter"
      <4>1. OneItem(queue, paste.pc) /\ 1 \in 1 .. Len(queue)
        BY <1>1 DEF PasteInv, Promises
      <4>2. queue[1].what = "enter" => queue[1].what \notin User
        BY DEF User
      <4>3. QED
        BY <1>2, <4>1, <4>2 DEF OneItem
    <3>2. QED
      BY <1>2, <3>1 DEF PasteInv, Promises, Entering
  <2>2. QED
    BY <1>1, <1>2, <1>3, <2>1, EnterSent DEF PasteInv
<1>7. (Going' <=> Going) /\ (Going => Session!Valid')
  BY LiveKept DEF Going, Session!Pasting, Session!Valid, PasteInv, Promises
<1>8. ChunkUnderWay'
  <2>1. ASSUME Going, paste.pc = "chunk", paste.begun
        PROVE  /\ Alone(queue, "chunk", paste.next) /\ paste.next >= 1
               /\ Live => Covers(wire', paste.next, Len(wire'), epoch)
    <3>1. /\ Alone(queue, "chunk", paste.next) /\ paste.next >= 1
          /\ Covers(wire, paste.next - 1, Len(wire), epoch)
      BY <2>1 DEF PasteInv, Promises, ChunkUnderWay
    <3> DEFINE k == paste.next - 1
    <3>2. k \in Nat /\ paste.next = k + 1 /\ Covers(wire, k, Len(wire), epoch)
      BY <1>1, <3>1, PasteFields DEF Session!SessionAssumption
    <3>3. x.what = "chunk" /\ x.n = k + 1
      BY <1>2, <3>1, <3>2 DEF Alone
    <3> HIDE DEF k
    <3>4. Live => Covers(wire', k + 1, Len(wire'), epoch)
      BY <1>1, <1>2, <1>3, <3>2, <3>3, CoversChunk
    <3>5. QED
      BY <3>1, <3>2, <3>4
  <2>2. QED
    BY <1>7, <2>1, LiveKept DEF ChunkUnderWay
<1>9. Ending'
  <2>1. ASSUME Going, paste.pc = "end", paste.complete
        PROVE  Alone(queue, "end", 0) /\ (Live => Whole(wire', epoch))
    <3>1. Alone(queue, "end", 0) /\ Covers(wire, Chunks, Len(wire), epoch)
      BY <2>1 DEF PasteInv, Promises, Ending
    <3>2. x.what = "end"
      BY <1>2, <3>1 DEF Alone
    <3>3. QED
      BY <1>1, <1>2, <1>3, <3>1, <3>2, WholeEnd
  <2>2. QED
    BY <1>7, <2>1, LiveKept DEF Ending
<1>10. Delaying'
  BY <1>1, <1>7 DEF Delaying, PasteInv, Promises
<1>11. Beginning' /\ Entering' /\ OneItem(queue', paste'.pc)
  BY <1>7 DEF Beginning, Entering, PasteInv, Promises
<1>12. QED
  BY <1>5, <1>6, <1>7, <1>8, <1>9, <1>10, <1>11 DEF PasteInv, Promises

\* A command or an interrupt at the head settles beside the paste.
LEMMA UserSettles ==
    ASSUME LinkInv, ItemsInv, PasteInv, SessionKept, Len(queue) >= 1,
           queue[1].what \in User, queue' = Tail(queue), paste' = paste, sending' = FALSE
    PROVE  Promises'
<1>1. queue \in Seq(ItemRecord) /\ OneItem(queue, paste.pc)
  BY DEF ItemsInv, ItemsTyped, PasteInv, Promises
<1>2. /\ Len(queue) \in Nat /\ Len(queue') = Len(queue) - 1
      /\ \A i \in 1 .. Len(queue') : queue'[i] = queue[i + 1] /\ i + 1 \in 1 .. Len(queue)
  BY <1>1, Left
<1>3. OneItem(queue', paste'.pc)
  BY <1>1, OneLeaves
<1>4. (Going' <=> Going) /\ (Going => Session!Valid')
  BY LiveKept DEF Going, Session!Pasting, Session!Valid, PasteInv, Promises
<1>5. Beginning'
  <2>1. ASSUME Going, paste.pc = "begin"
        PROVE  Len(queue') >= 1 /\ queue'[Len(queue')].what = "begin"
    <3>1. queue[Len(queue)].what = "begin"
      BY <2>1 DEF PasteInv, Promises, Beginning
    <3>2. Len(queue) # 1
      BY <3>1 DEF User
    <3>3. Len(queue') \in 1 .. Len(queue') /\ Len(queue') + 1 = Len(queue) /\ Len(queue') >= 1
      <4> DEFINE m == Len(queue)
                 k == Len(queue')
      <4>1. m \in Nat /\ k = m - 1 /\ m >= 1 /\ m # 1
        BY <1>2, <3>2
      <4> HIDE DEF m, k
      <4>2. k \in 1 .. k /\ k + 1 = m /\ k >= 1
        BY <4>1
      <4>3. QED
        BY <4>2 DEF m, k
    <3>4. queue'[Len(queue')] = queue[Len(queue)]
      BY <1>2, <3>3
    <3>5. QED
      BY <3>1, <3>3, <3>4
  <2>2. QED
    BY <1>4, <2>1 DEF Beginning, PasteInv, Promises
<1>6. ChunkUnderWay' /\ Delaying' /\ Ending' /\ Entering'
  BY <1>4 DEF ChunkUnderWay, Delaying, Ending, Entering, Alone, User, PasteInv, Promises
<1>7. QED
  BY <1>3, <1>4, <1>5, <1>6 DEF Promises

\* The write of the paste settles, and sendPaste goes on behind what is left.
LEMMA PasteGoesOn ==
    ASSUME Session!SessionAssumption, LinkInv, ItemsInv, PasteInv, SessionKept, UNCHANGED wire,
           Len(queue) >= 1, queue[1].what \notin User, NEW ok \in BOOLEAN,
           ok => sending /\ Live, NEW q, q = Tail(queue),
           Session!PasteSettled(q, queue[1].what, ok), sending' = FALSE
    PROVE  Promises'
<1>1. /\ queue \in Seq(ItemRecord) /\ paste \in PasteRecord /\ OneItem(queue, paste.pc)
      /\ wire \in Seq(SentRecord)
  BY DEF ItemsInv, ItemsTyped, PasteInv, Promises
<1>2. /\ q \in Seq(ItemRecord) /\ Len(queue) \in Nat /\ Len(q) = Len(queue) - 1
      /\ OnlyUser(q)
  BY <1>1, Left, OneLeaves
<1>3. queue[1].what = paste.pc /\ Session!Pasting
  BY <1>1 DEF OneItem, Session!Pasting
<1>4. paste.begun \in BOOLEAN /\ paste.next \in 0 .. Chunks
  BY <1>1, PasteFields
<1>5. ASSUME paste.pc = "chunk", ok, ~paste.aborted, paste.begun
      PROVE  Len(q) = 0 /\ Covers(wire, paste.next, Len(wire), epoch)
  BY <1>2, <1>3, <1>5 DEF PasteInv, Promises, ChunkUnderWay, Going, Alone
<1>6. ASSUME paste.pc = "begin", ok, ~paste.aborted
      PROVE  Len(q) = 0 /\ Covers(wire, paste.next, Len(wire), epoch)
  <2>1. queue[Len(queue)].what = "begin" /\ paste.next = 0
    BY <1>3, <1>6 DEF PasteInv, Promises, Beginning, Going
  <2>2. Len(queue) = 1
    BY <1>1, <1>2, <2>1 DEF OneItem, User
  <2>3. Len(wire) >= 1 /\ wire[Len(wire)].what = "begin" /\ wire[Len(wire)].at = epoch
    BY <1>3, <1>6 DEF PasteInv, OnWire
  <2>4. Len(wire) \in Nat
    BY <1>1, LenProperties
  <2>5. QED
    BY <1>2, <2>1, <2>2, <2>3, <2>4, CoversBegin
<1>7. CASE queue[1].what \in {"begin", "chunk"} /\ ok
           /\ Session!PasteNext(q, paste.begun \/ queue[1].what = "begin")
  <2> DEFINE g == paste.begun \/ queue[1].what = "begin"
  <2>1. /\ g \in BOOLEAN /\ Session!PasteNext(q, g)
        /\ ~paste.aborted /\ g => Len(q) = 0 /\ Covers(wire, paste.next, Len(wire), epoch)
    BY <1>3, <1>4, <1>5, <1>6, <1>7
  <2> HIDE DEF g
  <2>2. QED
    BY <1>1, <1>2, <2>1, NextPromise
<1>8. CASE /\ queue[1].what = "chunk" /\ ok /\ paste' = [paste EXCEPT !.pc = "delay"]
           /\ queue' = q
  <2>1. /\ paste'.pc = "delay" /\ paste'.next = paste.next /\ paste'.begun = paste.begun
        /\ paste'.aborted = paste.aborted /\ paste'.token = paste.token
    BY <1>1, <1>8 DEF PasteRecord
  <2>2. Going' => Going /\ Session!Valid'
    BY <1>3, <2>1, LiveKept DEF Going, Session!Valid, PasteInv, Promises
  <2>3. Delaying'
    BY <1>3, <1>5, <1>8, <2>1, LiveKept DEF Delaying, Going
  <2>4. OneItem(queue', paste'.pc)
    BY <1>2, <1>8, UserOne
  <2>5. QED
    BY <2>1, <2>2, <2>3, <2>4 DEF Promises, Beginning, ChunkUnderWay, Ending, Entering
<1>9. CASE Session!PasteEnds(q, paste.begun, FALSE)
  BY <1>1, <1>2, <1>4, <1>9, EndsPromise
<1>10. CASE /\ queue[1].what = "end" /\ Session!EnterDue(ok)
            /\ paste' = [paste EXCEPT !.pc = "enter"] /\ queue' = Session!Enqueued(q, "enter", 0)
  <2> DEFINE x == Session!Item("enter", 0)
  <2>1. queue' = Append(q, x) /\ Session!Connected
    BY <1>10 DEF Session!Enqueued, Session!EnterDue
  <2>2. x \in ItemRecord /\ x.what = "enter" /\ x.asked = epoch
    BY <2>1, ItemMade DEF What
  <2> HIDE DEF x
  <2>3. /\ paste'.pc = "enter" /\ paste'.aborted = paste.aborted /\ paste'.token = paste.token
    BY <1>1, <1>10 DEF PasteRecord
  <2>4. Len(queue) = 1 /\ Whole(wire, epoch)
    BY <1>3, <1>10 DEF Session!EnterDue, Going, Alone, PasteInv, Promises, Ending
  <2>5. Len(queue') = Len(q) + 1 /\ queue'[Len(q) + 1] = x
    BY <1>2, <2>1, <2>2, Joined
  <2>6. Len(queue') = 1 /\ queue'[1] = x
    BY <1>2, <2>4, <2>5
  <2>7. Entering'
    BY <2>2, <2>4, <2>6 DEF Entering
  <2>8. OneItem(queue', paste'.pc)
    BY <1>2, <2>1, <2>2, <2>3, OneJoins
  <2>9. Going' => Session!Valid'
    BY <1>3, <2>3, LiveKept DEF Going, Session!Valid, PasteInv, Promises
  <2>10. QED
    BY <2>3, <2>7, <2>8, <2>9 DEF Promises, Beginning, ChunkUnderWay, Delaying, Ending
<1>11. CASE paste' = Session!NoPaste /\ queue' = q
  <2>1. paste'.pc = "idle"
    BY <1>11, NoPasteFields
  <2>2. QED
    BY <1>2, <1>11, <2>1, UserOne, NoPromise DEF Going, Session!Pasting
<1>12. QED
  BY <1>7, <1>8, <1>9, <1>10, <1>11 DEF Session!PasteSettled

LEMMA SettlePaste ==
    ASSUME Session!SessionAssumption, LinkInv, ItemsInv, PasteInv, SessionKept, UNCHANGED wire,
           queue # <<>> \/ sending, NEW ok \in BOOLEAN, ok => sending /\ Live,
           Session!Settle(ok)
    PROVE  PasteInv'
<1>1. /\ Len(queue) >= 1 \/ queue # <<>>
  BY DEF ItemsInv, ItemsTyped
<1>2. Head(queue) = queue[1] /\ Len(queue) >= 1
  BY <1>1, LeftAsked, Left, EmptySeq, LenProperties DEF ItemsInv, ItemsTyped
<1>3. sending' = FALSE
  BY DEF Session!Settle
<1> DEFINE q == Tail(queue)
<1>4. CASE queue[1].what \in User
  <2>1. queue' = Tail(queue) /\ paste' = paste
    BY <1>2, <1>4 DEF Session!Settle, User
  <2>2. Promises'
    BY <1>2, <1>3, <1>4, <2>1, UserSettles
  <2>3. QED
    BY <1>3, <2>2, KeepsWire DEF OnWire
<1>5. CASE queue[1].what \notin User
  <2>1. Session!PasteSettled(q, queue[1].what, ok)
    BY <1>2, <1>5 DEF Session!Settle, User
  <2> HIDE DEF q
  <2>2. Promises'
    BY <1>2, <1>3, <1>5, <2>1, PasteGoesOn DEF q
  <2>3. QED
    BY <1>3, <2>2, KeepsWire DEF OnWire
<1>6. QED
  BY <1>4, <1>5

LEMMA PasteStep ==
    ASSUME Session!SessionAssumption, LinkInv, ItemsInv, PasteInv, typed \in Nat,
           [Session!Next]_sessionVars
    PROVE  PasteInv'
<1>1. CASE ~Session!WriteNext
  BY <1>1, StepAside, PasteAside
<1>2. CASE Session!Transmit
  <2>1. queue # <<>> /\ ~sending /\ SessionKept
    BY <1>2 DEF Session!Transmit, SessionKept
  <2>2. Head(queue) = queue[1]
    BY <2>1, LeftAsked
  <2>3. CASE Session!SameConnection(queue[1])
    <3>1. /\ sending' = TRUE /\ UNCHANGED <<queue, paste>>
          /\ wire' = IF Live THEN Append(wire, [what |-> queue[1].what, n |-> queue[1].n,
                                                asked |-> queue[1].asked, at |-> epoch])
                             ELSE wire
      BY <1>2, <2>2, <2>3 DEF Session!Transmit, Live
    <3>2. QED
      BY <2>1, <2>3, <3>1, TransmitPaste
  <2>4. CASE ~Session!SameConnection(queue[1])
    <3>1. Session!Settle(FALSE) /\ wire' = wire
      BY <1>2, <2>2, <2>4 DEF Session!Transmit
    <3>2. QED
      BY <2>1, <3>1, SettlePaste
  <2>5. QED
    BY <2>3, <2>4
<1>3. ASSUME NEW ok \in BOOLEAN, Session!WriteSettles(ok)
      PROVE  PasteInv'
  <2>1. sending /\ Session!Settle(ok) /\ SessionKept /\ wire' = wire /\ (ok => Live)
    BY <1>3 DEF Session!WriteSettles, SessionKept, Live
  <2>2. QED
    BY <2>1, SettlePaste
<1>4. QED
  BY <1>1, <1>2, <1>3, TypePaste, PreviewPaste, SendPastePaste, DelayEndsPaste
     DEF Session!WriteNext

LEMMA PasteInit ==
    ASSUME Session!SessionAssumption, Session!Init
    PROVE  PasteInv
<1>1. /\ queue = <<>> /\ wire = <<>> /\ sending = FALSE /\ paste.pc = "idle"
  BY NoPasteFields DEF Session!Init
<1>2. Len(queue) = 0 /\ Len(wire) = 0
  BY <1>1, EmptySeq
<1>3. OneItem(queue, paste.pc)
  BY <1>2 DEF OneItem
<1>4. QED
  BY <1>1, <1>2, <1>3 DEF PasteInv, Promises, OnWire, Going, Session!Pasting, Beginning,
     ChunkUnderWay, Delaying, Ending, Entering

-----------------------------------------------------------------------------
(* The page: the session moves as module DeviceSession says, or not at all *)

SessionInv == LinkInv /\ ItemsInv /\ PasteInv /\ typed \in Nat

LEMMA SessionInit ==
    ASSUME Init
    PROVE  SessionInv
<1>1. Session!Init /\ Session!SessionAssumption
  BY SessionHolds DEF Init
<1>2. QED
  BY <1>1, LinkInit, ItemsInit, PasteInit DEF SessionInv

LEMMA SessionStep ==
    ASSUME SessionInv, [Next]_<<focus, recorderVars, sessionVars, overviewVars>>
    PROVE  SessionInv'
<1>1. [Session!Next]_sessionVars /\ Session!SessionAssumption
  BY SessionHolds DEF Next
<1>2. QED
  BY <1>1, LinkStep, ItemsStep, PasteStep, TypedStep DEF SessionInv

\* Everything the three theorems below rest on holds of every reachable state.
LEMMA SessionAlways == Spec => []SessionInv
<1>1. Init => SessionInv
  BY SessionInit
<1>2. SessionInv /\ [Next]_<<focus, recorderVars, sessionVars, overviewVars>> => SessionInv'
  BY SessionStep
<1>3. QED
  BY <1>1, <1>2, PTL DEF Spec

\* An open transport always has somebody who will close it, and a connection in use is the
\* one of the latest connect call, with no disconnect asked for since: whatever calls wait
\* for a chooser or a port that opens late, and whatever the read loop recovers from.
THEOREM NoOrphanLinkAlways == Spec => []NoOrphanLink
<1>1. SessionInv => NoOrphanLink
  BY DEF SessionInv, LinkInv, Held, NoOrphanLink
<1>2. QED
  BY <1>1, SessionAlways, PTL

\* What reaches a device was asked for on the very connection it goes through: the two
\* comparisons of enqueue are enough, also for ADB, where no writer is compared.
THEOREM NothingReplayedAlways == Spec => []NothingReplayed
<1>1. SessionInv => NothingReplayed
  <2>1. ASSUME SessionInv
        PROVE  NothingReplayed
    <3>1. wire \in Seq(SentRecord) /\ \A i \in 1 .. Len(wire) : wire[i].asked = wire[i].at
      BY <2>1 DEF SessionInv, ItemsInv, ItemsTyped
    <3>2. DOMAIN wire = 1 .. Len(wire)
      BY <3>1, LenProperties
    <3>3. QED
      BY <3>1, <3>2 DEF NothingReplayed, Session!NothingReplayed
  <2>2. QED
    BY <2>1
<1>2. QED
  BY <1>1, SessionAlways, PTL

\* The Enter of a bracketed paste follows the whole paste, closed, on one connection, for
\* any number of chunks: no interrupt, no other command and no loss fits in between.
THEOREM EnterEndsWholePasteAlways == Spec => []EnterEndsWholePaste
<1>1. SessionInv => EnterEndsWholePaste
  <2>1. ASSUME SessionInv
        PROVE  EnterEndsWholePaste
    <3>1. wire \in Seq(SentRecord) /\ \A i \in 1 .. Len(wire) : EnterFollows(wire, i)
      BY <2>1 DEF SessionInv, ItemsInv, ItemsTyped, PasteInv
    <3>2. DOMAIN wire = 1 .. Len(wire)
      BY <3>1, LenProperties
    <3>3. QED
      BY <3>1, <3>2 DEF EnterEndsWholePaste, Session!EnterEndsWholePaste, EnterFollows
  <2>2. QED
    BY <2>1
<1>2. QED
  BY <1>1, SessionAlways, PTL

-----------------------------------------------------------------------------
(* The recorder *)

RecRecord == [part : Recorder!Part, offset : Nat, pending : Seq(Nat)]

RecTyped ==
    /\ received \in 0 .. MaxOutput
    /\ rec \in RecRecord /\ buffer \in Seq(Nat) /\ cache \in RecRecord \cup {None}
    /\ part \in [Recorder!Part -> Seq(Nat)] /\ recovered \in Seq(Seq(Nat))
    /\ recovery \in [by : {"nobody", "recorder", "menu"}, stage : {"none", "begun", "written"},
                     beside : BOOLEAN]

Alive == status \in {"idle", "recording", "saving", "error"}

InCache == IF cache = None THEN {} ELSE Recorder!ToSet(cache.pending)

Known == 1 .. received \cup InCache

InMemory == Recorder!ToSet(rec.pending) \cup Recorder!ToSet(buffer)

JobsShaped ==
    /\ jobs \in {<<>>, <<"save">>, <<"stop">>, <<"save", "stop">>}
    /\ stage \in {"wait", "write", "persist", "remove", "fail"}
    /\ status \in {"idle", "recording", "saving", "error", "stopped", "dead"}
    /\ timer \in BOOLEAN /\ accepting \in BOOLEAN
    /\ timer => jobs = <<>>
    /\ stage # "wait" => jobs # <<>>
    /\ jobs \in {<<"stop">>, <<"save", "stop">>} => ~accepting /\ status \in {"saving", "error"}
    /\ accepting => status = "recording"
    /\ status = "recording" => jobs \in {<<>>, <<"save">>}
    /\ stage = "remove" => jobs = <<"stop">>
    /\ status \in {"idle", "dead", "stopped"} => jobs = <<>> /\ ~timer /\ stage = "wait"

\* The save of a stop leaves nothing in memory.
Emptied ==
    /\ jobs = <<"stop">> /\ stage \in {"write", "persist", "remove"} => buffer = <<>>
    /\ stage \in {"persist", "remove"} => rec.pending = <<>>

\* The record stands at the end of its file, and rotates at most once for each write.
Fits ==
    Alive =>
        /\ rec.part + (IF rec.offset = 0 THEN 0 ELSE 1) + Len(rec.pending) + Len(buffer)
               <= received + 1
        /\ Len(part[rec.part]) = rec.offset
        /\ \A p \in Recorder!Part : p > rec.part => part[p] = <<>>

Kept ==
    /\ Alive => Known \subseteq Recorder!InFiles \cup InMemory
    /\ status = "stopped" => cache = None /\ 1 .. received \subseteq Recorder!InFiles
    /\ status = "idle" => cache = None

Recovering ==
    /\ recovery.by = "recorder" =>
           /\ status \in {"error", "stopped"} /\ ~accepting /\ ~timer
           /\ recovery.stage = "written" => jobs = <<>> /\ Known \subseteq Recorder!InFiles
    /\ recovery.by = "menu" =>
           /\ status = "dead" /\ cache # None
           /\ recovery.stage = "written" => InCache \subseteq Recorder!InFiles
    /\ recovery.stage = "written" => recovery.by # "nobody"

RecInv == RecTyped /\ JobsShaped /\ Emptied /\ Fits /\ Kept /\ Recovering

\* Nothing that outlives the tab is lost.
Remembers == Recorder!Durable \subseteq Recorder!Durable'

LEMMA RecFields ==
    ASSUME NEW r \in RecRecord
    PROVE  r.part \in Recorder!Part /\ r.offset \in Nat /\ r.pending \in Seq(Nat)
  BY DEF RecRecord

LEMMA PartNat ==
    ASSUME NEW p \in Recorder!Part
    PROVE  p \in Nat /\ p >= 1 /\ p <= MaxOutput + 1 /\ MaxOutput \in Nat
  BY RecorderHolds DEF Recorder!Part, Recorder!RecorderBounds

LEMMA NoneIsNoRecord == None \notin RecRecord
<1>1. RecRecord \subseteq [part : Nat, offset : Nat, pending : Seq(Nat)]
  BY PartNat DEF RecRecord
<1>2. QED
  BY <1>1, RecorderHolds DEF Recorder!RecorderBounds

LEMMA SetOfEmpty == Recorder!ToSet(<<>>) = {}
  BY DEF Recorder!ToSet

LEMMA SetOfSeq ==
    ASSUME NEW S, NEW q \in Seq(S)
    PROVE  Recorder!ToSet(q) = {q[i] : i \in 1 .. Len(q)}
  BY LenProperties DEF Recorder!ToSet

LEMMA SetOfJoined ==
    ASSUME NEW S, NEW q \in Seq(S), NEW x \in S
    PROVE  /\ Append(q, x) \in Seq(S) /\ Len(Append(q, x)) = Len(q) + 1 /\ Len(q) \in Nat
           /\ Recorder!ToSet(Append(q, x)) = Recorder!ToSet(q) \cup {x}
<1> DEFINE r == Append(q, x)
<1>1. /\ r \in Seq(S) /\ Len(q) \in Nat /\ Len(r) = Len(q) + 1
      /\ \A i \in 1 .. Len(q) : r[i] = q[i]
      /\ r[Len(q) + 1] = x
  BY AppendProperties, LenProperties
<1> HIDE DEF r
<1>2. /\ Recorder!ToSet(r) = {r[i] : i \in 1 .. Len(r)}
      /\ Recorder!ToSet(q) = {q[i] : i \in 1 .. Len(q)}
  BY <1>1, SetOfSeq
<1>3. \A i \in 1 .. Len(r) : i \in 1 .. Len(q) \/ i = Len(q) + 1
  BY <1>1
<1>4. \A i \in 1 .. Len(q) : i \in 1 .. Len(r)
  BY <1>1
<1>5. Len(q) + 1 \in 1 .. Len(r)
  BY <1>1
<1>6. {r[i] : i \in 1 .. Len(r)} = {q[i] : i \in 1 .. Len(q)} \cup {x}
  BY <1>1, <1>3, <1>4, <1>5
<1>7. QED
  BY <1>1, <1>2, <1>6 DEF r

LEMMA SetOfConcat ==
    ASSUME NEW S, NEW q \in Seq(S), NEW r \in Seq(S)
    PROVE  /\ q \o r \in Seq(S) /\ Len(q \o r) = Len(q) + Len(r)
           /\ Len(q) \in Nat /\ Len(r) \in Nat
           /\ Recorder!ToSet(q \o r) = Recorder!ToSet(q) \cup Recorder!ToSet(r)
<1> DEFINE t == q \o r
<1>1. /\ t \in Seq(S) /\ Len(q) \in Nat /\ Len(r) \in Nat /\ Len(t) = Len(q) + Len(r)
      /\ \A i \in 1 .. Len(q) + Len(r) : t[i] = IF i <= Len(q) THEN q[i] ELSE r[i - Len(q)]
  BY ConcatProperties, LenProperties
<1> HIDE DEF t
<1>2. /\ Recorder!ToSet(t) = {t[i] : i \in 1 .. Len(t)}
      /\ Recorder!ToSet(q) = {q[i] : i \in 1 .. Len(q)}
      /\ Recorder!ToSet(r) = {r[i] : i \in 1 .. Len(r)}
  BY <1>1, SetOfSeq
<1>3. \A i \in 1 .. Len(t) : \/ i \in 1 .. Len(q) /\ t[i] = q[i]
                             \/ i - Len(q) \in 1 .. Len(r) /\ t[i] = r[i - Len(q)]
  BY <1>1
<1>4. \A i \in 1 .. Len(q) : i \in 1 .. Len(t) /\ t[i] = q[i]
  BY <1>1
<1>5. ASSUME NEW i \in 1 .. Len(r)
      PROVE  i + Len(q) \in 1 .. Len(t) /\ t[i + Len(q)] = r[i]
  <2>1. i + Len(q) \in 1 .. Len(q) + Len(r) /\ ~(i + Len(q) <= Len(q)) /\ (i + Len(q)) - Len(q) = i
    BY <1>1
  <2>2. QED
    BY <1>1, <2>1
<1>6. Recorder!ToSet(t) = Recorder!ToSet(q) \cup Recorder!ToSet(r)
  <2>1. Recorder!ToSet(q) \subseteq Recorder!ToSet(t)
    BY <1>2, <1>4
  <2>2. ASSUME NEW x \in Recorder!ToSet(r)
        PROVE  x \in Recorder!ToSet(t)
    <3>1. PICK i \in 1 .. Len(r) : x = r[i]
      BY <1>2, <2>2
    <3>2. i + Len(q) \in 1 .. Len(t) /\ t[i + Len(q)] = x
      BY <1>5, <3>1
    <3>3. QED
      BY <1>2, <3>2
  <2>3. ASSUME NEW x \in Recorder!ToSet(t)
        PROVE  x \in Recorder!ToSet(q) \/ x \in Recorder!ToSet(r)
    <3>1. PICK i \in 1 .. Len(t) : x = t[i]
      BY <1>2, <2>3
    <3>2. QED
      BY <1>2, <1>3, <3>1
  <2>4. QED
    BY <2>1, <2>2, <2>3
<1>7. QED
  BY <1>1, <1>2, <1>6 DEF t

LEMMA JobsTable ==
    /\ Append(<<>>, "save") = <<"save">> /\ Append(<<>>, "stop") = <<"stop">>
    /\ Append(<<"save">>, "stop") = <<"save", "stop">>
    /\ Head(<<"save">>) = "save" /\ Head(<<"stop">>) = "stop" /\ Head(<<"save", "stop">>) = "save"
    /\ Tail(<<"save">>) = <<>> /\ Tail(<<"stop">>) = <<>> /\ Tail(<<"save", "stop">>) = <<"stop">>
    /\ <<>> # <<"save">> /\ <<>> # <<"stop">> /\ <<>> # <<"save", "stop">>
    /\ <<"save">> # <<"stop">> /\ <<"save">> # <<"save", "stop">> /\ <<"stop">> # <<"save", "stop">>
<1>1. Append(<<>>, "save") = <<"save">> /\ Append(<<>>, "stop") = <<"stop">>
  OBVIOUS
<1>2. Append(<<"save">>, "stop") = <<"save", "stop">>
  <2> DEFINE a == Append(<<"save">>, "stop")
             b == <<"save", "stop">>
  <2>1. /\ <<"save">> \in Seq({"save", "stop"}) /\ b \in Seq({"save", "stop"})
        /\ "stop" \in {"save", "stop"}
    OBVIOUS
  <2>2. /\ Len(<<"save">>) = 1 /\ <<"save">>[1] = "save"
        /\ Len(b) = 2 /\ b[1] = "save" /\ b[2] = "stop"
    OBVIOUS
  <2>3. a \in Seq({"save", "stop"}) /\ Len(a) = 2 /\ a[1] = "save" /\ a[2] = "stop"
    BY <2>1, <2>2, AppendProperties
  <2> HIDE DEF a, b
  <2>4. \A i \in 1 .. 2 : a[i] = b[i]
    BY <2>2, <2>3
  <2>5. a = b
    BY <2>1, <2>2, <2>3, <2>4, SeqEqual
  <2>6. QED
    BY <2>5 DEF a, b
<1>3. Head(<<"save">>) = "save" /\ Head(<<"stop">>) = "stop" /\ Head(<<"save", "stop">>) = "save"
  OBVIOUS
<1>4. Tail(<<"save">>) = <<>> /\ Tail(<<"stop">>) = <<>>
  OBVIOUS
<1>5. Tail(<<"save", "stop">>) = <<"stop">>
  OBVIOUS
<1>6. /\ Len(<<>>) = 0 /\ Len(<<"save">>) = 1 /\ Len(<<"stop">>) = 1 /\ Len(<<"save", "stop">>) = 2
      /\ <<"save">>[1] = "save" /\ <<"stop">>[1] = "stop"
  OBVIOUS
<1>7. QED
  BY <1>1, <1>2, <1>3, <1>4, <1>5, <1>6

\* One more file of the folder, or more of one.
LEMMA PartGrows ==
    ASSUME RecTyped, NEW p \in Recorder!Part, NEW t \in Seq(Nat),
           part' = [part EXCEPT ![p] = part[p] \o t],
           UNCHANGED <<recovered, elsewhere>>
    PROVE  /\ part' \in [Recorder!Part -> Seq(Nat)]
           /\ Recorder!InFiles \subseteq Recorder!InFiles'
           /\ Recorder!ToSet(t) \subseteq Recorder!InFiles'
<1>1. /\ part[p] \o t \in Seq(Nat) /\ part \in [Recorder!Part -> Seq(Nat)]
      /\ Recorder!ToSet(part[p] \o t) = Recorder!ToSet(part[p]) \cup Recorder!ToSet(t)
  BY SetOfConcat DEF RecTyped
<1>2. part' \in [Recorder!Part -> Seq(Nat)] /\ part'[p] = part[p] \o t
      /\ \A o \in Recorder!Part : o # p => part'[o] = part[o]
  BY <1>1
<1>3. \A o \in Recorder!Part : Recorder!ToSet(part[o]) \subseteq Recorder!ToSet(part'[o])
  BY <1>1, <1>2
<1>4. Recorder!InParts \subseteq Recorder!InParts' /\ Recorder!ToSet(t) \subseteq Recorder!InParts'
  BY <1>1, <1>2, <1>3 DEF Recorder!InParts
<1>5. QED
  BY <1>2, <1>4 DEF Recorder!InFiles

LEMMA LeastOfTwo ==
    ASSUME NEW m \in Nat, NEW n \in Nat
    PROVE  Recorder!Min({m, n}) \in {m, n} /\ Recorder!Min({m, n}) <= m /\ Recorder!Min({m, n}) <= n
<1>1. \E x \in {m, n} : \A y \in {m, n} : x <= y
  OBVIOUS
<1>2. \A y \in {m, n} : Recorder!Min({m, n}) <= y
  BY <1>1 DEF Recorder!Min
<1>3. Recorder!Min({m, n}) \in {m, n}
  BY <1>1 DEF Recorder!Min
<1>4. QED
  BY <1>2, <1>3

\* What the recovery leaves out is in the original file already.
LEMMA CommittedThere ==
    ASSUME RecTyped, NEW r \in RecRecord, NEW b \in BOOLEAN, NEW c, c = Recorder!Committed(r, b)
    PROVE  /\ c \in Nat /\ c <= Len(r.pending)
           /\ \A i \in 1 .. c : r.pending[i] \in Recorder!ToSet(part[r.part])
<1> DEFINE s == part[r.part]
           t == r.pending
           o == r.offset
           end == Recorder!Min({Len(s), o + Len(t)})
           there == SubSeq(s, o + 1, end)
<1>1. s \in Seq(Nat) /\ t \in Seq(Nat) /\ o \in Nat /\ Len(s) \in Nat /\ Len(t) \in Nat
  BY RecFields, LenProperties DEF RecTyped
<1>2. c = IF b /\ there = SubSeq(t, 1, Len(there)) THEN Len(there) ELSE 0
  BY DEF Recorder!Committed
<1>3. Recorder!ToSet(s) = {s[i] : i \in 1 .. Len(s)}
  BY <1>1, SetOfSeq
<1> HIDE DEF s, t, o
<1>4. end \in Nat /\ end <= Len(s) /\ end <= o + Len(t)
  <2>1. o + Len(t) \in Nat
    BY <1>1
  <2>2. QED
    BY <1>1, <2>1, LeastOfTwo
<1> HIDE DEF end
<1>5. \A i \in o + 1 .. end : i \in 1 .. Len(s) /\ s[i] \in Nat
  <2>1. \A i \in 1 .. Len(s) : s[i] \in Nat
    BY <1>1, ElementOfSeq
  <2>2. \A i \in o + 1 .. end : i \in 1 .. Len(s)
    BY <1>1, <1>4
  <2>3. QED
    BY <2>1, <2>2
<1>6. /\ Len(there) = IF o + 1 <= end THEN end - (o + 1) + 1 ELSE 0
      /\ \A i \in 1 .. end - (o + 1) + 1 : there[i] = s[o + 1 + i - 1]
  <2>1. o + 1 \in Int /\ end \in Int
    BY <1>1, <1>4
  <2>2. QED
    BY <1>5, <2>1, SubSeqProperties
<1> HIDE DEF there
<1>7. Len(there) \in Nat /\ Len(there) <= Len(t)
  BY <1>1, <1>4, <1>6
<1>8. ASSUME there = SubSeq(t, 1, Len(there)), NEW i \in 1 .. Len(there)
      PROVE  t[i] \in Recorder!ToSet(s)
  <2> DEFINE k == Len(there)
             u == SubSeq(t, 1, k)
  <2>1. \A j \in 1 .. k : t[j] \in Nat
    <3>1. \A j \in 1 .. Len(t) : t[j] \in Nat
      BY <1>1, ElementOfSeq
    <3>2. QED
      BY <1>1, <1>7, <3>1
  <2>2. \A j \in 1 .. k - 1 + 1 : u[j] = t[1 + j - 1]
    <3> HIDE DEF k
    <3>1. 1 \in Int /\ k \in Int
      BY <1>7 DEF k
    <3>2. QED
      BY <2>1, <3>1, SubSeqProperties
  <2>3. u[i] = t[i]
    <3>1. i \in 1 .. k - 1 + 1 /\ 1 + i - 1 = i
      BY <1>7
    <3>2. QED
      BY <2>2, <3>1
  <2>4. there[i] = s[o + i] /\ o + i \in o + 1 .. end
    <3>1. o + 1 <= end /\ i \in 1 .. end - (o + 1) + 1 /\ o + 1 + i - 1 = o + i
      BY <1>1, <1>4, <1>6
    <3>2. o + i \in o + 1 .. end
      BY <1>1, <1>4, <3>1
    <3>3. QED
      BY <1>6, <3>1, <3>2
  <2>5. there = u
    BY <1>8
  <2> HIDE DEF u, k
  <2>6. t[i] = s[o + i] /\ o + i \in 1 .. Len(s)
    BY <1>5, <2>3, <2>4, <2>5
  <2>7. QED
    BY <1>3, <2>6
<1>9. c \in Nat /\ c <= Len(t) /\ \A i \in 1 .. c : t[i] \in Recorder!ToSet(s)
  <2>1. CASE b /\ there = SubSeq(t, 1, Len(there))
    BY <1>2, <1>7, <1>8, <2>1
  <2>2. CASE ~(b /\ there = SubSeq(t, 1, Len(there)))
    BY <1>1, <1>2, <2>2
  <2>3. QED
    BY <2>1, <2>2
<1>10. QED
  BY <1>9 DEF s, t

\* A recovery writes whatever of the record is nowhere else.
LEMMA RecoveryWrites ==
    ASSUME RecTyped, NEW r \in RecRecord, NEW b \in BOOLEAN, Recorder!WriteRecovery(r, b)
    PROVE  /\ RecTyped' /\ recovery'.by = recovery.by /\ recovery'.stage = "written"
           /\ Recorder!InFiles \subseteq Recorder!InFiles'
           /\ Recorder!ToSet(r.pending) \subseteq Recorder!InFiles'
           /\ UNCHANGED <<received, accepting, timer, jobs, stage, rec, buffer, status, cache,
                          part>>
<1> DEFINE t == r.pending
           c == Recorder!Committed(r, b)
           rest == SubSeq(t, c + 1, Len(t))
<1>1. /\ recovered' = recovered \o (IF b /\ rest # <<>> THEN <<rest>> ELSE <<>>)
      /\ elsewhere' = IF b THEN elsewhere ELSE elsewhere \cup Recorder!ToSet(rest)
      /\ recovery' = [recovery EXCEPT !.stage = "written", !.beside = b]
      /\ UNCHANGED <<received, accepting, timer, jobs, stage, rec, buffer, status, cache, part>>
  BY DEF Recorder!WriteRecovery, Recorder!memory
<1>2. t \in Seq(Nat) /\ Len(t) \in Nat /\ r.part \in Recorder!Part
  BY RecFields, LenProperties
<1>3. c \in Nat /\ c <= Len(t) /\ \A i \in 1 .. c : t[i] \in Recorder!ToSet(part[r.part])
  BY CommittedThere
<1> HIDE DEF t, c
<1>4. \A i \in 1 .. Len(t) : t[i] \in Nat
  BY <1>2, ElementOfSeq
<1>5. /\ rest \in Seq(Nat)
      /\ Len(rest) = (IF c + 1 <= Len(t) THEN Len(t) - (c + 1) + 1 ELSE 0)
      /\ \A i \in 1 .. Len(t) - (c + 1) + 1 : rest[i] = t[c + 1 + i - 1]
  <2>1. c + 1 \in Int /\ Len(t) \in Int
    BY <1>2, <1>3
  <2>2. \A i \in c + 1 .. Len(t) : t[i] \in Nat
    BY <1>2, <1>3, <1>4
  <2>3. QED
    BY <2>1, <2>2, SubSeqProperties
<1> HIDE DEF rest
<1>6. ASSUME NEW i \in 1 .. Len(t)
      PROVE  t[i] \in Recorder!ToSet(part[r.part]) \/ t[i] \in Recorder!ToSet(rest)
  <2>1. CASE i <= c
    BY <1>2, <1>3, <2>1
  <2>2. CASE ~(i <= c)
    <3>1. /\ i - c \in 1 .. Len(t) - (c + 1) + 1 /\ c + 1 + (i - c) - 1 = i
          /\ i - c \in 1 .. Len(rest)
      BY <1>2, <1>3, <1>5, <2>2
    <3>2. rest[i - c] = t[i]
      BY <1>5, <3>1
    <3>3. Recorder!ToSet(rest) = {rest[j] : j \in 1 .. Len(rest)}
      BY <1>5, SetOfSeq
    <3>4. QED
      BY <3>1, <3>2, <3>3
  <2>3. QED
    BY <2>1, <2>2
<1>7. Recorder!ToSet(t) = {t[i] : i \in 1 .. Len(t)}
  BY <1>2, SetOfSeq
<1>8. Recorder!ToSet(t) \subseteq Recorder!InParts \cup Recorder!ToSet(rest)
  <2>1. Recorder!ToSet(part[r.part]) \subseteq Recorder!InParts
    BY <1>2 DEF Recorder!InParts
  <2>2. QED
    BY <1>6, <1>7, <2>1
<1>9. Recorder!InParts' = Recorder!InParts
  BY <1>1 DEF Recorder!InParts
<1>10. /\ recovered' \in Seq(Seq(Nat))
       /\ Recorder!ToSet(recovered) \subseteq Recorder!ToSet(recovered')
       /\ b /\ rest # <<>> => rest \in Recorder!ToSet(recovered')
  <2> DEFINE x == IF b /\ rest # <<>> THEN <<rest>> ELSE <<>>
  <2>1. x \in Seq(Seq(Nat)) /\ (b /\ rest # <<>> => rest \in Recorder!ToSet(x))
    <3>1. <<rest>> \in Seq(Seq(Nat)) /\ <<>> \in Seq(Seq(Nat))
      BY <1>5
    <3>2. Recorder!ToSet(<<rest>>) = {<<rest>>[i] : i \in 1 .. Len(<<rest>>)}
      BY <3>1, SetOfSeq
    <3>3. 1 \in 1 .. Len(<<rest>>) /\ <<rest>>[1] = rest
      OBVIOUS
    <3>4. QED
      BY <3>1, <3>2, <3>3
  <2>2. recovered \in Seq(Seq(Nat)) /\ recovered' = recovered \o x
    BY <1>1 DEF RecTyped
  <2> HIDE DEF x
  <2>3. recovered' \in Seq(Seq(Nat))
        /\ Recorder!ToSet(recovered') = Recorder!ToSet(recovered) \cup Recorder!ToSet(x)
    BY <2>1, <2>2, SetOfConcat
  <2>4. QED
    BY <2>1, <2>3
<1>11. /\ Recorder!InFiles \subseteq Recorder!InFiles'
       /\ Recorder!ToSet(rest) \subseteq Recorder!InFiles'
  <2>1. Recorder!InFiles \subseteq Recorder!InFiles'
    BY <1>1, <1>9, <1>10 DEF Recorder!InFiles
  <2>2. ASSUME NEW x \in Recorder!ToSet(rest)
        PROVE  x \in Recorder!InFiles'
    <3>1. CASE ~b
      <4>1. x \in elsewhere'
        BY <1>1, <2>2, <3>1
      <4>2. QED
        BY <4>1 DEF Recorder!InFiles
    <3>2. CASE b /\ rest # <<>>
      <4>1. rest \in Recorder!ToSet(recovered')
        BY <1>10, <3>2
      <4>2. x \in UNION {Recorder!ToSet(q) : q \in Recorder!ToSet(recovered')}
        BY <2>2, <4>1
      <4>3. Recorder!InFiles' = Recorder!InParts' \cup elsewhere'
                \cup UNION {Recorder!ToSet(q) : q \in Recorder!ToSet(recovered')}
        BY DEF Recorder!InFiles
      <4>4. QED
        BY <4>2, <4>3
    <3>3. CASE rest = <<>>
      BY <2>2, <3>3, SetOfEmpty
    <3>4. QED
      BY <3>1, <3>2, <3>3
  <2>3. QED
    BY <2>1, <2>2
<1>12. /\ recovery' \in [by : {"nobody", "recorder", "menu"},
                         stage : {"none", "begun", "written"}, beside : BOOLEAN]
       /\ recovery'.by = recovery.by /\ recovery'.stage = "written"
  BY <1>1 DEF RecTyped
<1>13. RecTyped'
  BY <1>1, <1>10, <1>12 DEF RecTyped
<1>14. Recorder!ToSet(t) \subseteq Recorder!InFiles'
  BY <1>8, <1>9, <1>11 DEF Recorder!InFiles
<1>15. QED
  BY <1>1, <1>11, <1>12, <1>13, <1>14 DEF t

LEMMA FilesKept ==
    ASSUME UNCHANGED <<part, recovered, elsewhere>>
    PROVE  Recorder!InFiles' = Recorder!InFiles
  BY DEF Recorder!InFiles, Recorder!InParts

LEMMA RememberBy ==
    ASSUME Recorder!InFiles \subseteq Recorder!InFiles',
           InCache \subseteq Recorder!InFiles' \cup InCache'
    PROVE  Remembers
<1>1. Recorder!Durable = Recorder!InFiles \cup InCache
  BY DEF Recorder!Durable, InCache
<1>2. Recorder!Durable' = Recorder!InFiles' \cup InCache'
  BY DEF Recorder!Durable, InCache
<1>3. QED
  BY <1>1, <1>2 DEF Remembers

LEMMA CachedFields ==
    ASSUME NEW r \in RecRecord, NEW b \in Seq(Nat), NEW x, x = Recorder!Cached(r, b)
    PROVE  /\ x \in RecRecord /\ x # None
           /\ Recorder!ToSet(x.pending) = Recorder!ToSet(r.pending) \cup Recorder!ToSet(b)
<1>1. x = [r EXCEPT !.pending = r.pending \o b]
  BY DEF Recorder!Cached
<1>2. /\ r.pending \o b \in Seq(Nat)
      /\ Recorder!ToSet(r.pending \o b) = Recorder!ToSet(r.pending) \cup Recorder!ToSet(b)
  BY RecFields, SetOfConcat
<1>3. x \in RecRecord /\ x.pending = r.pending \o b
  BY <1>1, <1>2 DEF RecRecord
<1>4. QED
  BY <1>2, <1>3, NoneIsNoRecord

\* What the cache then holds is what memory holds.
LEMMA CachedKnown ==
    ASSUME RecTyped, cache' = Recorder!Cached(rec, buffer)
    PROVE  cache' \in RecRecord /\ InCache' = InMemory
  BY CachedFields DEF RecTyped, InCache, InMemory

LEMMA IdleFields == Recorder!Idle \in [by : {"nobody", "recorder", "menu"},
                         stage : {"none", "begun", "written"}, beside : BOOLEAN]
                    /\ Recorder!Idle.by = "nobody" /\ Recorder!Idle.stage = "none"
  BY DEF Recorder!Idle

LEMMA RecStart ==
    ASSUME RecInv, Recorder!Start
    PROVE  RecInv' /\ Remembers
<1>1. /\ status = "idle" /\ status' = "recording" /\ accepting' = TRUE /\ timer' = TRUE
      /\ cache' = rec /\ UNCHANGED <<received, jobs, stage, rec, buffer, recovery>>
      /\ UNCHANGED <<part, recovered, elsewhere>>
  BY DEF Recorder!Start, Recorder!files
<1>2. Recorder!InFiles' = Recorder!InFiles
  BY <1>1, FilesKept
<1>3. RecTyped' /\ JobsShaped' /\ Emptied' /\ Fits'
  BY <1>1 DEF RecInv, RecTyped, JobsShaped, Emptied, Fits, Alive
<1>4. cache = None /\ Known \subseteq Recorder!InFiles \cup InMemory
  BY <1>1 DEF RecInv, Kept, Alive
<1>5. Kept'
  <2>1. InCache' \subseteq InMemory' /\ InMemory' = InMemory
    BY <1>1 DEF InCache, InMemory
  <2>2. Known' \subseteq Recorder!InFiles' \cup InMemory'
    BY <1>1, <1>2, <1>4, <2>1 DEF Known
  <2>3. QED
    BY <1>1, <2>2 DEF Kept
<1>6. Recovering'
  BY <1>1 DEF RecInv, Recovering
<1>7. Remembers
  BY <1>2, <1>4, RememberBy DEF InCache
<1>8. QED
  BY <1>3, <1>5, <1>6, <1>7 DEF RecInv

LEMMA RecReceive ==
    ASSUME RecInv, Recorder!Receive
    PROVE  RecInv' /\ Remembers
<1>1. /\ accepting /\ received < MaxOutput /\ received' = received + 1
      /\ buffer' = Append(buffer, received + 1)
      /\ \/ accepting' = FALSE /\ status' = "error"
         \/ UNCHANGED <<accepting, status>>
      /\ UNCHANGED <<timer, jobs, stage, rec, cache, recovery, part, recovered, elsewhere>>
  BY DEF Recorder!Receive, Recorder!files
<1>2. Recorder!InFiles' = Recorder!InFiles
  BY <1>1, FilesKept
<1>3. status = "recording" /\ jobs \in {<<>>, <<"save">>}
  BY <1>1 DEF RecInv, JobsShaped
<1>4. /\ buffer \in Seq(Nat) /\ rec \in RecRecord
      /\ received \in 0 .. MaxOutput /\ MaxOutput \in Nat
      /\ received + 1 \in Nat
  BY RecorderHolds DEF RecInv, RecTyped, Recorder!RecorderBounds
<1>5. /\ buffer' \in Seq(Nat) /\ Len(buffer) \in Nat /\ Len(buffer') = Len(buffer) + 1
      /\ Recorder!ToSet(buffer') = Recorder!ToSet(buffer) \cup {received + 1}
  BY <1>1, <1>4, SetOfJoined
<1>6. received' \in 0 .. MaxOutput
  BY <1>1, <1>4
<1>7. RecTyped'
  BY <1>1, <1>5, <1>6 DEF RecInv, RecTyped
<1>8. JobsShaped' /\ Emptied'
  BY <1>1, <1>3, JobsTable DEF RecInv, JobsShaped, Emptied
<1>9. Fits'
  <2>1. /\ rec.part \in Nat /\ Len(rec.pending) \in Nat
    BY <1>4, RecFields, PartNat, LenProperties
  <2>2. rec.part + (IF rec.offset = 0 THEN 0 ELSE 1) + Len(rec.pending) + Len(buffer)
            <= received + 1
    BY <1>3 DEF RecInv, Fits, Alive
  <2>3. rec.part + (IF rec.offset = 0 THEN 0 ELSE 1) + Len(rec.pending) + (Len(buffer) + 1)
            <= (received + 1) + 1
    BY <1>4, <1>5, <2>1, <2>2
  <2>4. QED
    BY <1>1, <1>3, <1>5, <2>3 DEF RecInv, Fits, Alive
<1>10. Kept'
  <2>1. Known \subseteq Recorder!InFiles \cup InMemory
    BY <1>3 DEF RecInv, Kept, Alive
  <2>2. InMemory' = InMemory \cup {received + 1} /\ InCache' = InCache
    BY <1>1, <1>5 DEF InMemory, InCache
  <2>3. 1 .. received' \subseteq 1 .. received \cup {received + 1}
    BY <1>1, <1>4
  <2>4. Known' \subseteq Recorder!InFiles' \cup InMemory'
    BY <1>2, <2>1, <2>2, <2>3 DEF Known
  <2>5. QED
    BY <1>1, <1>3, <2>4 DEF Kept
<1>11. Recovering'
  BY <1>1, <1>3 DEF RecInv, Recovering
<1>12. Remembers
  BY <1>1, <1>2, RememberBy DEF InCache
<1>13. QED
  BY <1>7, <1>8, <1>9, <1>10, <1>11, <1>12 DEF RecInv

\* A step that leaves memory, cache and files alone.
LEMMA RecSame ==
    ASSUME RecInv, UNCHANGED <<received, rec, buffer, cache, recovery, part, recovered, elsewhere>>,
           JobsShaped', Alive <=> Alive', status' # "stopped" \/ status = "stopped",
           status' # "idle" \/ status = "idle",
           Emptied', recovery.by = "nobody" \/ Recovering'
    PROVE  RecInv' /\ Remembers
<1>1. Recorder!InFiles' = Recorder!InFiles /\ InCache' = InCache /\ InMemory' = InMemory
      /\ Known' = Known
  BY FilesKept DEF InCache, InMemory, Known
<1>2. RecTyped' /\ Fits'
  BY DEF RecInv, RecTyped, Fits
<1>3. Kept'
  BY <1>1 DEF RecInv, Kept
<1>4. Recovering'
  BY <1>1 DEF RecInv, Recovering
<1>5. Remembers
  BY <1>1, RememberBy
<1>6. QED
  BY <1>2, <1>3, <1>4, <1>5 DEF RecInv

LEMMA RecTimer ==
    ASSUME RecInv, Recorder!TimerFires \/ Recorder!Stop
    PROVE  RecInv' /\ Remembers
<1>1. /\ UNCHANGED <<received, rec, buffer, cache, recovery, part, recovered, elsewhere, stage>>
      /\ timer' = FALSE
      /\ \/ timer /\ jobs' = Append(jobs, "save") /\ UNCHANGED <<status, accepting>>
         \/ /\ status = "recording" /\ status' = "saving" /\ accepting' = FALSE
            /\ jobs' = Append(jobs, "stop")
  BY DEF Recorder!TimerFires, Recorder!Stop, Recorder!files
<1>2. CASE timer /\ jobs' = Append(jobs, "save") /\ UNCHANGED <<status, accepting>>
  <2>1. /\ jobs = <<>> /\ jobs' = <<"save">> /\ stage = "wait"
        /\ status \in {"recording", "saving", "error"}
    BY <1>2, JobsTable DEF RecInv, JobsShaped
  <2>2. JobsShaped' /\ Emptied'
    BY <1>1, <1>2, <2>1, JobsTable DEF RecInv, JobsShaped, Emptied
  <2>3. recovery.by = "nobody"
    BY <1>2, <2>1 DEF RecInv, Recovering, RecTyped
  <2>4. QED
    BY <1>1, <1>2, <2>1, <2>2, <2>3, RecSame DEF Alive
<1>3. CASE /\ status = "recording" /\ status' = "saving" /\ accepting' = FALSE
           /\ jobs' = Append(jobs, "stop")
  <2>1. jobs' \in {<<"stop">>, <<"save", "stop">>} /\ stage # "remove"
        /\ (jobs' = <<"stop">> => stage = "wait")
    BY <1>3, JobsTable DEF RecInv, JobsShaped
  <2>2. JobsShaped' /\ Emptied'
    BY <1>1, <1>3, <2>1, JobsTable DEF RecInv, JobsShaped, Emptied
  <2>3. recovery.by = "nobody"
    BY <1>3 DEF RecInv, Recovering, RecTyped
  <2>4. QED
    BY <1>1, <1>3, <2>1, <2>2, <2>3, RecSame DEF Alive
<1>4. QED
  BY <1>1, <1>2, <1>3

\* While a job runs, the recorder lives and no recovery has written.
LEMMA JobRuns ==
    ASSUME RecInv, jobs # <<>>
    PROVE  /\ status \in {"recording", "saving", "error"} /\ Alive /\ ~timer
           /\ recovery.by # "menu" /\ recovery.stage # "written"
           /\ recovery.by = "recorder" => status = "error" /\ ~accepting
           /\ Known \subseteq Recorder!InFiles \cup InMemory
<1>1. status \in {"recording", "saving", "error"} /\ Alive /\ ~timer
  BY DEF RecInv, JobsShaped, Alive
<1>2. recovery.by # "menu" /\ (recovery.by = "recorder" => status = "error" /\ ~accepting)
  BY <1>1 DEF RecInv, Recovering
<1>3. recovery.stage # "written"
  <2>1. recovery.by \in {"nobody", "recorder", "menu"}
    BY DEF RecInv, RecTyped
  <2>2. QED
    BY <1>2, <2>1 DEF RecInv, Recovering
<1>4. QED
  BY <1>1, <1>2, <1>3 DEF RecInv, Kept

\* A step of a job that goes on recording or fails loses nothing.
LEMMA JobKeeps ==
    ASSUME RecInv, jobs # <<>>, RecTyped', JobsShaped', Emptied', Fits',
           UNCHANGED <<received, recovery>>,
           \/ UNCHANGED <<status, accepting>> /\ (timer' => accepting)
           \/ status' = "error" /\ ~accepting' /\ ~timer',
           Recorder!InFiles \subseteq Recorder!InFiles',
           InMemory \subseteq Recorder!InFiles' \cup InMemory',
           UNCHANGED cache \/ InCache' = InMemory'
    PROVE  RecInv' /\ Remembers
<1>1. /\ status \in {"recording", "saving", "error"} /\ recovery.by # "menu"
      /\ recovery.stage # "written"
      /\ recovery.by = "recorder" => status = "error" /\ ~accepting
      /\ Known \subseteq Recorder!InFiles \cup InMemory
  BY JobRuns
<1>2. status' \in {"recording", "saving", "error"}
  BY <1>1
<1>3. Known \subseteq Recorder!InFiles' \cup InMemory'
  BY <1>1
<1>4. Known' \subseteq Recorder!InFiles' \cup InMemory'
  <2>1. InCache' \subseteq InCache \cup InMemory'
    BY DEF InCache
  <2>2. QED
    BY <1>3, <2>1 DEF Known
<1>5. Kept'
  BY <1>2, <1>4 DEF Kept
<1>6. Recovering'
  BY <1>1 DEF Recovering
<1>7. InCache \subseteq Recorder!InFiles' \cup InCache'
  <2>1. CASE UNCHANGED cache
    BY <2>1 DEF InCache
  <2>2. CASE InCache' = InMemory'
    BY <1>3, <2>2 DEF Known
  <2>3. QED
    BY <2>1, <2>2
<1>8. QED
  BY <1>5, <1>6, <1>7, RememberBy DEF RecInv

\* The end of a save leaves the chain in one of its shapes.
LEMMA SavedShape ==
    ASSUME RecInv, jobs # <<>>, Recorder!Saved, UNCHANGED <<status, accepting>>,
           stage # "remove", stage # "fail",
           Head(jobs) = "stop" => buffer' = <<>> /\ rec'.pending = <<>>
    PROVE  JobsShaped' /\ Emptied' /\ (timer' => accepting)
<1>1. status \in {"recording", "saving", "error"} /\ ~timer
  BY JobRuns
<1>2. CASE Head(jobs) = "save"
  <2>1. jobs' = Tail(jobs) /\ stage' = "wait" /\ timer' = accepting
    BY <1>2 DEF Recorder!Saved
  <2>2. jobs \in {<<"save">>, <<"save", "stop">>}
    BY <1>2, JobsTable DEF RecInv, JobsShaped
  <2>3. \/ jobs = <<"save">> /\ jobs' = <<>>
        \/ jobs = <<"save", "stop">> /\ jobs' = <<"stop">> /\ ~accepting
    BY <2>1, <2>2, JobsTable DEF RecInv, JobsShaped
  <2>4. QED
    BY <1>1, <2>1, <2>3, JobsTable DEF RecInv, JobsShaped, Emptied
<1>3. CASE Head(jobs) # "save"
  <2>1. stage' = "remove" /\ UNCHANGED <<jobs, timer>>
    BY <1>3 DEF Recorder!Saved
  <2>2. jobs = <<"stop">>
    BY <1>3, JobsTable DEF RecInv, JobsShaped
  <2>3. buffer' = <<>> /\ rec'.pending = <<>>
    BY <2>2, JobsTable
  <2>4. QED
    BY <1>1, <2>1, <2>2, <2>3, JobsTable DEF RecInv, JobsShaped, Emptied
<1>4. QED
  BY <1>2, <1>3

LEMMA FailShape ==
    ASSUME RecInv, jobs # <<>>, Recorder!Fail
    PROVE  JobsShaped' /\ Emptied' /\ status' = "error" /\ ~accepting' /\ ~timer'
<1>1. /\ status' = "error" /\ accepting' = FALSE /\ timer' = FALSE /\ stage' = "fail"
      /\ UNCHANGED jobs
  BY DEF Recorder!Fail
<1>2. QED
  BY <1>1, JobsTable DEF RecInv, JobsShaped, Emptied

LEMMA RotatedCount ==
    ASSUME NEW p \in Nat, NEW o \in Nat, NEW x \in Nat, NEW y \in Nat, NEW n \in Nat,
           p + (IF o = 0 THEN 0 ELSE 1) + x + y <= n + 1
    PROVE  /\ p + (IF o = 0 THEN 0 ELSE 1) + (x + y) + 0 <= n + 1
           /\ o # 0 => p + 1 <= n + 1 /\ p + 1 + 0 + (x + y) + 0 <= n + 1
  OBVIOUS

\* What a checkpoint makes of the record: the same output, at the end of its file.
LEMMA BatchFits ==
    ASSUME RecInv, jobs # <<>>, NEW disk \in BOOLEAN, rec' = Recorder!Batch(disk),
           buffer' = IF disk THEN <<>> ELSE buffer,
           UNCHANGED <<received, part, recovered, elsewhere>>,
           status' \in {"recording", "saving", "error"}
    PROVE  rec' \in RecRecord /\ buffer' \in Seq(Nat) /\ InMemory' = InMemory /\ Fits'
<1>1. /\ rec \in RecRecord /\ buffer \in Seq(Nat) /\ received \in 0 .. MaxOutput
      /\ part \in [Recorder!Part -> Seq(Nat)] /\ Alive
  BY JobRuns DEF RecInv, RecTyped
<1>2. CASE ~disk
  <2>1. rec' = rec /\ buffer' = buffer
    BY <1>2 DEF Recorder!Batch
  <2>2. QED
    BY <1>1, <2>1 DEF RecInv, Fits, InMemory, Alive
<1>3. CASE disk
  <2> DEFINE r == [rec EXCEPT !.pending = rec.pending \o buffer]
  <2>1. rec' = Recorder!Rotated(r) /\ buffer' = <<>>
    BY <1>3 DEF Recorder!Batch
  <2>2. /\ rec.pending \o buffer \in Seq(Nat)
        /\ Len(rec.pending \o buffer) = Len(rec.pending) + Len(buffer)
        /\ Recorder!ToSet(rec.pending \o buffer)
              = Recorder!ToSet(rec.pending) \cup Recorder!ToSet(buffer)
        /\ Len(rec.pending) \in Nat /\ Len(buffer) \in Nat
    BY <1>1, RecFields, SetOfConcat
  <2>3. r \in RecRecord /\ r.part = rec.part /\ r.offset = rec.offset
        /\ r.pending = rec.pending \o buffer
    BY <1>1, <2>2 DEF RecRecord
  <2> HIDE DEF r
  <2>4. /\ rec.part \in Recorder!Part /\ rec.part \in Nat /\ rec.part >= 1 /\ rec.offset \in Nat
        /\ MaxOutput \in Nat /\ received <= MaxOutput /\ received \in Nat
    <3>1. rec.part \in Recorder!Part /\ rec.offset \in Nat
      BY <1>1, RecFields
    <3>2. rec.part \in Nat /\ rec.part >= 1 /\ MaxOutput \in Nat
      BY <3>1, PartNat
    <3>3. QED
      BY <1>1, <3>1, <3>2
  <2>5. /\ rec.part + (IF rec.offset = 0 THEN 0 ELSE 1) + Len(rec.pending) + Len(buffer)
              <= received + 1
        /\ Len(part[rec.part]) = rec.offset
        /\ \A p \in Recorder!Part : p > rec.part => part[p] = <<>>
    BY <1>1 DEF RecInv, Fits
  <2>6. InMemory' = InMemory <=> Recorder!ToSet(rec'.pending) = Recorder!ToSet(r.pending)
    BY <2>1, <2>2, <2>3, SetOfEmpty DEF InMemory
  <2>7. Len(<<>>) = 0 /\ <<>> \in Seq(Nat)
    OBVIOUS
  <2> DEFINE a == Len(rec.pending)
             b == Len(buffer)
  <2>11. /\ rec.part + (IF rec.offset = 0 THEN 0 ELSE 1) + (a + b) + 0 <= received + 1
         /\ rec.offset # 0 => /\ rec.part + 1 <= received + 1
                              /\ rec.part + 1 + 0 + (a + b) + 0 <= received + 1
    <3>1. a \in Nat /\ b \in Nat
      BY <2>2
    <3>2. rec.part + (IF rec.offset = 0 THEN 0 ELSE 1) + a + b <= received + 1
      BY <2>5
    <3> HIDE DEF a, b
    <3>3. QED
      BY <2>4, <3>1, <3>2, RotatedCount
  <2>8. CASE rec' = r
    <3>1. rec'.part + (IF rec'.offset = 0 THEN 0 ELSE 1) + Len(rec'.pending) + Len(buffer')
              <= received + 1
      <4>1. Len(rec'.pending) = a + b /\ Len(buffer') = 0 /\ rec'.part = rec.part
            /\ rec'.offset = rec.offset
        BY <2>1, <2>2, <2>3, <2>7, <2>8
      <4> HIDE DEF a, b
      <4>2. QED
        BY <2>11, <4>1
    <3>2. QED
      BY <2>1, <2>3, <2>5, <2>6, <2>7, <2>8, <3>1 DEF Fits
  <2>9. CASE rec' # r
    <3>1. rec.offset # 0 /\ rec' = [r EXCEPT !.part = r.part + 1, !.offset = 0]
      BY <2>1, <2>3, <2>9 DEF Recorder!Rotated
    <3>2. rec.part + 1 <= MaxOutput + 1 /\ rec.part + 1 \in Nat
      <4> HIDE DEF a, b
      <4>1. rec.part + 1 <= received + 1
        BY <2>11, <3>1
      <4>2. QED
        BY <2>4, <4>1
    <3>3. rec.part + 1 \in Recorder!Part
      BY <2>4, <3>2 DEF Recorder!Part
    <3>4. rec' \in RecRecord /\ rec'.part = rec.part + 1 /\ rec'.offset = 0
          /\ rec'.pending = rec.pending \o buffer
      <4>1. /\ r.part + 1 \in Recorder!Part /\ 0 \in Nat
            /\ rec' = [r EXCEPT !.part = r.part + 1, !.offset = 0]
        BY <2>3, <3>1, <3>3
      <4>2. rec' \in RecRecord /\ rec'.part = r.part + 1 /\ rec'.offset = 0
            /\ rec'.pending = r.pending
        BY <2>3, <4>1 DEF RecRecord
      <4>3. QED
        BY <2>3, <4>2
    <3>5. rec'.part + (IF rec'.offset = 0 THEN 0 ELSE 1) + Len(rec'.pending) + Len(buffer')
              <= received + 1
      <4>1. Len(rec'.pending) = a + b /\ Len(buffer') = 0
        BY <2>1, <2>2, <2>7, <3>4
      <4> HIDE DEF a, b
      <4>2. rec.part + 1 + 0 + (a + b) + 0 <= received + 1
        BY <2>11, <3>1
      <4>3. QED
        BY <3>4, <4>1, <4>2
    <3>6. part[rec.part + 1] = <<>> /\ \A p \in Recorder!Part : p > rec.part + 1 => part[p] = <<>>
      <4>1. \A p \in Recorder!Part : p > rec.part + 1 => p > rec.part
        BY <2>4, PartNat
      <4>2. rec.part + 1 > rec.part
        BY <2>4
      <4>3. QED
        BY <2>5, <3>3, <4>1, <4>2
    <3>7. Fits'
      <4>1. Len(part'[rec'.part]) = rec'.offset
        BY <2>7, <3>4, <3>6
      <4>2. \A p \in Recorder!Part : p > rec'.part => part'[p] = <<>>
        BY <3>4, <3>6
      <4>3. QED
        BY <3>5, <4>1, <4>2 DEF Fits
    <3>8. QED
      BY <2>1, <2>3, <2>6, <2>7, <3>4, <3>7
  <2>10. QED
    BY <2>8, <2>9
<1>4. QED
  BY <1>2, <1>3

LEMMA RecCheckpoint ==
    ASSUME RecInv, NEW disk \in BOOLEAN, NEW ok \in BOOLEAN, Recorder!Checkpoint(disk, ok)
    PROVE  RecInv' /\ Remembers
<1>1. /\ jobs # <<>> /\ stage = "wait" /\ (Head(jobs) = "stop" => disk)
      /\ rec' = Recorder!Batch(disk) /\ buffer' = (IF disk THEN <<>> ELSE buffer)
      /\ UNCHANGED <<received, part, recovered, elsewhere, recovery>>
  BY DEF Recorder!Checkpoint, Recorder!files
<1>2. \/ ~ok /\ Recorder!Fail /\ UNCHANGED cache
      \/ /\ ok /\ cache' = Recorder!Cached(rec', buffer') /\ UNCHANGED <<status, accepting>>
         /\ disk /\ rec'.pending # <<>> /\ stage' = "write" /\ UNCHANGED <<jobs, timer>>
      \/ /\ ok /\ cache' = Recorder!Cached(rec', buffer') /\ UNCHANGED <<status, accepting>>
         /\ ~(disk /\ rec'.pending # <<>>) /\ Recorder!Saved
  BY DEF Recorder!Checkpoint
<1>3. status \in {"recording", "saving", "error"} /\ ~timer
  BY <1>1, JobRuns
<1>4. status' \in {"recording", "saving", "error"}
  BY <1>2, <1>3 DEF Recorder!Fail
<1>5. rec' \in RecRecord /\ buffer' \in Seq(Nat) /\ InMemory' = InMemory /\ Fits'
  BY <1>1, <1>4, BatchFits
<1>6. Recorder!InFiles' = Recorder!InFiles
  BY <1>1, FilesKept
<1>7. CASE ~ok
  <2>1. Recorder!Fail /\ UNCHANGED cache
    BY <1>2, <1>7
  <2>2. RecTyped'
    BY <1>1, <1>5, <2>1 DEF RecInv, RecTyped
  <2>3. JobsShaped' /\ Emptied' /\ status' = "error" /\ ~accepting' /\ ~timer'
    BY <1>1, <2>1, FailShape
  <2>4. QED
    BY <1>1, <1>5, <1>6, <2>1, <2>2, <2>3, JobKeeps
<1>8. CASE ok
  <2>1. cache' = Recorder!Cached(rec', buffer') /\ UNCHANGED <<status, accepting>>
    BY <1>2, <1>8
  <2>2. cache' \in RecRecord /\ InCache' = InMemory'
    <3>1. PICK r \in RecRecord : r = rec'
      BY <1>5
    <3>2. PICK b \in Seq(Nat) : b = buffer'
      BY <1>5
    <3>3. PICK x : x = cache'
      OBVIOUS
    <3>4. x = Recorder!Cached(r, b)
      BY <2>1, <3>1, <3>2, <3>3
    <3>5. /\ x \in RecRecord /\ x # None
          /\ Recorder!ToSet(x.pending) = Recorder!ToSet(r.pending) \cup Recorder!ToSet(b)
      BY <3>4, CachedFields
    <3>6. QED
      BY <3>1, <3>2, <3>3, <3>5 DEF InCache, InMemory
  <2>3. RecTyped'
    BY <1>1, <1>5, <2>2 DEF RecInv, RecTyped
  <2>4. CASE disk /\ rec'.pending # <<>>
    <3>1. stage' = "write" /\ UNCHANGED <<jobs, timer>>
      BY <1>2, <1>8, <2>4
    <3>2. buffer' = <<>>
      BY <1>1, <2>4
    <3>3. JobsShaped' /\ Emptied'
      BY <1>1, <1>3, <2>1, <3>1, <3>2 DEF RecInv, JobsShaped, Emptied
    <3>4. QED
      BY <1>1, <1>3, <1>5, <1>6, <2>1, <2>2, <2>3, <3>1, <3>3, JobKeeps
  <2>5. CASE ~(disk /\ rec'.pending # <<>>)
    <3>1. Recorder!Saved
      BY <1>2, <1>8, <2>5
    <3>2. Head(jobs) = "stop" => buffer' = <<>> /\ rec'.pending = <<>>
      BY <1>1, <2>5
    <3>3. JobsShaped' /\ Emptied' /\ (timer' => accepting)
      BY <1>1, <2>1, <3>1, <3>2, SavedShape
    <3>4. QED
      BY <1>1, <1>5, <1>6, <2>1, <2>2, <2>3, <3>3, JobKeeps
  <2>6. QED
    BY <2>4, <2>5
<1>9. QED
  BY <1>7, <1>8

LEMMA WrittenBehind ==
    ASSUME NEW s \in Seq(Nat), NEW t \in Seq(Nat)
    PROVE  Recorder!Written(s, Len(s), t) = s \o t
<1> DEFINE o == Len(s)
           k == o + Len(t) + 1
<1>1. o \in Nat /\ Len(t) \in Nat
  BY LenProperties
<1>2. SubSeq(s, 1, o) = s
  BY SubSeqFull
<1>3. SubSeq(s, k, o) = <<>>
  <2>1. k \in Int /\ o \in Int /\ o < k
    BY <1>1
  <2> HIDE DEF k, o
  <2>2. QED
    BY <2>1, SubSeqEmpty
<1>4. (s \o t) \o <<>> = s \o t
  BY SetOfConcat, ConcatEmptySeq
<1>5. QED
  BY <1>2, <1>3, <1>4 DEF Recorder!Written

LEMMA WrittenCount ==
    ASSUME NEW p \in Nat, NEW o \in Nat, NEW x \in Nat, NEW y \in Nat, NEW n \in Nat,
           p + (IF o = 0 THEN 0 ELSE 1) + x + y <= n + 1
    PROVE  p + (IF o + x = 0 THEN 0 ELSE 1) + 0 + y <= n + 1
  OBVIOUS

LEMMA RecWrite ==
    ASSUME RecInv, Recorder!WritePending
    PROVE  RecInv' /\ Remembers
<1>1. /\ stage = "write" /\ rec' = Recorder!Progressed(rec) /\ stage' = "persist"
      /\ part' = [part EXCEPT ![rec.part]
                     = Recorder!Written(part[rec.part], rec.offset, rec.pending)]
      /\ UNCHANGED <<received, status, accepting, timer, jobs, buffer, cache, recovered,
                     elsewhere, recovery>>
  BY DEF Recorder!WritePending
<1>2. jobs # <<>>
  BY <1>1 DEF RecInv, JobsShaped
<1>3. /\ status \in {"recording", "saving", "error"} /\ Alive
      /\ rec \in RecRecord /\ buffer \in Seq(Nat) /\ part \in [Recorder!Part -> Seq(Nat)]
      /\ received \in 0 .. MaxOutput
  BY <1>2, JobRuns DEF RecInv, RecTyped
<1>4. /\ rec.part \in Recorder!Part /\ rec.offset \in Nat /\ rec.pending \in Seq(Nat)
      /\ part[rec.part] \in Seq(Nat)
      /\ Len(rec.pending) \in Nat /\ Len(buffer) \in Nat /\ Len(<<>>) = 0 /\ <<>> \in Seq(Nat)
  <2>1. rec.part \in Recorder!Part /\ rec.offset \in Nat /\ rec.pending \in Seq(Nat)
    BY <1>3, RecFields
  <2>2. QED
    BY <1>3, <2>1, LenProperties
<1>5. rec.part \in Nat /\ MaxOutput \in Nat /\ received \in Nat
  BY <1>3, <1>4, PartNat
<1>6. /\ rec.part + (IF rec.offset = 0 THEN 0 ELSE 1) + Len(rec.pending) + Len(buffer)
              <= received + 1
      /\ Len(part[rec.part]) = rec.offset
      /\ \A p \in Recorder!Part : p > rec.part => part[p] = <<>>
  BY <1>3 DEF RecInv, Fits
<1>7. part' = [part EXCEPT ![rec.part] = part[rec.part] \o rec.pending]
  BY <1>1, <1>4, <1>6, WrittenBehind
<1>8. /\ part' \in [Recorder!Part -> Seq(Nat)]
      /\ Recorder!InFiles \subseteq Recorder!InFiles'
      /\ Recorder!ToSet(rec.pending) \subseteq Recorder!InFiles'
  <2>1. RecTyped
    BY DEF RecInv
  <2>2. PICK p \in Recorder!Part : p = rec.part
    BY <1>4
  <2>3. PICK t \in Seq(Nat) : t = rec.pending
    BY <1>4
  <2>4. part' = [part EXCEPT ![p] = part[p] \o t] /\ UNCHANGED <<recovered, elsewhere>>
    BY <1>1, <1>7, <2>2, <2>3
  <2>5. QED
    BY <2>1, <2>2, <2>3, <2>4, PartGrows
<1>9. /\ rec' \in RecRecord /\ rec'.part = rec.part /\ rec'.pending = <<>>
      /\ rec'.offset = rec.offset + Len(rec.pending)
  <2>1. rec' = [rec EXCEPT !.offset = rec.offset + Len(rec.pending), !.pending = <<>>]
    BY <1>1 DEF Recorder!Progressed
  <2>2. rec.offset + Len(rec.pending) \in Nat
    BY <1>4
  <2>3. QED
    BY <1>3, <1>4, <2>1, <2>2 DEF RecRecord
<1>10. RecTyped'
  BY <1>1, <1>8, <1>9 DEF RecInv, RecTyped
<1>11. JobsShaped' /\ Emptied'
  <2>1. jobs = <<"stop">> => buffer = <<>>
    BY <1>1 DEF RecInv, Emptied
  <2>2. QED
    BY <1>1, <1>9, <2>1 DEF RecInv, JobsShaped, Emptied
<1>12. Fits'
  <2>1. rec.part + (IF rec.offset + Len(rec.pending) = 0 THEN 0 ELSE 1) + 0 + Len(buffer)
            <= received + 1
    <3>1. \A p, o, x, y, n \in Nat : p + (IF o = 0 THEN 0 ELSE 1) + x + y <= n + 1
              => p + (IF o + x = 0 THEN 0 ELSE 1) + 0 + y <= n + 1
      BY WrittenCount
    <3>2. QED
      BY <1>4, <1>5, <1>6, <3>1
  <2>2. rec'.part + (IF rec'.offset = 0 THEN 0 ELSE 1) + Len(rec'.pending) + Len(buffer')
            <= received' + 1
    BY <1>1, <1>4, <1>9, <2>1
  <2>3. Len(part'[rec.part]) = rec.offset + Len(rec.pending)
    <3>1. Len(part[rec.part] \o rec.pending) = rec.offset + Len(rec.pending)
      BY <1>4, <1>6, SetOfConcat
    <3>2. part'[rec.part] = part[rec.part] \o rec.pending
      BY <1>3, <1>4, <1>7
    <3>3. QED
      BY <3>1, <3>2
  <2>4. \A p \in Recorder!Part : p > rec.part => part'[p] = <<>>
    <3>1. \A p \in Recorder!Part : p # rec.part => part'[p] = part[p]
      BY <1>3, <1>7
    <3>2. \A p \in Recorder!Part : p > rec.part => p # rec.part
      BY <1>5, PartNat
    <3>3. QED
      BY <1>6, <3>1, <3>2
  <2>5. QED
    BY <1>1, <1>9, <2>2, <2>3, <2>4 DEF Fits
<1>13. InMemory \subseteq Recorder!InFiles' \cup InMemory'
  BY <1>1, <1>8 DEF InMemory
<1>14. UNCHANGED <<status, accepting>> /\ (timer' => accepting)
  <2>1. ~timer
    BY <1>2, JobRuns
  <2>2. QED
    BY <1>1, <2>1
<1>15. QED
  BY <1>1, <1>2, <1>8, <1>10, <1>11, <1>12, <1>13, <1>14, JobKeeps

\* A step that fails: memory and files stay as they are.
LEMMA RecFails ==
    ASSUME RecInv, jobs # <<>>, Recorder!Fail,
           UNCHANGED <<received, rec, buffer, cache, part, recovered, elsewhere, recovery>>
    PROVE  RecInv' /\ Remembers
<1>1. JobsShaped' /\ Emptied' /\ status' = "error" /\ ~accepting' /\ ~timer'
  BY FailShape
<1>2. RecTyped'
  BY DEF RecInv, RecTyped
<1>3. Fits'
  BY JobRuns DEF RecInv, Fits
<1>4. Recorder!InFiles' = Recorder!InFiles /\ InMemory' = InMemory
  BY FilesKept DEF InMemory
<1>5. QED
  BY <1>1, <1>2, <1>3, <1>4, JobKeeps

LEMMA RecWriteFails ==
    ASSUME RecInv, Recorder!WriteFails
    PROVE  RecInv' /\ Remembers
<1>1. /\ stage = "write" /\ Recorder!Fail
      /\ UNCHANGED <<received, rec, buffer, cache, part, recovered, elsewhere, recovery>>
  BY DEF Recorder!WriteFails
<1>2. jobs # <<>>
  BY <1>1 DEF RecInv, JobsShaped
<1>3. QED
  BY <1>1, <1>2, RecFails

LEMMA RecProgress ==
    ASSUME RecInv, NEW ok \in BOOLEAN, Recorder!PersistProgress(ok)
    PROVE  RecInv' /\ Remembers
<1>1. /\ stage = "persist"
      /\ UNCHANGED <<received, rec, buffer, part, recovered, elsewhere, recovery>>
  BY DEF Recorder!PersistProgress, Recorder!files
<1>2. jobs # <<>>
  BY <1>1 DEF RecInv, JobsShaped
<1>3. CASE ~ok
  <2>1. Recorder!Fail /\ UNCHANGED cache
    BY <1>3 DEF Recorder!PersistProgress
  <2>2. QED
    BY <1>1, <1>2, <2>1, RecFails
<1>4. CASE ok
  <2>1. cache' = Recorder!Cached(rec, buffer) /\ Recorder!Saved /\ UNCHANGED <<status, accepting>>
    BY <1>4 DEF Recorder!PersistProgress
  <2>2. cache' \in RecRecord /\ InCache' = InMemory
    BY <2>1, CachedKnown DEF RecInv
  <2>3. RecTyped'
    BY <1>1, <2>2 DEF RecInv, RecTyped
  <2>4. Head(jobs) = "stop" => buffer' = <<>> /\ rec'.pending = <<>>
    <3>1. rec.pending = <<>> /\ (jobs = <<"stop">> => buffer = <<>>)
      BY <1>1 DEF RecInv, Emptied
    <3>2. Head(jobs) = "stop" => jobs = <<"stop">>
      BY <1>2, JobsTable DEF RecInv, JobsShaped
    <3>3. QED
      BY <1>1, <3>1, <3>2
  <2>5. JobsShaped' /\ Emptied' /\ (timer' => accepting)
    BY <1>1, <1>2, <2>1, <2>4, SavedShape
  <2>6. Fits'
    BY <1>1, <1>2, JobRuns DEF RecInv, Fits
  <2>7. Recorder!InFiles' = Recorder!InFiles /\ InMemory' = InMemory
    BY <1>1, FilesKept DEF InMemory
  <2>8. QED
    BY <1>1, <1>2, <2>1, <2>2, <2>3, <2>5, <2>6, <2>7, JobKeeps
<1>5. QED
  BY <1>3, <1>4

LEMMA RecRemove ==
    ASSUME RecInv, NEW ok \in BOOLEAN, Recorder!RemoveRecord(ok)
    PROVE  RecInv' /\ Remembers
<1>1. /\ stage = "remove"
      /\ UNCHANGED <<received, rec, buffer, part, recovered, elsewhere, recovery>>
  BY DEF Recorder!RemoveRecord, Recorder!files
<1>2. jobs = <<"stop">> /\ jobs # <<>>
  BY <1>1, JobsTable DEF RecInv, JobsShaped
<1>3. CASE ~ok
  <2>1. Recorder!Fail /\ UNCHANGED cache
    BY <1>3 DEF Recorder!RemoveRecord
  <2>2. QED
    BY <1>1, <1>2, <2>1, RecFails
<1>4. CASE ok
  <2>1. /\ cache' = None /\ status' = "stopped" /\ jobs' = Tail(jobs) /\ stage' = "wait"
        /\ UNCHANGED <<accepting, timer>>
    BY <1>4 DEF Recorder!RemoveRecord
  <2>2. jobs' = <<>> /\ ~accepting /\ ~timer
    BY <1>2, <2>1, JobRuns, JobsTable DEF RecInv, JobsShaped
  <2>3. Recorder!InFiles' = Recorder!InFiles
    BY <1>1, FilesKept
  <2>4. Known \subseteq Recorder!InFiles
    <3>1. rec.pending = <<>> /\ buffer = <<>>
      BY <1>1, <1>2 DEF RecInv, Emptied
    <3>2. InMemory = {}
      BY <3>1, SetOfEmpty DEF InMemory
    <3>3. Known \subseteq Recorder!InFiles \cup InMemory
      BY <1>2, JobRuns
    <3>4. QED
      BY <3>2, <3>3
  <2>5. RecTyped'
    BY <1>1, <2>1 DEF RecInv, RecTyped
  <2>6. JobsShaped' /\ Emptied'
    BY <2>1, <2>2, JobsTable DEF RecInv, JobsShaped, Emptied
  <2>7. Fits'
    BY <2>1 DEF Fits, Alive
  <2>8. Kept'
    BY <1>1, <2>1, <2>3, <2>4 DEF Kept, Alive, Known
  <2>9. Recovering'
    <3>1. recovery.by # "menu" /\ recovery.stage # "written"
      BY <1>2, JobRuns
    <3>2. QED
      BY <1>1, <2>1, <2>2, <3>1 DEF Recovering
  <2>10. Remembers
    BY <2>3, <2>4, RememberBy DEF Known
  <2>11. QED
    BY <2>5, <2>6, <2>7, <2>8, <2>9, <2>10 DEF RecInv
<1>5. QED
  BY <1>3, <1>4

LEMMA RecEndFail ==
    ASSUME RecInv, NEW ok \in BOOLEAN, Recorder!EndFail(ok)
    PROVE  RecInv' /\ Remembers
<1>1. /\ stage = "fail" /\ jobs' = Tail(jobs) /\ stage' = "wait"
      /\ cache' = (IF ok THEN Recorder!Cached(rec, buffer) ELSE cache)
      /\ UNCHANGED <<received, rec, buffer, status, accepting, timer, part, recovered, elsewhere,
                     recovery>>
  BY DEF Recorder!EndFail, Recorder!files
<1>2. jobs # <<>>
  BY <1>1 DEF RecInv, JobsShaped
<1>3. ~timer /\ status \in {"recording", "saving", "error"}
  BY <1>2, JobRuns
<1>4. cache' \in RecRecord \cup {None} /\ (UNCHANGED cache \/ InCache' = InMemory)
  <2>1. CASE ok
    BY <1>1, <2>1, CachedKnown DEF RecInv
  <2>2. CASE ~ok
    BY <1>1, <2>2 DEF RecInv, RecTyped
  <2>3. QED
    BY <2>1, <2>2
<1>5. RecTyped'
  BY <1>1, <1>4 DEF RecInv, RecTyped
<1>6. jobs' = <<>> \/ (jobs = <<"save", "stop">> /\ jobs' = <<"stop">>)
  BY <1>1, <1>2, JobsTable DEF RecInv, JobsShaped
<1>7. JobsShaped'
  BY <1>1, <1>3, <1>6, JobsTable DEF RecInv, JobsShaped
<1>8. Emptied'
  BY <1>1 DEF Emptied
<1>9. Fits'
  BY <1>1, <1>3 DEF RecInv, Fits, Alive
<1>10. Recorder!InFiles' = Recorder!InFiles /\ InMemory' = InMemory
  BY <1>1, FilesKept DEF InMemory
<1>11. QED
  BY <1>1, <1>2, <1>3, <1>4, <1>5, <1>7, <1>8, <1>9, <1>10, JobKeeps

LEMMA RecBegin ==
    ASSUME RecInv, Recorder!BeginSavePending \/ Recorder!BeginRecoverCached
    PROVE  RecInv' /\ Remembers
<1>1. /\ UNCHANGED <<received, accepting, timer, jobs, stage, rec, buffer, status, cache, part,
                     recovered, elsewhere>>
      /\ \/ /\ status = "error" /\ ~timer
            /\ recovery' = [Recorder!Idle EXCEPT !.by = "recorder", !.stage = "begun"]
         \/ /\ status \in {"dead", "stopped"} /\ cache # None
            /\ recovery' = [Recorder!Idle EXCEPT !.by = "menu", !.stage = "begun"]
  BY DEF Recorder!BeginSavePending, Recorder!BeginRecoverCached, Recorder!memory, Recorder!files
<1>2. /\ recovery' \in [by : {"nobody", "recorder", "menu"},
                        stage : {"none", "begun", "written"}, beside : BOOLEAN]
      /\ recovery'.stage = "begun"
      /\ \/ status = "error" /\ ~timer /\ recovery'.by = "recorder"
         \/ status \in {"dead", "stopped"} /\ cache # None /\ recovery'.by = "menu"
  BY <1>1 DEF Recorder!Idle
<1>3. RecTyped' /\ JobsShaped' /\ Emptied' /\ Fits'
  BY <1>1, <1>2 DEF RecInv, RecTyped, JobsShaped, Emptied, Fits, Alive
<1>4. /\ Recorder!InFiles' = Recorder!InFiles /\ InMemory' = InMemory /\ InCache' = InCache
      /\ Known' = Known
  BY <1>1, FilesKept DEF InMemory, InCache, Known
<1>5. Kept'
  BY <1>1, <1>4 DEF RecInv, Kept, Alive
<1>6. Recovering'
  <2>1. CASE status = "error" /\ ~timer /\ recovery'.by = "recorder"
    <3>1. ~accepting
      BY <2>1 DEF RecInv, JobsShaped
    <3>2. QED
      BY <1>1, <1>2, <2>1, <3>1 DEF Recovering
  <2>2. CASE status \in {"dead", "stopped"} /\ cache # None /\ recovery'.by = "menu"
    <3>1. status = "dead"
      BY <2>2 DEF RecInv, Kept
    <3>2. QED
      BY <1>1, <1>2, <2>2, <3>1 DEF Recovering
  <2>3. QED
    BY <1>2, <2>1, <2>2
<1>7. Remembers
  BY <1>4, RememberBy
<1>8. QED
  BY <1>3, <1>5, <1>6, <1>7 DEF RecInv

\* A recovery that has written changes nothing but the files.
LEMMA RecWritten ==
    ASSUME RecInv, NEW r \in RecRecord, NEW b \in BOOLEAN, Recorder!WriteRecovery(r, b),
           recovery.by \in {"recorder", "menu"},
           recovery.by = "recorder" =>
               jobs = <<>> /\ Known \subseteq Recorder!InFiles \cup Recorder!ToSet(r.pending),
           recovery.by = "menu" => InCache \subseteq Recorder!ToSet(r.pending)
    PROVE  RecInv' /\ Remembers
<1>1. /\ RecTyped' /\ recovery'.by = recovery.by /\ recovery'.stage = "written"
      /\ Recorder!InFiles \subseteq Recorder!InFiles'
      /\ Recorder!ToSet(r.pending) \subseteq Recorder!InFiles'
      /\ UNCHANGED <<received, accepting, timer, jobs, stage, rec, buffer, status, cache, part>>
  BY RecoveryWrites DEF RecInv
<1>2. JobsShaped' /\ Emptied' /\ Fits'
  BY <1>1 DEF RecInv, JobsShaped, Emptied, Fits, Alive
<1>3. InMemory' = InMemory /\ InCache' = InCache /\ Known' = Known
  BY <1>1 DEF InMemory, InCache, Known
<1>4. Kept'
  <2>1. Alive => Known' \subseteq Recorder!InFiles' \cup InMemory'
    BY <1>1, <1>3 DEF RecInv, Kept
  <2>2. status = "stopped" => 1 .. received \subseteq Recorder!InFiles'
    BY <1>1 DEF RecInv, Kept
  <2>3. QED
    BY <1>1, <2>1, <2>2 DEF RecInv, Kept, Alive
<1>5. Recovering'
  <2>1. CASE recovery.by = "recorder"
    <3>1. jobs = <<>> /\ Known' \subseteq Recorder!InFiles'
      BY <1>1, <1>3, <2>1
    <3>2. QED
      BY <1>1, <2>1, <3>1 DEF RecInv, Recovering
  <2>2. CASE recovery.by = "menu"
    <3>1. InCache' \subseteq Recorder!InFiles'
      BY <1>1, <1>3, <2>2
    <3>2. QED
      BY <1>1, <2>2, <3>1 DEF RecInv, Recovering
  <2>3. QED
    BY <2>1, <2>2
<1>6. Remembers
  BY <1>1, <1>3, RememberBy
<1>7. QED
  BY <1>1, <1>2, <1>4, <1>5, <1>6 DEF RecInv

LEMMA RecSavePending ==
    ASSUME RecInv, NEW b \in BOOLEAN, Recorder!SavePending(b)
    PROVE  RecInv' /\ Remembers
<1>1. /\ recovery.by = "recorder" /\ jobs = <<>>
      /\ Recorder!WriteRecovery(Recorder!Cached(rec, buffer), b)
  BY DEF Recorder!SavePending
<1>2. rec \in RecRecord /\ buffer \in Seq(Nat)
  BY DEF RecInv, RecTyped
<1>3. PICK r : r = Recorder!Cached(rec, buffer)
  OBVIOUS
<1>4. r \in RecRecord /\ Recorder!ToSet(r.pending) = InMemory
  BY <1>2, <1>3, CachedFields DEF InMemory
<1>5. Recorder!WriteRecovery(r, b)
  BY <1>1, <1>3
<1>6. Known \subseteq Recorder!InFiles \cup Recorder!ToSet(r.pending)
  <2>1. status \in {"error", "stopped"}
    BY <1>1 DEF RecInv, Recovering
  <2>2. CASE status = "error"
    BY <1>4, <2>2 DEF RecInv, Kept, Alive
  <2>3. CASE status = "stopped"
    BY <2>3 DEF RecInv, Kept, Known, InCache
  <2>4. QED
    BY <2>1, <2>2, <2>3
<1>7. QED
  BY <1>1, <1>4, <1>5, <1>6, RecWritten

LEMMA RecRecoverCached ==
    ASSUME RecInv, NEW b \in BOOLEAN, Recorder!RecoverCached(b)
    PROVE  RecInv' /\ Remembers
<1>1. recovery.by = "menu" /\ Recorder!WriteRecovery(cache, b)
  BY DEF Recorder!RecoverCached
<1>2. cache # None /\ cache \in RecRecord
  BY <1>1 DEF RecInv, Recovering, RecTyped
<1>3. PICK r \in RecRecord : r = cache
  BY <1>2
<1>4. Recorder!WriteRecovery(r, b) /\ InCache = Recorder!ToSet(r.pending)
  BY <1>1, <1>2, <1>3 DEF InCache
<1>5. QED
  BY <1>1, <1>4, RecWritten

LEMMA RecFinish ==
    ASSUME RecInv, Recorder!FinishRecovery
    PROVE  RecInv' /\ Remembers
<1>1. /\ recovery.stage = "written" /\ cache' = None /\ recovery' = Recorder!Idle
      /\ IF recovery.by = "recorder"
         THEN /\ status' = "stopped" /\ rec' = [rec EXCEPT !.pending = <<>>] /\ buffer' = <<>>
         ELSE UNCHANGED <<status, rec, buffer>>
      /\ UNCHANGED <<received, accepting, timer, jobs, stage, part, recovered, elsewhere>>
  BY DEF Recorder!FinishRecovery, Recorder!files
<1>2. /\ Recorder!InFiles' = Recorder!InFiles /\ InCache' = {}
      /\ Known' = 1 .. received
  BY <1>1, FilesKept DEF InCache, Known
<1>3. recovery.by \in {"recorder", "menu"}
  BY <1>1 DEF RecInv, RecTyped, Recovering
<1>4. /\ recovery'.by = "nobody" /\ recovery'.stage = "none"
      /\ recovery' \in [by : {"nobody", "recorder", "menu"},
                        stage : {"none", "begun", "written"}, beside : BOOLEAN]
  BY <1>1, IdleFields
<1>5. Recovering'
  BY <1>4 DEF Recovering
<1>6. CASE recovery.by = "recorder"
  <2>1. /\ status \in {"error", "stopped"} /\ ~accepting /\ ~timer /\ jobs = <<>>
        /\ Known \subseteq Recorder!InFiles
    BY <1>1, <1>6 DEF RecInv, Recovering
  <2>2. /\ status' = "stopped" /\ rec' = [rec EXCEPT !.pending = <<>>] /\ buffer' = <<>>
    BY <1>1, <1>6
  <2>3. rec' \in RecRecord
    <3>1. rec \in RecRecord /\ <<>> \in Seq(Nat)
      BY DEF RecInv, RecTyped
    <3>2. QED
      BY <2>2, <3>1 DEF RecRecord
  <2>4. RecTyped'
    BY <1>1, <1>4, <2>2, <2>3 DEF RecInv, RecTyped
  <2>5. stage = "wait"
    BY <2>1 DEF RecInv, JobsShaped
  <2>6. JobsShaped' /\ Emptied'
    BY <1>1, <2>1, <2>2, <2>5, JobsTable DEF RecInv, JobsShaped, Emptied
  <2>7. Fits'
    BY <2>2 DEF Fits, Alive
  <2>8. Kept'
    BY <1>1, <1>2, <2>1, <2>2 DEF Kept, Alive, Known
  <2>9. Remembers
    BY <1>2, <2>1, RememberBy DEF Known
  <2>10. QED
    BY <1>5, <2>4, <2>6, <2>7, <2>8, <2>9 DEF RecInv
<1>7. CASE recovery.by = "menu"
  <2>1. status = "dead" /\ InCache \subseteq Recorder!InFiles
    BY <1>1, <1>7 DEF RecInv, Recovering
  <2>2. UNCHANGED <<status, rec, buffer>>
    BY <1>1, <1>7
  <2>3. RecTyped' /\ JobsShaped' /\ Emptied' /\ Fits' /\ Kept'
    BY <1>1, <1>4, <2>1, <2>2 DEF RecInv, RecTyped, JobsShaped, Emptied, Fits, Kept, Alive
  <2>4. Remembers
    BY <1>2, <2>1, RememberBy
  <2>5. QED
    BY <1>5, <2>3, <2>4 DEF RecInv
<1>8. QED
  BY <1>3, <1>6, <1>7

LEMMA RecAbandon ==
    ASSUME RecInv, Recorder!AbandonRecovery
    PROVE  RecInv' /\ Remembers
<1>1. /\ recovery' = Recorder!Idle
      /\ UNCHANGED <<received, accepting, timer, jobs, stage, rec, buffer, status, cache, part,
                     recovered, elsewhere>>
  BY DEF Recorder!AbandonRecovery, Recorder!memory, Recorder!files
<1>2. /\ recovery'.by = "nobody" /\ recovery'.stage = "none"
      /\ recovery' \in [by : {"nobody", "recorder", "menu"},
                        stage : {"none", "begun", "written"}, beside : BOOLEAN]
  BY <1>1, IdleFields
<1>3. RecTyped' /\ JobsShaped' /\ Emptied' /\ Fits'
  BY <1>1, <1>2 DEF RecInv, RecTyped, JobsShaped, Emptied, Fits, Alive
<1>4. /\ Recorder!InFiles' = Recorder!InFiles /\ InMemory' = InMemory /\ InCache' = InCache
      /\ Known' = Known
  BY <1>1, FilesKept DEF InMemory, InCache, Known
<1>5. Kept' /\ Recovering' /\ Remembers
  BY <1>1, <1>2, <1>4, RememberBy DEF RecInv, Kept, Alive, Recovering
<1>6. QED
  BY <1>3, <1>5 DEF RecInv

LEMMA FreshFields == Recorder!Fresh \in RecRecord /\ Recorder!Fresh.part = 1
                     /\ Recorder!Fresh.offset = 0 /\ Recorder!Fresh.pending = <<>>
                     /\ 1 \in Recorder!Part
<1>1. 1 \in Recorder!Part
  BY RecorderHolds DEF Recorder!Part, Recorder!RecorderBounds
<1>2. QED
  BY <1>1 DEF Recorder!Fresh, RecRecord

LEMMA RecCrash ==
    ASSUME RecInv, Recorder!Crash
    PROVE  RecInv' /\ Remembers
<1>1. /\ status' = "dead" /\ accepting' = FALSE /\ timer' = FALSE
      /\ jobs' = <<>> /\ stage' = "wait" /\ rec' = Recorder!Fresh /\ buffer' = <<>>
      /\ recovery' = (IF recovery.by = "recorder" THEN Recorder!Idle ELSE recovery)
      /\ status # "dead"
      /\ UNCHANGED <<received, cache, part, recovered, elsewhere>>
  BY DEF Recorder!Crash, Recorder!files
<1>2. /\ recovery'.by = "nobody" /\ recovery'.stage # "written"
      /\ recovery' \in [by : {"nobody", "recorder", "menu"},
                        stage : {"none", "begun", "written"}, beside : BOOLEAN]
  BY <1>1, IdleFields DEF RecInv, RecTyped, Recovering
<1>3. RecTyped'
  BY <1>1, <1>2, FreshFields DEF RecInv, RecTyped
<1>4. JobsShaped' /\ Emptied' /\ Fits' /\ Kept' /\ Recovering'
  BY <1>1, <1>2, JobsTable DEF JobsShaped, Emptied, Fits, Kept, Alive, Recovering
<1>5. Recorder!InFiles' = Recorder!InFiles /\ InCache' = InCache
  BY <1>1, FilesKept DEF InCache
<1>6. Remembers
  BY <1>5, RememberBy
<1>7. QED
  BY <1>3, <1>4, <1>6 DEF RecInv

LEMMA RecInit ==
    ASSUME Recorder!Init
    PROVE  RecInv
<1>1. /\ received = 0 /\ status = "idle" /\ accepting = FALSE /\ timer = FALSE
      /\ jobs = <<>> /\ stage = "wait" /\ rec = Recorder!Fresh /\ buffer = <<>> /\ cache = None
      /\ part = [p \in Recorder!Part |-> <<>>] /\ recovered = <<>> /\ elsewhere = {}
      /\ recovery = Recorder!Idle
  BY DEF Recorder!Init
<1>2. MaxOutput \in Nat
  BY RecorderHolds DEF Recorder!RecorderBounds
<1>3. RecTyped
  BY <1>1, <1>2, FreshFields, IdleFields DEF RecTyped
<1>4. JobsShaped /\ Emptied /\ Recovering
  BY <1>1, IdleFields, JobsTable DEF JobsShaped, Emptied, Recovering
<1>5. Fits
  <2>1. Len(<<>>) = 0
    OBVIOUS
  <2>2. rec.part = 1 /\ rec.offset = 0 /\ Len(rec.pending) = 0 /\ Len(buffer) = 0
        /\ part[rec.part] = <<>> /\ \A p \in Recorder!Part : part[p] = <<>>
    BY <1>1, <2>1, FreshFields
  <2>3. QED
    BY <1>1, <2>1, <2>2 DEF Fits
<1>6. Kept
  BY <1>1 DEF Kept, Known, InCache
<1>7. QED
  BY <1>3, <1>4, <1>5, <1>6 DEF RecInv

LEMMA RecStep ==
    ASSUME RecInv, [Recorder!Next]_recorderVars
    PROVE  RecInv' /\ Remembers
<1>1. CASE Recorder!Start \/ Recorder!Receive \/ Recorder!TimerFires \/ Recorder!Stop
  BY <1>1, RecStart, RecReceive, RecTimer
<1>2. CASE Recorder!JobStep
  <2>1. CASE \E disk, ok \in BOOLEAN : Recorder!Checkpoint(disk, ok)
    BY <2>1, RecCheckpoint
  <2>2. CASE Recorder!WritePending \/ Recorder!WriteFails
    BY <2>2, RecWrite, RecWriteFails
  <2>3. CASE \E ok \in BOOLEAN : \/ Recorder!PersistProgress(ok)
                                 \/ Recorder!RemoveRecord(ok)
                                 \/ Recorder!EndFail(ok)
    BY <2>3, RecProgress, RecRemove, RecEndFail
  <2>4. QED
    BY <1>2, <2>1, <2>2, <2>3 DEF Recorder!JobStep
<1>3. CASE Recorder!RecoveryStep
  <2>1. CASE Recorder!BeginSavePending \/ Recorder!BeginRecoverCached
    BY <2>1, RecBegin
  <2>2. CASE \E b \in BOOLEAN : Recorder!SavePending(b) \/ Recorder!RecoverCached(b)
    BY <2>2, RecSavePending, RecRecoverCached
  <2>3. CASE Recorder!FinishRecovery \/ Recorder!AbandonRecovery
    BY <2>3, RecFinish, RecAbandon
  <2>4. QED
    BY <1>3, <2>1, <2>2, <2>3 DEF Recorder!RecoveryStep
<1>4. CASE Recorder!Crash
  BY <1>4, RecCrash
<1>5. CASE UNCHANGED recorderVars
  <2>1. UNCHANGED <<received, status, accepting, timer, jobs, stage, rec, buffer, cache, part,
                    recovered, elsewhere, recovery>>
    BY <1>5 DEF recorderVars
  <2>2. RecTyped' /\ JobsShaped' /\ Emptied' /\ Fits'
    BY <2>1 DEF RecInv, RecTyped, JobsShaped, Emptied, Fits, Alive
  <2>3. /\ Recorder!InFiles' = Recorder!InFiles /\ InMemory' = InMemory /\ InCache' = InCache
        /\ Known' = Known
    BY <2>1, FilesKept DEF InMemory, InCache, Known
  <2>4. Kept' /\ Recovering' /\ Remembers
    BY <2>1, <2>3, RememberBy DEF RecInv, Kept, Alive, Recovering
  <2>5. QED
    BY <2>2, <2>4 DEF RecInv
<1>6. QED
  BY <1>1, <1>2, <1>3, <1>4, <1>5 DEF Recorder!Next

LEMMA RecorderStep ==
    ASSUME RecInv, [Next]_<<focus, recorderVars, sessionVars, overviewVars>>
    PROVE  RecInv' /\ Remembers
<1>1. [Recorder!Next]_recorderVars
  BY DEF Next
<1>2. QED
  BY <1>1, RecStep

LEMMA RecorderAlways == Spec => []RecInv
<1>1. Init => RecInv
  BY RecInit DEF Init
<1>2. RecInv /\ [Next]_<<focus, recorderVars, sessionVars, overviewVars>> => RecInv'
  BY RecorderStep
<1>3. QED
  BY <1>1, <1>2, PTL DEF Spec

\* "Stopped and saved" is true: nothing accepted is then in memory or in the cache only,
\* whether the recorder's own stop or a recovery brought it there.
THEOREM StoppedIsSavedAlways == Spec => []StoppedIsSaved
<1>1. RecInv => StoppedIsSaved
  BY DEF RecInv, Kept, StoppedIsSaved, Recorder!StoppedIsSaved
<1>2. QED
  BY <1>1, RecorderAlways, PTL

\* Output that was once cached or in a file is never lost again: not by a rotation, a
\* write retried after a failure, a cache updated behind the file, a recovery's end or a
\* crash anywhere in between, for any number of outputs, files and recoveries.
THEOREM NeverForgottenAlways == Spec => NeverForgotten
<1>1. RecInv /\ [Next]_<<focus, recorderVars, sessionVars, overviewVars>>
        => [Recorder!Durable \subseteq Recorder!Durable']_(Recorder!vars)
  BY RecorderStep DEF Remembers
<1>2. QED
  BY <1>1, RecorderAlways, PTL DEF Spec, NeverForgotten, Recorder!NeverForgotten

-----------------------------------------------------------------------------
(* The overview *)

FetchRecord ==
    [selection : Cards!Selection, by : {"effect", "button", "poll", "action"},
     order : Nat \cup {Unread}]

ShownRecord == [selection : Cards!Selection, order : Nat]

MoveRecord == [pc : {"no", "put", "saved"}, order : Nat, before : Nat]

\* A card is moved only where cards are shown.
CardsInv ==
    /\ selection \in Cards!Selection /\ overview \in ShownRecord \cup {Unread}
    /\ waiting \in BOOLEAN /\ polling \in BOOLEAN /\ interacting \in BOOLEAN
    /\ dragging \in BOOLEAN /\ fetches \subseteq FetchRecord /\ moved \in MoveRecord
    /\ action \in Cards!Selection \cup {Unread}
    /\ saved \in Nat /\ moves \in Nat /\ changes \in Nat /\ failures \in Nat
    /\ dragging \/ moved # Cards!Still => overview \in ShownRecord

LEMMA FetchFields ==
    ASSUME NEW f \in FetchRecord
    PROVE  /\ f.selection \in Cards!Selection /\ f.order \in Nat \cup {Unread}
           /\ f.by \in {"effect", "button", "poll", "action"}
           /\ \A n \in Nat : [f EXCEPT !.order = n] \in FetchRecord
  BY DEF FetchRecord

LEMMA ShownFields ==
    ASSUME NEW r \in ShownRecord
    PROVE  /\ r.selection \in Cards!Selection /\ r.order \in Nat
           /\ \A n \in Nat : [r EXCEPT !.order = n] \in ShownRecord
  BY DEF ShownRecord

LEMMA MoveFields ==
    ASSUME NEW m \in MoveRecord
    PROVE  /\ m.order \in Nat /\ m.before \in Nat
           /\ [m EXCEPT !.pc = "saved"] \in MoveRecord
  BY DEF MoveRecord

LEMMA StillFields == Cards!Still \in MoveRecord
  BY DEF Cards!Still, MoveRecord

LEMMA PageTurned ==
    ASSUME NEW s \in Cards!Selection, NEW t \in Cards!Selection
    PROVE  [s EXCEPT !.page = t.page] \in Cards!Selection
  BY DEF Cards!Selection

LEMMA Fetched ==
    ASSUME NEW s \in Cards!Selection, NEW by \in {"effect", "button", "poll", "action"},
           Cards!Fetch(s, by)
    PROVE  fetches' \subseteq FetchRecord
  BY DEF Cards!Fetch, Cards!Request, FetchRecord

LEMMA EffectFetches ==
    ASSUME selection' \in Cards!Selection, Cards!Effect
    PROVE  fetches' \subseteq FetchRecord /\ waiting' \in BOOLEAN /\ polling' \in BOOLEAN
<1>1. Cards!Fetch(selection', "effect")
  BY DEF Cards!Effect
<1>2. fetches' \subseteq FetchRecord
  BY <1>1 DEF Cards!Fetch, Cards!Request, FetchRecord
<1>3. QED
  BY <1>2 DEF Cards!Effect

LEMMA CardsInit ==
    ASSUME Cards!Init
    PROVE  CardsInv
<1>1. selection \in Cards!Selection /\ fetches = {Cards!Request(selection, "effect")}
  BY DEF Cards!Init
<1>2. fetches \subseteq FetchRecord
  BY <1>1 DEF Cards!Request, FetchRecord
<1>3. QED
  BY <1>1, <1>2, StillFields DEF Cards!Init, CardsInv

LEMMA FetchStep ==
    ASSUME CardsInv, NEW f \in fetches,
           Cards!Serve(f) \/ Cards!Ignored(f) \/ Cards!Answered(f) \/ Cards!FetchFails(f)
    PROVE  CardsInv'
<1>1. f \in FetchRecord
  BY DEF CardsInv
<1>2. CASE Cards!Serve(f)
  <2>1. fetches' \subseteq FetchRecord
    BY <1>1, <1>2, FetchFields DEF Cards!Serve, CardsInv
  <2>2. QED
    BY <1>2, <2>1 DEF Cards!Serve, CardsInv
<1>3. ASSUME Cards!Returned(f)
      PROVE  polling' \in BOOLEAN /\ waiting' \in BOOLEAN /\ fetches' \subseteq FetchRecord
  <2>1. polling' \in BOOLEAN
    BY <1>3, Zenon DEF Cards!Returned
  <2>2. QED
    BY <1>3, <2>1 DEF Cards!Returned
<1>4. CASE Cards!Ignored(f)
  BY <1>3, <1>4 DEF Cards!Ignored, CardsInv
<1>5. CASE Cards!FetchFails(f)
  BY <1>3, <1>5 DEF Cards!FetchFails, CardsInv
<1>6. CASE Cards!Answered(f)
  <2>1. f.selection \in Cards!Selection /\ f.order \in Nat
    BY <1>1, <1>6, FetchFields DEF Cards!Answered
  <2>2. /\ overview' = [selection |-> f.selection, order |-> f.order]
        /\ selection' = [selection EXCEPT !.page = f.selection.page]
        /\ IF selection' = selection THEN Cards!Returned(f) ELSE Cards!Effect
        /\ UNCHANGED <<interacting, dragging, moved, action, saved, moves, changes, failures>>
    BY <1>6 DEF Cards!Answered
  <2>3. overview' \in ShownRecord
    BY <2>1, <2>2 DEF ShownRecord
  <2>4. selection' \in Cards!Selection
    BY <2>1, <2>2, PageTurned DEF CardsInv
  <2>5. polling' \in BOOLEAN /\ waiting' \in BOOLEAN /\ fetches' \subseteq FetchRecord
    BY <1>3, <2>2, <2>4, EffectFetches
  <2>6. QED
    BY <2>2, <2>3, <2>4, <2>5 DEF CardsInv
<1>7. QED
  BY <1>2, <1>4, <1>5, <1>6

LEMMA SelectStep ==
    ASSUME CardsInv, NEW s \in Cards!Selection, Cards!Select(s)
    PROVE  CardsInv'
<1>1. selection' = s /\ changes' = changes + 1 /\ Cards!Effect
  BY DEF Cards!Select, Cards!Count
<1>2. fetches' \subseteq FetchRecord /\ waiting' \in BOOLEAN /\ polling' \in BOOLEAN
  BY <1>1, EffectFetches
<1>3. QED
  BY <1>1, <1>2 DEF Cards!Select, CardsInv

LEMMA AskStep ==
    ASSUME CardsInv, Cards!Refresh \/ Cards!Poll \/ Cards!ActEnds
    PROVE  CardsInv'
<1>1. fetches' \subseteq FetchRecord
  <2>1. CASE Cards!Refresh \/ Cards!Poll
    BY <2>1, Fetched DEF Cards!Refresh, Cards!Poll, CardsInv
  <2>2. CASE Cards!ActEnds
    <3>1. action \in Cards!Selection
      BY <2>2 DEF Cards!ActEnds, CardsInv
    <3>2. CASE interacting
      BY <2>2, <3>2 DEF Cards!ActEnds, CardsInv
    <3>3. CASE ~interacting
      BY <2>2, <3>1, <3>3, Fetched DEF Cards!ActEnds
    <3>4. QED
      BY <3>2, <3>3
  <2>3. QED
    BY <2>1, <2>2
<1>2. CASE Cards!Refresh
  BY <1>1, <1>2 DEF Cards!Refresh, Cards!Count, CardsInv
<1>3. CASE Cards!Poll
  BY <1>1, <1>3 DEF Cards!Poll, CardsInv
<1>4. CASE Cards!ActEnds
  BY <1>1, <1>4 DEF Cards!ActEnds, CardsInv
<1>5. QED
  BY <1>2, <1>3, <1>4

LEMMA HandStep ==
    ASSUME CardsInv,
           \/ Cards!PollReturns \/ Cards!Act \/ Cards!ActFails
           \/ Cards!Drag \/ Cards!Drop \/ Cards!Move
    PROVE  CardsInv'
<1>1. CASE Cards!PollReturns
  BY <1>1 DEF Cards!PollReturns, CardsInv
<1>2. CASE Cards!Act \/ Cards!ActFails
  <2>1. changes' \in Nat /\ failures' \in Nat
    BY <1>2 DEF Cards!Act, Cards!ActFails, Cards!Count, CardsInv
  <2>2. action' \in Cards!Selection \cup {Unread}
    BY <1>2 DEF Cards!Act, Cards!ActFails, CardsInv
  <2>3. UNCHANGED <<selection, overview, waiting, fetches, polling, interacting, dragging,
                    moved, saved, moves>>
    BY <1>2 DEF Cards!Act, Cards!ActFails
  <2>4. QED
    BY <2>1, <2>2, <2>3, Zenon DEF CardsInv
<1>3. CASE Cards!Drag \/ Cards!Drop
  <2>1. changes' \in Nat
    BY <1>3 DEF Cards!Drag, Cards!Drop, Cards!Count, CardsInv
  <2>2. dragging' \in BOOLEAN /\ interacting' \in BOOLEAN
        /\ UNCHANGED <<selection, overview, waiting, fetches, polling, moved, action, saved,
                       moves, failures>>
    BY <1>3 DEF Cards!Drag, Cards!Drop
  <2>3. dragging' => overview \in ShownRecord
    BY <1>3 DEF Cards!Drag, Cards!Drop, CardsInv
  <2>4. QED
    BY <2>1, <2>2, <2>3, Zenon DEF CardsInv
<1>4. CASE Cards!Move
  <2>1. /\ overview \in ShownRecord /\ moves' = moves + 1 /\ moves \in Nat
        /\ overview' = [overview EXCEPT !.order = moves + 1]
        /\ moved' = [pc |-> "put", order |-> moves + 1, before |-> overview.order]
    BY <1>4 DEF Cards!Move, CardsInv
  <2>2. overview' \in ShownRecord /\ moved' \in MoveRecord /\ moves' \in Nat
    BY <2>1, ShownFields DEF MoveRecord
  <2>3. QED
    BY <1>4, <2>2 DEF Cards!Move, CardsInv
<1>5. QED
  BY <1>1, <1>2, <1>3, <1>4

LEMMA SaveStep ==
    ASSUME CardsInv, Cards!Save \/ Cards!Saved \/ Cards!SaveFails
    PROVE  CardsInv'
<1>1. moved \in MoveRecord
  BY DEF CardsInv
<1>2. CASE Cards!Save
  <2>1. moved' \in MoveRecord /\ saved' \in Nat
    BY <1>1, <1>2, MoveFields DEF Cards!Save
  <2>2. moved # Cards!Still
    BY <1>2 DEF Cards!Save, Cards!Still
  <2>3. QED
    BY <1>2, <2>1, <2>2 DEF Cards!Save, CardsInv
<1>3. CASE Cards!Saved
  BY <1>3, StillFields DEF Cards!Saved, Cards!LetGo, CardsInv
<1>4. CASE Cards!SaveFails
  <2>1. overview \in ShownRecord /\ overview' = [overview EXCEPT !.order = moved.before]
    BY <1>4 DEF Cards!SaveFails, CardsInv
  <2>2. overview' \in ShownRecord
    BY <1>1, <2>1, ShownFields, MoveFields
  <2>3. moved' \in MoveRecord /\ interacting' \in BOOLEAN
    BY <1>4, StillFields DEF Cards!SaveFails, Cards!LetGo
  <2>4. failures' \in Nat
    BY <1>4 DEF Cards!SaveFails, CardsInv
  <2>5. UNCHANGED <<selection, waiting, fetches, polling, dragging, action, saved, moves, changes>>
    BY <1>4 DEF Cards!SaveFails
  <2>6. QED
    BY <2>2, <2>3, <2>4, <2>5, Zenon DEF CardsInv
<1>5. QED
  BY <1>2, <1>3, <1>4

LEMMA CardsStep ==
    ASSUME CardsInv, [Cards!Next]_overviewVars
    PROVE  CardsInv'
<1>1. CASE UNCHANGED overviewVars
  BY <1>1 DEF overviewVars, CardsInv
<1>2. CASE Cards!Next
  BY <1>2, SelectStep, FetchStep, AskStep, HandStep, SaveStep DEF Cards!Next
<1>3. QED
  BY <1>1, <1>2

LEMMA CardsFollow == CardsInv => Cards!TypeOK
<1> SUFFICES ASSUME CardsInv PROVE Cards!TypeOK
  OBVIOUS
<1>1. \A f \in fetches : /\ f.selection \in Cards!Selection /\ f.order \in Nat \cup {Unread}
                         /\ f.by \in {"effect", "button", "poll", "action"}
  BY FetchFields DEF CardsInv
<1>2. QED
  BY <1>1, Zenon DEF CardsInv, ShownRecord, MoveRecord, Cards!TypeOK

-----------------------------------------------------------------------------
(* Bounds of the recorder *)

\* What the record r and the buffer b hold is no more than the output n, and of it.
MemoryFits(r, b, n) ==
    /\ r.pending \in Recorder!Text /\ b \in Recorder!Text
    /\ r.offset + Len(r.pending) + Len(b) <= n

CacheFits(r) == r # None => r.pending \in Recorder!Text /\ r.offset <= MaxOutput

FilesFit ==
    /\ part \in [Recorder!Part -> Recorder!Text] /\ exists \subseteq Recorder!Part
    /\ recovered \in Seq(Recorder!Text) /\ elsewhere \subseteq 1 .. MaxOutput

\* Only the crash of a recovery is not bounded, and nothing is recorded after it.
HistoryFits ==
    /\ interrupted \in Nat /\ interrupted <= MaxRecoveries + 1
    /\ status # "dead" => interrupted <= MaxRecoveries

BoundsInv == MemoryFits(rec, buffer, received) /\ CacheFits(cache) /\ FilesFit /\ HistoryFits

LEMMA TextIsSeq == Recorder!Text \subseteq Seq(Nat) /\ <<>> \in Recorder!Text
<1>1. 1 .. MaxOutput \subseteq Nat
  BY RecorderHolds DEF Recorder!RecorderBounds
<1>2. <<>> \in Recorder!Text
  BY EmptySeq DEF Recorder!Text
<1>3. ASSUME NEW t \in Recorder!Text PROVE t \in Seq(Nat)
  <2>1. t \in [1 .. Len(t) -> 1 .. MaxOutput] /\ Len(t) \in Nat
    BY <1>3, LenProperties DEF Recorder!Text
  <2>2. t \in [1 .. Len(t) -> Nat]
    BY <1>1, <2>1
  <2>3. QED
    BY <2>1, <2>2
<1>4. QED
  BY <1>2, <1>3

LEMMA TextJoined ==
    ASSUME NEW s \in Recorder!Text, NEW t \in Recorder!Text
    PROVE  /\ s \o t \in Recorder!Text /\ Len(s \o t) = Len(s) + Len(t)
           /\ Len(s) \in Nat /\ Len(t) \in Nat /\ Len(<<>>) = 0
  BY ConcatProperties, LenProperties DEF Recorder!Text

LEMMA TextCut ==
    ASSUME NEW t \in Recorder!Text, NEW c \in Nat, c <= Len(t)
    PROVE  /\ SubSeq(t, c + 1, Len(t)) \in Recorder!Text
           /\ Recorder!ToSet(SubSeq(t, c + 1, Len(t))) \subseteq 1 .. MaxOutput
<1> DEFINE q == SubSeq(t, c + 1, Len(t))
<1>1. t \in Seq(1 .. MaxOutput) /\ Len(t) \in Nat /\ c + 1 \in Int
  BY LenProperties DEF Recorder!Text
<1>2. \A i \in 1 .. Len(t) : t[i] \in 1 .. MaxOutput
  BY <1>1, ElementOfSeq
<1>3. \A i \in c + 1 .. Len(t) : t[i] \in 1 .. MaxOutput
  BY <1>1, <1>2
<1>4. q \in Seq(1 .. MaxOutput)
  BY <1>1, <1>3, SubSeqProperties
<1> HIDE DEF q
<1>5. \A i \in 1 .. Len(q) : q[i] \in 1 .. MaxOutput
  BY <1>4, ElementOfSeq
<1>6. Recorder!ToSet(q) \subseteq 1 .. MaxOutput
  BY <1>4, <1>5, SetOfSeq
<1>7. QED
  BY <1>4, <1>6 DEF q, Recorder!Text

LEMMA CachedFits ==
    ASSUME NEW r \in RecRecord, NEW b, NEW n \in 0 .. MaxOutput, MemoryFits(r, b, n)
    PROVE  CacheFits(Recorder!Cached(r, b)) /\ CacheFits(r)
<1>1. r.pending \in Recorder!Text /\ b \in Recorder!Text
      /\ r.offset + Len(r.pending) + Len(b) <= n /\ r.offset \in Nat
  BY RecFields DEF MemoryFits
<1>2. /\ r.pending \o b \in Recorder!Text
      /\ Len(r.pending) \in Nat /\ Len(b) \in Nat
  BY <1>1, TextJoined
<1>3. r.offset <= MaxOutput
  BY <1>1, <1>2, RecorderHolds DEF Recorder!RecorderBounds
<1>4. Recorder!Cached(r, b).pending = r.pending \o b /\ Recorder!Cached(r, b).offset = r.offset
  BY DEF Recorder!Cached, RecRecord
<1>5. QED
  BY <1>1, <1>2, <1>3, <1>4 DEF CacheFits

LEMMA RotatedFits ==
    ASSUME NEW r \in RecRecord, NEW b, NEW n \in Nat, MemoryFits(r, b, n)
    PROVE  MemoryFits(Recorder!Rotated([r EXCEPT !.pending = r.pending \o b]), <<>>, n)
<1> DEFINE q == [r EXCEPT !.pending = r.pending \o b]
           s == Recorder!Rotated(q)
<1>1. r.pending \in Recorder!Text /\ b \in Recorder!Text
      /\ r.offset + Len(r.pending) + Len(b) <= n /\ r.offset \in Nat
  BY RecFields DEF MemoryFits
<1>2. /\ r.pending \o b \in Recorder!Text /\ Len(r.pending \o b) = Len(r.pending) + Len(b)
      /\ Len(r.pending) \in Nat /\ Len(b) \in Nat /\ Len(<<>>) = 0
  BY <1>1, TextJoined
<1>3. q.pending = r.pending \o b /\ q.offset = r.offset
  BY DEF RecRecord
<1>4. s.pending = q.pending /\ s.offset \in {0, q.offset}
  BY DEF Recorder!Rotated, RecRecord
<1> HIDE DEF q, s
<1>5. s.offset + Len(s.pending) + 0 <= n
  BY <1>1, <1>2, <1>3, <1>4
<1>6. QED
  BY <1>2, <1>3, <1>4, <1>5, TextIsSeq DEF MemoryFits, s, q

LEMMA ProgressedFits ==
    ASSUME NEW r \in RecRecord, NEW b, NEW n \in Nat, MemoryFits(r, b, n)
    PROVE  MemoryFits(Recorder!Progressed(r), b, n)
<1>1. r.pending \in Recorder!Text /\ b \in Recorder!Text
      /\ r.offset + Len(r.pending) + Len(b) <= n /\ r.offset \in Nat
  BY RecFields DEF MemoryFits
<1>2. Len(r.pending) \in Nat /\ Len(b) \in Nat /\ Len(<<>>) = 0
  BY <1>1, TextJoined
<1>3. /\ Recorder!Progressed(r).pending = <<>>
      /\ Recorder!Progressed(r).offset = r.offset + Len(r.pending)
  BY DEF Recorder!Progressed, RecRecord
<1>4. (r.offset + Len(r.pending)) + 0 + Len(b) <= n
  BY <1>1, <1>2
<1>5. QED
  BY <1>1, <1>2, <1>3, <1>4, TextIsSeq DEF MemoryFits

LEMMA FreshFits ==
    ASSUME NEW n \in Nat
    PROVE  MemoryFits(Recorder!Fresh, <<>>, n)
<1>1. Len(<<>>) = 0 /\ 0 + 0 + 0 <= n
  OBVIOUS
<1>2. QED
  BY <1>1, FreshFields, TextIsSeq DEF MemoryFits

-----------------------------------------------------------------------------

LEMMA BoundsOf ==
    ASSUME RecInv
    PROVE  rec \in RecRecord /\ received \in 0 .. MaxOutput /\ received \in Nat
           /\ MaxOutput \in Nat /\ MaxRecoveries \in Nat
  BY RecorderHolds DEF RecInv, RecTyped, Recorder!RecorderBounds

\* A step of memory and cache, with the files as they are.
LEMMA MemoryStep ==
    ASSUME BoundsInv, MemoryFits(rec', buffer', received'), CacheFits(cache'),
           part' = part, exists' \subseteq Recorder!Part,
           recovered' = recovered, elsewhere' = elsewhere, interrupted' = interrupted,
           status = "dead" => status' = "dead"
    PROVE  BoundsInv'
<1>1. FilesFit'
  BY DEF BoundsInv, FilesFit
<1>2. HistoryFits'
  BY DEF BoundsInv, HistoryFits
<1>3. MemoryFits(rec, buffer, received)' /\ CacheFits(cache)'
  BY DEF MemoryFits, CacheFits
<1>4. QED
  BY <1>1, <1>2, <1>3 DEF BoundsInv

LEMMA UserBounds ==
    ASSUME RecInv, BoundsInv,
           \/ Recorder!Start \/ Recorder!TimerFires \/ Recorder!Stop
           \/ Recorder!BeginSavePending \/ Recorder!BeginRecoverCached
    PROVE  BoundsInv'
<1>1. /\ UNCHANGED <<rec, buffer, received, part, exists, recovered, elsewhere, interrupted>>
      /\ cache' = cache \/ cache' = rec
      /\ status = "dead" => status' = "dead"
  BY DEF Recorder!Start, Recorder!TimerFires, Recorder!Stop, Recorder!BeginSavePending,
         Recorder!BeginRecoverCached, Recorder!files, Recorder!memory
<1>2. MemoryFits(rec', buffer', received') /\ exists' \subseteq Recorder!Part
  BY <1>1 DEF BoundsInv, FilesFit
<1>3. CacheFits(rec)
  BY BoundsOf, CachedFits DEF BoundsInv
<1>4. CacheFits(cache')
  BY <1>1, <1>3 DEF BoundsInv
<1>5. QED
  BY <1>1, <1>2, <1>4, MemoryStep

LEMMA ReceiveBounds ==
    ASSUME RecInv, BoundsInv, Recorder!Receive
    PROVE  BoundsInv'
<1>1. /\ received < MaxOutput /\ received' = received + 1 /\ buffer' = Append(buffer, received + 1)
      /\ UNCHANGED <<rec, cache, part, exists, recovered, elsewhere, interrupted>>
      /\ accepting
  BY DEF Recorder!Receive, Recorder!files
<1>2. status # "dead"
  BY <1>1 DEF RecInv, JobsShaped
<1>3. /\ rec.pending \in Recorder!Text /\ buffer \in Recorder!Text /\ rec.offset \in Nat
      /\ rec.offset + Len(rec.pending) + Len(buffer) <= received
  BY BoundsOf, RecFields DEF BoundsInv, MemoryFits
<1>4. received + 1 \in 1 .. MaxOutput /\ received \in Nat
  BY <1>1, BoundsOf
<1>5. /\ buffer' \in Recorder!Text /\ Len(buffer') = Len(buffer) + 1
      /\ Len(buffer) \in Nat /\ Len(rec.pending) \in Nat
  BY <1>1, <1>3, <1>4, AppendProperties, LenProperties DEF Recorder!Text
<1>6. rec.offset + Len(rec.pending) + (Len(buffer) + 1) <= received + 1
  BY <1>3, <1>4, <1>5
<1>7. MemoryFits(rec', buffer', received')
  BY <1>1, <1>3, <1>5, <1>6 DEF MemoryFits
<1>8. CacheFits(cache') /\ exists' \subseteq Recorder!Part
  BY <1>1 DEF BoundsInv, FilesFit
<1>9. QED
  BY <1>1, <1>2, <1>7, <1>8, MemoryStep

\* A job runs while the tab lives.
LEMMA JobAlive ==
    ASSUME RecInv, jobs # <<>> \/ stage # "wait"
    PROVE  status # "dead"
  BY DEF RecInv, JobsShaped

LEMMA CheckpointBounds ==
    ASSUME RecInv, RecInv', BoundsInv, NEW disk \in BOOLEAN, NEW ok \in BOOLEAN,
           Recorder!Checkpoint(disk, ok)
    PROVE  BoundsInv'
<1>1. /\ jobs # <<>> /\ rec' = Recorder!Batch(disk) /\ buffer' = (IF disk THEN <<>> ELSE buffer)
      /\ cache' = cache \/ cache' = Recorder!Cached(rec', buffer')
      /\ received' = received
      /\ UNCHANGED <<part, exists, recovered, elsewhere, interrupted>>
  BY DEF Recorder!Checkpoint, Recorder!files
<1>2. MemoryFits(rec', buffer', received)
  <2>1. MemoryFits(rec, buffer, received)
    BY DEF BoundsInv
  <2>2. CASE disk
    BY <1>1, <2>1, <2>2, BoundsOf, RotatedFits DEF Recorder!Batch
  <2>3. CASE ~disk
    BY <1>1, <2>1, <2>3 DEF Recorder!Batch
  <2>4. QED
    BY <2>2, <2>3
<1>3. rec' \in RecRecord /\ received \in 0 .. MaxOutput
  BY BoundsOf DEF RecInv, RecTyped
<1>4. CacheFits(cache')
  BY <1>1, <1>2, <1>3, CachedFits DEF BoundsInv
<1>5. exists' \subseteq Recorder!Part /\ status # "dead"
  BY <1>1, JobAlive DEF BoundsInv, FilesFit
<1>6. QED
  BY <1>1, <1>2, <1>4, <1>5, MemoryStep

LEMMA EndBounds ==
    ASSUME RecInv, BoundsInv, NEW ok \in BOOLEAN,
           \/ Recorder!PersistProgress(ok) \/ Recorder!RemoveRecord(ok) \/ Recorder!EndFail(ok)
           \/ Recorder!WriteFails
    PROVE  BoundsInv'
<1>1. /\ UNCHANGED <<rec, buffer, received, part, recovered, elsewhere, interrupted>>
      /\ cache' \in {cache, None, Recorder!Cached(rec, buffer)}
      /\ exists' \in {exists, exists \cup {rec.part}} /\ stage # "wait"
  BY DEF Recorder!PersistProgress, Recorder!RemoveRecord, Recorder!EndFail, Recorder!WriteFails,
         Recorder!files
<1>2. MemoryFits(rec', buffer', received')
  BY <1>1 DEF BoundsInv
<1>3. CacheFits(Recorder!Cached(rec, buffer))
  BY BoundsOf, CachedFits DEF BoundsInv
<1>4. CacheFits(cache')
  BY <1>1, <1>3 DEF BoundsInv, CacheFits
<1>5. exists' \subseteq Recorder!Part /\ status # "dead"
  BY <1>1, BoundsOf, RecFields, JobAlive DEF BoundsInv, FilesFit
<1>6. QED
  BY <1>1, <1>2, <1>4, <1>5, MemoryStep

LEMMA WriteBounds ==
    ASSUME RecInv, BoundsInv, Recorder!WritePending
    PROVE  BoundsInv'
<1>1. /\ stage = "write" /\ exists' = exists \cup {rec.part} /\ rec' = Recorder!Progressed(rec)
      /\ part' = [part EXCEPT ![rec.part]
                      = Recorder!Written(part[rec.part], rec.offset, rec.pending)]
      /\ UNCHANGED <<received, status, buffer, cache, recovered, elsewhere, interrupted>>
  BY DEF Recorder!WritePending
<1>2. status # "dead" /\ status # "stopped"
  BY <1>1 DEF RecInv, JobsShaped
<1>3. Len(part[rec.part]) = rec.offset
  BY <1>2 DEF RecInv, Fits, Alive, JobsShaped
<1>4. rec.part \in Recorder!Part /\ rec.pending \in Recorder!Text
      /\ part \in [Recorder!Part -> Recorder!Text]
  BY BoundsOf, RecFields DEF BoundsInv, MemoryFits, FilesFit
<1>5. part[rec.part] \in Recorder!Text
  BY <1>4
<1>6. Recorder!Written(part[rec.part], rec.offset, rec.pending) \in Recorder!Text
  <2>1. part[rec.part] \in Seq(Nat) /\ rec.pending \in Seq(Nat)
    BY <1>4, <1>5, TextIsSeq
  <2>2. Recorder!Written(part[rec.part], Len(part[rec.part]), rec.pending)
            = part[rec.part] \o rec.pending
    BY <2>1, WrittenBehind
  <2>3. part[rec.part] \o rec.pending \in Recorder!Text
    BY <1>4, <1>5, TextJoined
  <2>4. QED
    BY <1>3, <2>2, <2>3
<1>7. FilesFit'
  BY <1>1, <1>4, <1>6 DEF BoundsInv, FilesFit
<1>8. MemoryFits(rec', buffer', received')
  BY <1>1, BoundsOf, ProgressedFits DEF BoundsInv
<1>9. HistoryFits' /\ CacheFits(cache)' /\ MemoryFits(rec, buffer, received)'
  BY <1>1, <1>8 DEF BoundsInv, HistoryFits, MemoryFits
<1>10. QED
  BY <1>7, <1>9 DEF BoundsInv

LEMMA RecoveryBounds ==
    ASSUME RecInv, BoundsInv, NEW r \in RecRecord, r.pending \in Recorder!Text,
           NEW b \in BOOLEAN, Recorder!WriteRecovery(r, b)
    PROVE  BoundsInv'
<1> DEFINE c == Recorder!Committed(r, b)
           rest == SubSeq(r.pending, c + 1, Len(r.pending))
<1>1. /\ recovered' = recovered \o (IF b /\ rest # <<>> THEN <<rest>> ELSE <<>>)
      /\ elsewhere' = IF b THEN elsewhere ELSE elsewhere \cup Recorder!ToSet(rest)
      /\ UNCHANGED <<received, rec, buffer, status, cache, part, exists, interrupted>>
  BY DEF Recorder!WriteRecovery, Recorder!memory
<1>2. c \in Nat /\ c <= Len(r.pending)
  BY CommittedThere DEF RecInv
<1>3. rest \in Recorder!Text /\ Recorder!ToSet(rest) \subseteq 1 .. MaxOutput
  BY <1>2, TextCut
<1> HIDE DEF rest
<1>4. FilesFit'
  <2>1. recovered \in Seq(Recorder!Text) /\ <<>> \in Seq(Recorder!Text)
        /\ <<rest>> \in Seq(Recorder!Text)
    BY <1>3 DEF BoundsInv, FilesFit
  <2>2. recovered' \in Seq(Recorder!Text)
    BY <1>1, <2>1, ConcatProperties
  <2>3. elsewhere' \subseteq 1 .. MaxOutput
    BY <1>1, <1>3 DEF BoundsInv, FilesFit
  <2>4. QED
    BY <1>1, <2>2, <2>3 DEF BoundsInv, FilesFit
<1>5. HistoryFits' /\ CacheFits(cache)' /\ MemoryFits(rec, buffer, received)'
  BY <1>1 DEF BoundsInv, HistoryFits, MemoryFits
<1>6. QED
  BY <1>4, <1>5 DEF BoundsInv

LEMMA SaveBounds ==
    ASSUME RecInv, BoundsInv, NEW b \in BOOLEAN,
           Recorder!SavePending(b) \/ Recorder!RecoverCached(b)
    PROVE  BoundsInv'
<1>1. CASE Recorder!SavePending(b)
  <2>1. Recorder!WriteRecovery(Recorder!Cached(rec, buffer), b)
    BY <1>1 DEF Recorder!SavePending
  <2>2. rec \in RecRecord /\ rec.pending \o buffer \in Recorder!Text
    BY BoundsOf, TextJoined DEF BoundsInv, MemoryFits
  <2>3. Recorder!Cached(rec, buffer) \in RecRecord
        /\ Recorder!Cached(rec, buffer).pending = rec.pending \o buffer
    BY <2>2, TextIsSeq DEF Recorder!Cached, RecRecord
  <2>4. QED
    BY <2>1, <2>2, <2>3, RecoveryBounds
<1>2. CASE Recorder!RecoverCached(b)
  <2>1. Recorder!WriteRecovery(cache, b) /\ recovery.by = "menu"
    BY <1>2 DEF Recorder!RecoverCached
  <2>2. cache # None /\ cache \in RecRecord
    BY <2>1 DEF RecInv, Recovering, RecTyped
  <2>3. cache.pending \in Recorder!Text
    BY <2>2 DEF BoundsInv, CacheFits
  <2>4. QED
    BY <2>1, <2>2, <2>3, RecoveryBounds
<1>3. QED
  BY <1>1, <1>2

LEMMA FinishBounds ==
    ASSUME RecInv, BoundsInv, Recorder!FinishRecovery
    PROVE  BoundsInv'
<1>1. /\ cache' = None
      /\ UNCHANGED <<received, part, exists, recovered, elsewhere, interrupted>>
      /\ \/ /\ recovery.by = "recorder" /\ buffer' = <<>>
            /\ rec' = [rec EXCEPT !.pending = <<>>]
         \/ UNCHANGED <<status, rec, buffer>>
  BY DEF Recorder!FinishRecovery, Recorder!files
<1>2. CacheFits(cache')
  BY <1>1 DEF CacheFits
<1>3. status = "dead" => status' = "dead"
  BY <1>1 DEF RecInv, Recovering
<1>4. MemoryFits(rec', buffer', received')
  <2>1. CASE buffer' = <<>> /\ rec' = [rec EXCEPT !.pending = <<>>]
    <3>1. rec'.pending = <<>> /\ rec'.offset = rec.offset
      BY <2>1, BoundsOf DEF RecRecord
    <3>2. /\ rec.offset + Len(rec.pending) + Len(buffer) <= received
          /\ Len(rec.pending) \in Nat /\ Len(buffer) \in Nat /\ rec.offset \in Nat
      BY BoundsOf, RecFields, TextJoined DEF BoundsInv, MemoryFits
    <3>3. Len(<<>>) = 0 /\ rec.offset + 0 + 0 <= received /\ received \in Nat
      BY <3>2, BoundsOf
    <3>4. QED
      BY <1>1, <2>1, <3>1, <3>3, TextIsSeq DEF MemoryFits
  <2>2. CASE UNCHANGED <<status, rec, buffer>>
    BY <1>1, <2>2 DEF BoundsInv
  <2>3. QED
    BY <1>1, <2>1, <2>2
<1>5. exists' \subseteq Recorder!Part
  BY <1>1 DEF BoundsInv, FilesFit
<1>6. QED
  BY <1>1, <1>2, <1>3, <1>4, <1>5, MemoryStep

LEMMA CutBounds ==
    ASSUME RecInv, BoundsInv, Recorder!AbandonRecovery \/ Recorder!Crash
    PROVE  BoundsInv'
<1>1. UNCHANGED <<received, cache, part, exists, recovered, elsewhere>>
  BY DEF Recorder!AbandonRecovery, Recorder!Crash, Recorder!memory, Recorder!files
<1>2. FilesFit' /\ CacheFits(cache)'
  BY <1>1 DEF BoundsInv, FilesFit
<1>3. interrupted \in Nat /\ MaxRecoveries \in Nat
  BY BoundsOf DEF BoundsInv, HistoryFits
<1>4. CASE Recorder!AbandonRecovery
  <2>1. /\ UNCHANGED <<rec, buffer, status>> /\ interrupted' <= MaxRecoveries
        /\ interrupted' = interrupted + (IF recovery.stage = "written" THEN 1 ELSE 0)
    BY <1>4 DEF Recorder!AbandonRecovery, Recorder!memory
  <2>2. HistoryFits'
    BY <1>3, <2>1 DEF HistoryFits
  <2>3. MemoryFits(rec, buffer, received)'
    BY <1>1, <2>1 DEF BoundsInv
  <2>4. QED
    BY <1>2, <2>2, <2>3 DEF BoundsInv
<1>5. CASE Recorder!Crash
  <2>1. /\ status # "dead" /\ status' = "dead" /\ rec' = Recorder!Fresh /\ buffer' = <<>>
        /\ interrupted' = interrupted
             + (IF recovery.by = "recorder" /\ recovery.stage = "written" THEN 1 ELSE 0)
    BY <1>5 DEF Recorder!Crash
  <2>2. interrupted <= MaxRecoveries
    BY <2>1 DEF BoundsInv, HistoryFits
  <2>3. HistoryFits'
    BY <1>3, <2>1, <2>2 DEF HistoryFits
  <2>4. MemoryFits(rec', buffer', received')
    BY <1>1, <2>1, BoundsOf, FreshFits
  <2>5. MemoryFits(rec, buffer, received)'
    BY <2>4 DEF MemoryFits
  <2>6. QED
    BY <1>2, <2>3, <2>5 DEF BoundsInv
<1>6. QED
  BY <1>4, <1>5

LEMMA BoundsInit ==
    ASSUME Recorder!Init
    PROVE  BoundsInv
<1>1. /\ received = 0 /\ rec = Recorder!Fresh /\ buffer = <<>> /\ cache = None
      /\ part = [p \in Recorder!Part |-> <<>>] /\ exists = {} /\ recovered = <<>>
      /\ elsewhere = {} /\ interrupted = 0
  BY DEF Recorder!Init
<1>2. MemoryFits(rec, buffer, received)
  BY <1>1, FreshFits
<1>3. FilesFit
  BY <1>1, TextIsSeq, EmptySeq DEF FilesFit
<1>4. HistoryFits /\ CacheFits(cache)
  BY <1>1, RecorderHolds DEF HistoryFits, CacheFits, Recorder!RecorderBounds
<1>5. QED
  BY <1>2, <1>3, <1>4 DEF BoundsInv

LEMMA BoundsStep ==
    ASSUME RecInv, RecInv', BoundsInv, [Recorder!Next]_recorderVars
    PROVE  BoundsInv'
<1>1. CASE UNCHANGED recorderVars
  BY <1>1 DEF recorderVars, BoundsInv, MemoryFits, CacheFits, FilesFit, HistoryFits
<1>2. CASE Recorder!JobStep
  <2>1. CASE \E disk, ok \in BOOLEAN : Recorder!Checkpoint(disk, ok)
    BY <2>1, CheckpointBounds
  <2>2. CASE Recorder!WritePending \/ Recorder!WriteFails
    BY <2>2, WriteBounds, EndBounds
  <2>3. CASE \E ok \in BOOLEAN : \/ Recorder!PersistProgress(ok)
                                 \/ Recorder!RemoveRecord(ok)
                                 \/ Recorder!EndFail(ok)
    BY <2>3, EndBounds
  <2>4. QED
    BY <1>2, <2>1, <2>2, <2>3 DEF Recorder!JobStep
<1>3. CASE Recorder!RecoveryStep
  BY <1>3, UserBounds, SaveBounds, FinishBounds, CutBounds DEF Recorder!RecoveryStep
<1>4. CASE Recorder!Start \/ Recorder!Receive \/ Recorder!TimerFires \/ Recorder!Stop
  BY <1>4, UserBounds, ReceiveBounds
<1>5. CASE Recorder!Crash
  BY <1>5, CutBounds
<1>6. QED
  BY <1>1, <1>2, <1>3, <1>4, <1>5 DEF Recorder!Next

LEMMA BoundsFollow == RecInv /\ BoundsInv => Recorder!TypeOK
<1> SUFFICES ASSUME RecInv, BoundsInv PROVE Recorder!TypeOK
  OBVIOUS
<1>1. rec \in RecRecord /\ received \in 0 .. MaxOutput /\ MaxOutput \in Nat
      /\ MaxRecoveries \in Nat
  BY BoundsOf
<1>2. /\ rec.pending \in Recorder!Text /\ rec.offset \in Nat
      /\ rec.offset + Len(rec.pending) + Len(buffer) <= received /\ buffer \in Recorder!Text
  BY <1>1, RecFields DEF BoundsInv, MemoryFits
<1>3. Len(rec.pending) \in Nat /\ Len(buffer) \in Nat
  BY <1>2, TextJoined
<1>4. rec.offset \in 0 .. MaxOutput
  BY <1>1, <1>2, <1>3
<1>5. rec \in Recorder!Record
  BY <1>1, <1>2, <1>4 DEF RecRecord, Recorder!Record
<1>6. cache \in Recorder!Record \cup {None}
  <2>1. CASE cache = None
    BY <2>1
  <2>2. CASE cache # None
    <3>1. cache \in RecRecord
      BY <2>2 DEF RecInv, RecTyped
    <3>2. cache.pending \in Recorder!Text /\ cache.offset \in 0 .. MaxOutput
      BY <1>1, <2>2, <3>1, RecFields DEF BoundsInv, CacheFits
    <3>3. QED
      BY <3>1, <3>2 DEF RecRecord, Recorder!Record
  <2>3. QED
    BY <2>1, <2>2
<1>7. interrupted \in 0 .. MaxRecoveries + 1
  BY <1>1 DEF BoundsInv, HistoryFits
<1>8. /\ part \in [Recorder!Part -> Recorder!Text] /\ exists \subseteq Recorder!Part
      /\ recovered \in Seq(Recorder!Text) /\ elsewhere \subseteq 1 .. MaxOutput
  BY DEF BoundsInv, FilesFit
<1>9. /\ status \in {"idle", "recording", "saving", "error", "stopped", "dead"}
      /\ accepting \in BOOLEAN /\ timer \in BOOLEAN
      /\ jobs \in {<<>>, <<"save">>, <<"stop">>, <<"save", "stop">>}
      /\ stage \in {"wait", "write", "persist", "remove", "fail"}
  BY DEF RecInv, JobsShaped
<1>10. recovery \in [by : {"nobody", "recorder", "menu"}, beside : BOOLEAN,
                     stage : {"none", "begun", "written"}]
  BY DEF RecInv, RecTyped
<1>11. QED
  BY <1>1, <1>2, <1>5, <1>6, <1>7, <1>8, <1>9, <1>10 DEF Recorder!TypeOK

LEMMA DevicesFollow == SessionInv => (kind \in Kinds => Session!TypeOK)
<1> SUFFICES ASSUME SessionInv, kind \in Kinds PROVE Session!TypeOK
  OBVIOUS
<1>1. LinkTyped /\ ItemsTyped
  BY DEF SessionInv, LinkInv, ItemsInv
<1>2. sending => queue # <<>>
  BY <1>1, EmptySeq DEF ItemsTyped
<1>3. paste.pc \in {"idle", "begin", "chunk", "delay", "end", "enter"}
  BY <1>1 DEF ItemsTyped, PasteRecord
<1>4. QED
  BY <1>1, <1>2, <1>3 DEF LinkTyped, SessionRecord, LinkRecord, CallRecord, Session!TypeOK

\* A session keeps its kind.
LEMMA KindStays ==
    ASSUME LinkInv, [Session!Next]_sessionVars
    PROVE  kind' = kind
<1>1. CASE Session!WriteNext
  <2>1. CASE Session!Type \/ Session!Interrupt \/ Session!Transmit
    BY <2>1 DEF Session!Type, Session!Interrupt, Session!Transmit
  <2>2. CASE \E ok \in BOOLEAN : Session!WriteSettles(ok)
    BY <2>2 DEF Session!WriteSettles
  <2>3. CASE \E b, e \in BOOLEAN : Session!SendPaste(b, e)
    BY <2>3 DEF Session!SendPaste
  <2>4. CASE Session!OpenPreview \/ Session!ClosePreview \/ Session!PasteDelayEnds
    BY <2>4 DEF Session!OpenPreview, Session!ClosePreview, Session!PasteDelayEnds
  <2>5. QED
    BY <1>1, <2>1, <2>2, <2>3, <2>4 DEF Session!WriteNext
<1>2. CASE ~Session!WriteNext
  BY <1>2, StepAside, SessionHolds DEF Aside
<1>3. QED
  BY <1>1, <1>2

\* The recorder, the device session and the overview keep their shapes, and the recorder
\* its bounds: for any limits, outputs, recoveries, calls and cards.
THEOREM DeviceTypesAlways == Spec => []TypeOK
<1> DEFINE Inv == BoundsInv /\ CardsInv /\ kind \in Kinds
<1>1. Init => Inv
  BY BoundsInit, CardsInit DEF Init, Session!Init
<1>2. /\ Inv /\ RecInv /\ RecInv' /\ SessionInv
      /\ [Next]_<<focus, recorderVars, sessionVars, overviewVars>>
      => Inv'
  <2>1. SUFFICES ASSUME Inv, RecInv, RecInv', SessionInv,
                        [Next]_<<focus, recorderVars, sessionVars, overviewVars>>
                 PROVE  Inv'
    OBVIOUS
  <2>2. [Recorder!Next]_recorderVars /\ [Cards!Next]_overviewVars /\ [Session!Next]_sessionVars
    BY <2>1 DEF Next
  <2>3. BoundsInv' /\ CardsInv'
    BY <2>1, <2>2, BoundsStep, CardsStep
  <2>4. kind' = kind
    BY <2>1, <2>2, KindStays DEF SessionInv
  <2>5. QED
    BY <2>1, <2>3, <2>4
<1>3. RecInv /\ SessionInv /\ Inv => TypeOK
  BY BoundsFollow, DevicesFollow, CardsFollow DEF TypeOK
<1>4. QED
  BY <1>1, <1>2, <1>3, RecorderAlways, SessionAlways, PTL DEF Spec

-----------------------------------------------------------------------------
(* The log files are the output *)

\* c stands in one of the files f.
Stands(f, c) == \E p \in Recorder!Part : \E i \in 1 .. Len(f[p]) : f[p][i] = c

InOrder(f) ==
    \A p, q \in Recorder!Part : \A i \in 1 .. Len(f[p]), j \in 1 .. Len(f[q]) :
        p < q \/ (p = q /\ i < j) => f[p][i] < f[q][j]

\* The files f are the outputs 1, ..., n.
LogIs(f, n) == InOrder(f) /\ \A c \in Nat : Stands(f, c) <=> c \in 1 .. n

\* s is what follows the output n.
Runs(s, n) == \A i \in 1 .. Len(s) : s[i] = n + i

\* What the record r and the buffer b hold is the output between n and top.
MemoryRuns(r, b, n, top) ==
    /\ Runs(r.pending, n) /\ Runs(b, n + Len(r.pending))
    /\ n + Len(r.pending) + Len(b) = top

\* The files are the beginning of the output, and memory is the rest.
LogInv == \E n \in Nat : LogIs(part, n) /\ (Alive => MemoryRuns(rec, buffer, n, received))

\* What a file of f already holds of the record r stands where r would write it, and no
\* other file holds any of it.
Follows(r, f) ==
    \A i \in 1 .. Len(r.pending) :
        /\ Stands(f, r.pending[i]) => r.offset + i <= Len(f[r.part])
        /\ r.offset + i <= Len(f[r.part]) => f[r.part][r.offset + i] = r.pending[i]

\* Nothing is written but what the cache holds as well.
CacheInv ==
    /\ cache # None => Follows(cache, part)
    /\ stage = "write" => cache = rec

\* A recovery that succeeded leaves nothing to recover.
Over == status \in {"stopped", "dead"} /\ cache = None

\* A recovery begins when nothing is recorded any more, and adds what no log file holds;
\* one that adds a file ends, or is counted.
RecoveredInv ==
    /\ recovered # <<>> => /\ status \in {"error", "stopped", "dead"}
                           /\ jobs = <<>> /\ ~timer /\ ~accepting
    /\ \A i \in 1 .. Len(recovered) : \A c \in Recorder!ToSet(recovered[i]) : ~Stands(part, c)
    /\ status = "stopped" => rec.pending = <<>> /\ buffer = <<>>
    /\ interrupted \in Nat
    /\ Len(recovered) <= interrupted + (IF recovery.stage = "written" \/ Over THEN 1 ELSE 0)

OutputInv == LogInv /\ CacheInv /\ RecoveredInv

LEMMA Behind ==
    ASSUME NEW n \in Nat, NEW m \in Nat, NEW x \in Nat, x <= n, NEW d \in 1 .. m, NEW y, y = n + d
    PROVE  x < y
  OBVIOUS

LEMMA RunsJoined ==
    ASSUME NEW s \in Seq(Nat), NEW t \in Seq(Nat), NEW n \in Nat,
           Runs(s, n), Runs(t, n + Len(s))
    PROVE  Runs(s \o t, n) /\ Len(s \o t) = Len(s) + Len(t)
<1>1. /\ Len(s) \in Nat /\ Len(t) \in Nat /\ Len(s \o t) = Len(s) + Len(t)
      /\ \A i \in 1 .. Len(s) + Len(t) : (s \o t)[i] = IF i <= Len(s) THEN s[i] ELSE t[i - Len(s)]
  BY ConcatProperties, LenProperties
<1>2. ASSUME NEW i \in 1 .. Len(s) + Len(t) PROVE (s \o t)[i] = n + i
  <2>1. CASE i <= Len(s)
    <3>1. i \in 1 .. Len(s)
      BY <1>1, <2>1
    <3>2. QED
      BY <1>1, <2>1, <3>1 DEF Runs
  <2>2. CASE ~(i <= Len(s))
    <3>1. i - Len(s) \in 1 .. Len(t)
      BY <1>1, <2>2
    <3>2. t[i - Len(s)] = n + Len(s) + (i - Len(s))
      BY <3>1 DEF Runs
    <3>3. n + Len(s) + (i - Len(s)) = n + i
      BY <1>1
    <3>4. QED
      BY <1>1, <2>2, <3>2, <3>3
  <2>3. QED
    BY <2>1, <2>2
<1>3. QED
  BY <1>1, <1>2 DEF Runs

\* The last file grows by what follows the files.
LEMMA LogGrows ==
    ASSUME NEW f \in [Recorder!Part -> Seq(Nat)], NEW n \in Nat, LogIs(f, n),
           NEW p \in Recorder!Part, NEW t \in Seq(Nat), Runs(t, n),
           \A q \in Recorder!Part : q > p => f[q] = <<>>,
           NEW g, g = [f EXCEPT ![p] = f[p] \o t]
    PROVE  LogIs(g, n + Len(t)) /\ g[p] = f[p] \o t
<1> DEFINE s == f[p]
           k == Len(s)
           m == Len(t)
<1>1. /\ k \in Nat /\ m \in Nat /\ Len(s \o t) = k + m
      /\ \A i \in 1 .. k + m : (s \o t)[i] = IF i <= k THEN s[i] ELSE t[i - k]
  BY ConcatProperties, LenProperties
<1>2. g[p] = s \o t /\ \A q \in Recorder!Part : q # p => g[q] = f[q]
  OBVIOUS
<1>3. Len(g[p]) = k + m
  BY <1>1, <1>2
<1>4. \A i \in 1 .. k : i \in 1 .. k + m /\ g[p][i] = s[i]
  BY <1>1, <1>2
<1>5. ASSUME NEW i \in 1 .. k + m, i > k PROVE i - k \in 1 .. m /\ g[p][i] = n + (i - k)
  <2>1. i - k \in 1 .. m
    BY <1>1, <1>5
  <2>2. t[i - k] = n + (i - k)
    BY <2>1 DEF Runs
  <2>3. g[p][i] = t[i - k]
    BY <1>1, <1>2, <1>5
  <2>4. QED
    BY <2>1, <2>2, <2>3
<1>6. \A q \in Recorder!Part : \A i \in 1 .. Len(f[q]) :
          f[q][i] \in Nat /\ f[q][i] <= n /\ i \in Nat /\ Len(f[q]) \in Nat
  <2>1. SUFFICES ASSUME NEW q \in Recorder!Part, NEW i \in 1 .. Len(f[q])
                 PROVE  f[q][i] \in Nat /\ f[q][i] <= n /\ i \in Nat /\ Len(f[q]) \in Nat
    OBVIOUS
  <2>2. f[q] \in Seq(Nat) /\ Len(f[q]) \in Nat
    BY LenProperties
  <2>3. f[q][i] \in Nat
    BY <2>2, ElementOfSeq
  <2>4. Stands(f, f[q][i])
    BY DEF Stands
  <2>5. f[q][i] \in 1 .. n
    BY <2>3, <2>4 DEF LogIs
  <2>6. QED
    BY <2>2, <2>3, <2>5
<1> HIDE DEF s, k, m
<1>7. ASSUME NEW c \in Nat PROVE Stands(g, c) <=> c \in 1 .. n + m
  <2>1. ASSUME Stands(g, c) PROVE c \in 1 .. n + m
    <3>1. PICK q \in Recorder!Part : \E i \in 1 .. Len(g[q]) : g[q][i] = c
      BY <2>1 DEF Stands
    <3>2. PICK i \in 1 .. Len(g[q]) : g[q][i] = c
      BY <3>1
    <3>3. CASE q = p /\ i > k
      <4>1. i - k \in 1 .. m /\ c = n + (i - k)
        BY <1>3, <1>5, <3>2, <3>3
      <4>2. QED
        BY <1>1, <4>1
    <3>4. CASE ~(q = p /\ i > k)
      <4>1. \E j \in 1 .. Len(f[q]) : f[q][j] = c
        <5>1. CASE q = p
          <6>1. i \in 1 .. k /\ k = Len(f[q]) /\ f[q] = s
            BY <1>1, <1>3, <3>2, <3>4, <5>1 DEF k, s
          <6>2. QED
            BY <1>4, <3>2, <5>1, <6>1
        <5>2. CASE q # p
          BY <1>2, <3>2, <5>2
        <5>3. QED
          BY <5>1, <5>2
      <4>2. c \in 1 .. n
        BY <4>1 DEF LogIs, Stands
      <4>3. QED
        BY <1>1, <4>2
    <3>5. QED
      BY <3>3, <3>4
  <2>2. ASSUME c \in 1 .. n PROVE Stands(g, c)
    <3>1. Stands(f, c)
      BY <2>2 DEF LogIs
    <3>2. PICK q \in Recorder!Part : \E i \in 1 .. Len(f[q]) : f[q][i] = c
      BY <3>1 DEF Stands
    <3>3. PICK i \in 1 .. Len(f[q]) : f[q][i] = c
      BY <3>2
    <3>4. i \in 1 .. Len(g[q]) /\ g[q][i] = c
      <4>1. CASE q = p
        BY <1>3, <1>4, <3>3, <4>1 DEF s, k
      <4>2. CASE q # p
        BY <1>2, <3>3, <4>2
      <4>3. QED
        BY <4>1, <4>2
    <3>5. QED
      BY <3>4 DEF Stands
  <2>3. ASSUME c > n, c <= n + m PROVE Stands(g, c)
    <3>1. PICK i \in 1 .. k + m : i = (c - n) + k
      BY <1>1, <2>3
    <3>2. i > k /\ n + (i - k) = c
      BY <1>1, <2>3, <3>1
    <3>3. i \in 1 .. Len(g[p]) /\ g[p][i] = c
      BY <1>3, <1>5, <3>2
    <3>4. QED
      BY <3>3 DEF Stands
  <2>4. c \in 1 .. n + m => c \in 1 .. n \/ (c > n /\ c <= n + m)
    BY <1>1
  <2>5. QED
    BY <2>1, <2>2, <2>3, <2>4
<1>8. InOrder(g)
  <2>1. SUFFICES ASSUME NEW q \in Recorder!Part, NEW r \in Recorder!Part,
                        NEW i \in 1 .. Len(g[q]), NEW j \in 1 .. Len(g[r]),
                        q < r \/ (q = r /\ i < j)
                 PROVE  g[q][i] < g[r][j]
    BY DEF InOrder
  <2>2. q \in Nat /\ r \in Nat /\ p \in Nat
    BY PartNat
  <2>3. CASE q = p /\ r = p
    <3>1. i < j /\ i \in 1 .. k + m /\ j \in 1 .. k + m
      BY <1>3, <2>1, <2>2, <2>3
    <3>2. CASE j <= k
      <4>1. i \in 1 .. k /\ j \in 1 .. k
        BY <1>1, <3>1, <3>2
      <4>2. s[i] < s[j]
        BY <3>1, <4>1 DEF LogIs, InOrder, s, k
      <4>3. QED
        BY <1>4, <2>3, <4>1, <4>2
    <3>3. CASE j > k /\ i <= k
      <4>1. i \in 1 .. k
        BY <1>1, <3>1, <3>3
      <4>2. g[p][i] \in Nat /\ g[p][i] <= n
        BY <1>4, <1>6, <4>1 DEF s, k
      <4>3. j - k \in 1 .. m /\ g[p][j] = n + (j - k)
        BY <1>5, <3>1, <3>3
      <4>4. g[p][i] < g[p][j]
        BY <1>1, <4>2, <4>3, Behind
      <4>5. QED
        BY <2>3, <4>4
    <3>4. CASE i > k
      <4>1. j > k
        BY <1>1, <3>1, <3>4
      <4>2. g[p][i] = n + (i - k) /\ g[p][j] = n + (j - k)
        BY <1>5, <3>1, <3>4, <4>1
      <4>3. n + (i - k) < n + (j - k)
        BY <1>1, <3>1
      <4>4. QED
        BY <2>3, <4>2, <4>3
    <3>5. (j <= k \/ (j > k /\ i <= k)) \/ i > k
      BY <1>1, <3>1
    <3>6. QED
      BY <3>2, <3>3, <3>4, <3>5
  <2>4. CASE q # p /\ r # p
    <3>1. g[q] = f[q] /\ g[r] = f[r]
      BY <1>2, <2>4
    <3>2. QED
      BY <2>1, <3>1 DEF LogIs, InOrder
  <2>5. CASE q # p /\ r = p
    <3>1. g[q] = f[q] /\ q < r
      BY <1>2, <2>1, <2>5
    <3>2. CASE j <= k
      <4>1. j \in 1 .. k
        BY <1>1, <1>3, <2>5, <3>2
      <4>2. j \in 1 .. Len(f[r]) /\ g[r][j] = f[r][j]
        BY <1>4, <2>5, <4>1 DEF s, k
      <4>3. QED
        BY <3>1, <4>2 DEF LogIs, InOrder
    <3>3. CASE j > k
      <4>1. g[q][i] \in Nat /\ g[q][i] <= n
        BY <1>6, <3>1
      <4>2. j - k \in 1 .. m /\ g[p][j] = n + (j - k)
        BY <1>3, <1>5, <2>5, <3>3
      <4>3. g[q][i] < g[p][j]
        BY <1>1, <4>1, <4>2, Behind
      <4>4. QED
        BY <2>5, <4>3
    <3>4. QED
      BY <1>1, <1>3, <2>5, <3>2, <3>3
  <2>6. CASE q = p /\ r # p
    <3>1. r > p
      BY <2>1, <2>2, <2>6
    <3>2. g[r] = <<>>
      BY <1>2, <2>6, <3>1
    <3>3. FALSE
      <4>1. Len(<<>>) = 0
        OBVIOUS
      <4>2. QED
        BY <3>2, <4>1
    <3>4. QED
      BY <3>3
  <2>7. QED
    BY <2>3, <2>4, <2>5, <2>6
<1>9. QED
  BY <1>2, <1>7, <1>8 DEF LogIs, s, m

\* A record that stands at the end of its file is followed by nothing yet.
LEMMA FollowsEnd ==
    ASSUME NEW f, NEW n \in Nat, LogIs(f, n), NEW r \in RecRecord, Runs(r.pending, n),
           Len(f[r.part]) = r.offset
    PROVE  Follows(r, f)
<1>1. /\ r.offset \in Nat /\ Len(r.pending) \in Nat
  BY RecFields, LenProperties
<1>2. SUFFICES ASSUME NEW i \in 1 .. Len(r.pending)
               PROVE  ~Stands(f, r.pending[i]) /\ ~(r.offset + i <= Len(f[r.part]))
  BY DEF Follows
<1>3. r.pending[i] = n + i /\ i \in Nat /\ i >= 1
  BY <1>1 DEF Runs
<1>4. n + i \in Nat /\ n + i \notin 1 .. n
  BY <1>3
<1>5. ~Stands(f, r.pending[i])
  BY <1>3, <1>4 DEF LogIs
<1>6. ~(r.offset + i <= r.offset)
  BY <1>1, <1>3
<1>7. QED
  BY <1>5, <1>6

LEMMA CachedIs ==
    ASSUME NEW r \in RecRecord, NEW b \in Seq(Nat), NEW x, x = Recorder!Cached(r, b)
    PROVE  /\ x \in RecRecord /\ x.part = r.part /\ x.offset = r.offset
           /\ x.pending = r.pending \o b
<1>1. x = [r EXCEPT !.pending = r.pending \o b] /\ r.pending \o b \in Seq(Nat)
  BY RecFields, SetOfConcat DEF Recorder!Cached
<1>2. QED
  BY <1>1 DEF RecRecord

LEMMA FollowsCached ==
    ASSUME NEW f, NEW n \in Nat, LogIs(f, n), NEW r \in RecRecord, NEW b \in Seq(Nat), NEW top,
           MemoryRuns(r, b, n, top), Len(f[r.part]) = r.offset,
           NEW x, x = Recorder!Cached(r, b)
    PROVE  Follows(x, f) /\ Follows(r, f)
<1>1. /\ x \in RecRecord /\ x.part = r.part /\ x.offset = r.offset
      /\ x.pending = r.pending \o b
  BY CachedIs
<1>2. Runs(r.pending, n) /\ Runs(b, n + Len(r.pending))
  BY DEF MemoryRuns
<1>3. r.pending \in Seq(Nat)
  BY RecFields
<1>4. Runs(x.pending, n)
  BY <1>1, <1>2, <1>3, RunsJoined
<1>5. Follows(r, f)
  BY <1>2, FollowsEnd
<1>6. Len(f[x.part]) = x.offset
  BY <1>1
<1>7. Follows(x, f)
  BY <1>1, <1>4, <1>6, FollowsEnd
<1>8. QED
  BY <1>5, <1>7

\* A recovery beside the files leaves out all they hold of the record.
LEMMA CommittedSkips ==
    ASSUME RecTyped, NEW r \in RecRecord, Follows(r, part), NEW c, c = Recorder!Committed(r, TRUE)
    PROVE  \A i \in 1 .. Len(r.pending) : i > c => ~Stands(part, r.pending[i])
<1> DEFINE s == part[r.part]
           t == r.pending
           o == r.offset
           end == Recorder!Min({Len(s), o + Len(t)})
           there == SubSeq(s, o + 1, end)
<1>1. s \in Seq(Nat) /\ t \in Seq(Nat) /\ o \in Nat /\ Len(s) \in Nat /\ Len(t) \in Nat
  BY RecFields, LenProperties DEF RecTyped
<1>2. c = IF there = SubSeq(t, 1, Len(there)) THEN Len(there) ELSE 0
  BY DEF Recorder!Committed
<1>3. \A i \in 1 .. Len(t) : /\ Stands(part, t[i]) => o + i <= Len(s)
                             /\ o + i <= Len(s) => s[o + i] = t[i]
  BY DEF Follows
<1> HIDE DEF s, t, o
<1>4. end \in Nat /\ end <= Len(s) /\ end <= o + Len(t) /\ end \in {Len(s), o + Len(t)}
  <2>1. o + Len(t) \in Nat
    BY <1>1
  <2>2. QED
    BY <1>1, <2>1, LeastOfTwo
<1> HIDE DEF end
<1>5. \A i \in o + 1 .. end : s[i] \in Nat
  <2>1. \A i \in 1 .. Len(s) : s[i] \in Nat
    BY <1>1, ElementOfSeq
  <2>2. \A i \in o + 1 .. end : i \in 1 .. Len(s)
    BY <1>1, <1>4
  <2>3. QED
    BY <2>1, <2>2
<1>6. /\ there \in Seq(Nat)
      /\ Len(there) = IF o + 1 <= end THEN end - (o + 1) + 1 ELSE 0
      /\ \A i \in 1 .. end - (o + 1) + 1 : there[i] = s[o + 1 + i - 1]
  <2>1. o + 1 \in Int /\ end \in Int
    BY <1>1, <1>4
  <2>2. QED
    BY <1>5, <2>1, SubSeqProperties
<1> HIDE DEF there
<1> DEFINE k == Len(there)
           u == SubSeq(t, 1, k)
<1>7. k \in Nat /\ k <= Len(t)
  BY <1>1, <1>4, <1>6
<1> HIDE DEF k
<1>8. u \in Seq(Nat) /\ Len(u) = k /\ \A i \in 1 .. k : u[i] = t[i]
  <2>1. \A j \in 1 .. k : t[j] \in Nat
    <3>1. \A j \in 1 .. Len(t) : t[j] \in Nat
      BY <1>1, ElementOfSeq
    <3>2. QED
      BY <1>1, <1>7, <3>1
  <2>2. /\ u \in Seq(Nat) /\ Len(u) = IF 1 <= k THEN k - 1 + 1 ELSE 0
        /\ \A j \in 1 .. k - 1 + 1 : u[j] = t[1 + j - 1]
    <3>1. 1 \in Int /\ k \in Int
      BY <1>7
    <3>2. QED
      BY <2>1, <3>1, SubSeqProperties
  <2>3. Len(u) = k
    BY <1>7, <2>2
  <2>4. ASSUME NEW i \in 1 .. k PROVE u[i] = t[i]
    <3>1. i \in 1 .. k - 1 + 1 /\ 1 + i - 1 = i
      BY <1>7
    <3>2. QED
      BY <2>2, <3>1
  <2>5. QED
    BY <2>2, <2>3, <2>4
<1> HIDE DEF u
<1>9. \A i \in 1 .. k : there[i] = t[i]
  <2>1. SUFFICES ASSUME NEW i \in 1 .. k PROVE there[i] = t[i]
    OBVIOUS
  <2>2. o + 1 <= end /\ i \in 1 .. end - (o + 1) + 1 /\ o + 1 + i - 1 = o + i
    BY <1>1, <1>4, <1>6 DEF k
  <2>3. there[i] = s[o + i]
    BY <1>6, <2>2
  <2>4. o + i <= Len(s) /\ i \in 1 .. Len(t)
    BY <1>1, <1>4, <1>7, <2>2
  <2>5. QED
    BY <1>3, <2>3, <2>4
<1>10. there = u
  <2>1. Len(there) = Len(u) /\ \A i \in 1 .. Len(there) : there[i] = u[i]
    BY <1>8, <1>9 DEF k
  <2>2. QED
    BY <1>6, <1>8, <2>1, SeqEqual
<1>11. c = k
  BY <1>2, <1>10 DEF u, k
<1>12. ASSUME NEW i \in 1 .. Len(t), i > k PROVE ~(o + i <= Len(s))
  BY <1>1, <1>4, <1>6, <1>12 DEF k
<1>13. \A i \in 1 .. Len(t) : i > c => ~Stands(part, t[i])
  BY <1>3, <1>11, <1>12
<1>14. QED
  BY <1>13 DEF t

\* A step that leaves the files alone, and memory while the recorder lives.
LEMMA OutputSame ==
    ASSUME RecInv, RecInv', OutputInv, UNCHANGED part,
           Alive' => Alive /\ UNCHANGED <<rec, buffer, received>>,
           \/ cache' = cache \/ cache' = None
           \/ Alive' /\ (cache' = rec \/ cache' = Recorder!Cached(rec, buffer)),
           stage' # "write" \/ UNCHANGED <<stage, cache, rec>>,
           RecoveredInv'
    PROVE  OutputInv'
<1>1. PICK n \in Nat : LogIs(part, n) /\ (Alive => MemoryRuns(rec, buffer, n, received))
  BY DEF OutputInv, LogInv
<1>2. LogInv'
  <2>1. LogIs(part', n)
    BY <1>1
  <2>2. Alive' => MemoryRuns(rec', buffer', n, received')
    BY <1>1
  <2>3. QED
    BY <2>1, <2>2 DEF LogInv
<1>3. cache' # None => Follows(cache', part')
  <2>1. CASE cache' = cache
    BY <2>1 DEF OutputInv, CacheInv
  <2>2. CASE Alive' /\ (cache' = rec \/ cache' = Recorder!Cached(rec, buffer))
    <3>1. /\ rec \in RecRecord /\ buffer \in Seq(Nat) /\ Len(part[rec.part]) = rec.offset
          /\ MemoryRuns(rec, buffer, n, received)
      BY <1>1, <2>2 DEF RecInv, RecTyped, Fits
    <3>2. Follows(Recorder!Cached(rec, buffer), part) /\ Follows(rec, part)
      BY <1>1, <3>1, FollowsCached
    <3>3. QED
      BY <2>2, <3>2
  <2>3. QED
    BY <2>1, <2>2
<1>4. stage' = "write" => cache' = rec'
  BY DEF OutputInv, CacheInv
<1>5. QED
  BY <1>2, <1>3, <1>4 DEF OutputInv, CacheInv

\* Nothing is recovered while something is recorded.
LEMMA RecoveredNone ==
    ASSUME RecoveredInv, jobs # <<>> \/ timer \/ accepting \/ status \in {"idle", "recording"},
           UNCHANGED <<recovered, interrupted>>,
           status' = "stopped" => rec'.pending = <<>> /\ buffer' = <<>>
    PROVE  RecoveredInv'
<1>1. recovered = <<>> /\ interrupted \in Nat
  BY DEF RecoveredInv
<1>2. Len(recovered') = 0 /\ recovered' = <<>>
  BY <1>1
<1>3. \A i \in 1 .. Len(recovered') : \A c \in Recorder!ToSet(recovered'[i]) : ~Stands(part', c)
  BY <1>2
<1>4. Len(recovered')
          <= interrupted' + (IF recovery'.stage = "written" \/ Over' THEN 1 ELSE 0)
  BY <1>1, <1>2
<1>5. QED
  BY <1>1, <1>2, <1>3, <1>4 DEF RecoveredInv

LEMMA StartOutput ==
    ASSUME RecInv, RecInv', OutputInv, Recorder!Start
    PROVE  OutputInv'
<1>1. /\ status = "idle" /\ status' = "recording" /\ cache' = rec
      /\ UNCHANGED <<received, jobs, stage, rec, buffer, part, recovered, interrupted>>
  BY DEF Recorder!Start, Recorder!files
<1>2. stage = "wait"
  BY <1>1 DEF RecInv, JobsShaped
<1>3. RecoveredInv'
  BY <1>1, RecoveredNone DEF OutputInv
<1>4. QED
  BY <1>1, <1>2, <1>3, OutputSame DEF Alive

LEMMA TimerOutput ==
    ASSUME RecInv, RecInv', OutputInv, Recorder!TimerFires \/ Recorder!Stop
    PROVE  OutputInv'
<1>1. /\ UNCHANGED <<received, rec, buffer, cache, part, recovered, interrupted, stage>>
      /\ \/ timer /\ UNCHANGED status
         \/ status = "recording" /\ status' = "saving"
  BY DEF Recorder!TimerFires, Recorder!Stop, Recorder!files
<1>2. RecoveredInv'
  <2>1. status' = "stopped" => rec'.pending = <<>> /\ buffer' = <<>>
    BY <1>1 DEF OutputInv, RecoveredInv
  <2>2. QED
    BY <1>1, <2>1, RecoveredNone DEF OutputInv
<1>3. Alive' => Alive
  BY <1>1 DEF Alive
<1>4. QED
  BY <1>1, <1>2, <1>3, OutputSame

LEMMA ReceiveOutput ==
    ASSUME RecInv, RecInv', OutputInv, Recorder!Receive
    PROVE  OutputInv'
<1>1. /\ accepting /\ received' = received + 1
      /\ buffer' = Append(buffer, received + 1)
      /\ status' = "error" \/ UNCHANGED status
      /\ UNCHANGED <<stage, rec, cache, part, recovered, interrupted>>
  BY DEF Recorder!Receive, Recorder!files
<1>2. status = "recording" /\ Alive
  BY <1>1 DEF RecInv, JobsShaped, Alive
<1>3. /\ rec \in RecRecord /\ buffer \in Seq(Nat) /\ received \in Nat /\ received + 1 \in Nat
      /\ Len(rec.pending) \in Nat /\ Len(buffer) \in Nat
  <2>1. rec \in RecRecord /\ buffer \in Seq(Nat) /\ received \in 0 .. MaxOutput /\ MaxOutput \in Nat
    BY RecorderHolds DEF RecInv, RecTyped, Recorder!RecorderBounds
  <2>2. QED
    BY <2>1, RecFields, LenProperties
<1>4. PICK n \in Nat : LogIs(part, n) /\ MemoryRuns(rec, buffer, n, received)
  BY <1>2 DEF OutputInv, LogInv
<1>5. MemoryRuns(rec, buffer', n, received + 1)
  <2> DEFINE m == n + Len(rec.pending)
  <2>1. m \in Nat /\ m + Len(buffer) = received /\ Runs(rec.pending, n) /\ Runs(buffer, m)
    BY <1>3, <1>4 DEF MemoryRuns
  <2>2. /\ Len(buffer') = Len(buffer) + 1
        /\ \A i \in 1 .. Len(buffer) : buffer'[i] = buffer[i]
        /\ buffer'[Len(buffer) + 1] = received + 1
    BY <1>1, <1>3, AppendProperties
  <2> HIDE DEF m
  <2>3. ASSUME NEW i \in 1 .. Len(buffer') PROVE buffer'[i] = m + i
    <3>1. CASE i \in 1 .. Len(buffer)
      BY <2>1, <2>2, <3>1 DEF Runs
    <3>2. CASE i = Len(buffer) + 1
      BY <1>3, <2>1, <2>2, <3>2
    <3>3. QED
      BY <1>3, <2>2, <3>1, <3>2
  <2>4. Runs(buffer', m) /\ m + Len(buffer') = received + 1
    BY <1>3, <2>1, <2>2, <2>3 DEF Runs
  <2>5. QED
    BY <2>1, <2>4 DEF MemoryRuns, m
<1>6. LogInv'
  <2>1. LogIs(part', n) /\ MemoryRuns(rec', buffer', n, received')
    BY <1>1, <1>4, <1>5
  <2>2. QED
    BY <2>1 DEF LogInv
<1>7. CacheInv'
  BY <1>1 DEF OutputInv, CacheInv
<1>8. RecoveredInv'
  BY <1>1, <1>2, RecoveredNone DEF OutputInv
<1>9. QED
  BY <1>6, <1>7, <1>8 DEF OutputInv

\* A checkpoint moves the buffer behind the batch.
LEMMA BatchRuns ==
    ASSUME RecInv, NEW n \in Nat, MemoryRuns(rec, buffer, n, received), NEW disk \in BOOLEAN,
           rec' = Recorder!Batch(disk), buffer' = (IF disk THEN <<>> ELSE buffer)
    PROVE  MemoryRuns(rec', buffer', n, received)
<1>1. rec \in RecRecord /\ buffer \in Seq(Nat)
  BY DEF RecInv, RecTyped
<1>2. CASE ~disk
  BY <1>2 DEF Recorder!Batch
<1>3. CASE disk
  <2> DEFINE r == [rec EXCEPT !.pending = rec.pending \o buffer]
  <2>1. rec' = Recorder!Rotated(r) /\ buffer' = <<>>
    BY <1>3 DEF Recorder!Batch
  <2>2. r = Recorder!Cached(rec, buffer)
    BY DEF Recorder!Cached
  <2>3. r \in RecRecord /\ r.pending = rec.pending \o buffer
    BY <1>1, <2>2, CachedIs
  <2> HIDE DEF r
  <2>4. rec'.pending = rec.pending \o buffer
    BY <2>1, <2>3 DEF Recorder!Rotated, RecRecord
  <2>5. Runs(rec.pending, n) /\ Runs(buffer, n + Len(rec.pending))
        /\ n + Len(rec.pending) + Len(buffer) = received
    BY DEF MemoryRuns
  <2>6. /\ rec.pending \in Seq(Nat) /\ Len(rec.pending) \in Nat /\ Len(buffer) \in Nat
    BY <1>1, RecFields, LenProperties
  <2>7. Runs(rec'.pending, n) /\ Len(rec'.pending) = Len(rec.pending) + Len(buffer)
    BY <1>1, <2>4, <2>5, <2>6, RunsJoined
  <2>8. Len(buffer') = 0 /\ Runs(buffer', n + Len(rec'.pending))
    BY <2>1 DEF Runs
  <2>9. n + Len(rec'.pending) + Len(buffer') = received
    BY <2>5, <2>6, <2>7, <2>8
  <2>10. QED
    BY <2>7, <2>8, <2>9 DEF MemoryRuns
<1>4. QED
  BY <1>2, <1>3

LEMMA CheckpointOutput ==
    ASSUME RecInv, RecInv', OutputInv, NEW disk \in BOOLEAN, NEW ok \in BOOLEAN,
           Recorder!Checkpoint(disk, ok)
    PROVE  OutputInv'
<1>1. /\ jobs # <<>> /\ rec' = Recorder!Batch(disk)
      /\ buffer' = (IF disk THEN <<>> ELSE buffer)
      /\ UNCHANGED <<received, part, recovered, interrupted>>
  BY DEF Recorder!Checkpoint, Recorder!files
<1>2. \/ Recorder!Fail /\ UNCHANGED cache
      \/ cache' = Recorder!Cached(rec', buffer') /\ UNCHANGED status /\ disk
      \/ cache' = Recorder!Cached(rec', buffer') /\ UNCHANGED status /\ Recorder!Saved
  BY DEF Recorder!Checkpoint
<1>3. Alive /\ status' \in {"recording", "saving", "error"} /\ Alive'
  <2>1. status \in {"recording", "saving", "error"}
    BY <1>1, JobRuns
  <2>2. status' \in {"recording", "saving", "error"}
    BY <1>2, <2>1 DEF Recorder!Fail
  <2>3. QED
    BY <2>1, <2>2 DEF Alive
<1>4. PICK n \in Nat : LogIs(part, n) /\ MemoryRuns(rec, buffer, n, received)
  BY <1>3 DEF OutputInv, LogInv
<1>5. MemoryRuns(rec', buffer', n, received')
  <2>1. MemoryRuns(rec', buffer', n, received)
    BY <1>1, <1>4, BatchRuns
  <2>2. QED
    BY <1>1, <2>1
<1>6. LogInv'
  <2>1. LogIs(part', n)
    BY <1>1, <1>4
  <2>2. QED
    BY <1>5, <2>1 DEF LogInv
<1>7. cache' # None => Follows(cache', part')
  <2>1. CASE UNCHANGED cache
    BY <1>1, <2>1 DEF OutputInv, CacheInv
  <2>2. CASE cache' = Recorder!Cached(rec', buffer')
    <3>1. rec' \in RecRecord /\ buffer' \in Seq(Nat) /\ Len(part'[rec'.part]) = rec'.offset
      BY <1>3 DEF RecInv, RecTyped, Fits
    <3>2. LogIs(part', n)
      BY <1>1, <1>4
    <3>3. Follows(Recorder!Cached(rec', buffer'), part')
      BY <1>5, <3>1, <3>2, FollowsCached
    <3>4. QED
      BY <2>2, <3>3
  <2>3. QED
    BY <1>2, <2>1, <2>2
<1>8. stage' = "write" => cache' = rec'
  <2>1. SUFFICES ASSUME stage' = "write" PROVE cache' = rec'
    OBVIOUS
  <2>2. cache' = Recorder!Cached(rec', buffer') /\ disk
    BY <1>2, <2>1 DEF Recorder!Fail, Recorder!Saved
  <2>3. buffer' = <<>> /\ rec' \in RecRecord
    BY <1>1, <2>2 DEF RecInv, RecTyped
  <2>4. rec'.pending \in Seq(Nat)
    BY <2>3, RecFields
  <2>5. rec'.pending \o <<>> = rec'.pending
    BY <2>4, ConcatEmptySeq
  <2>6. cache' = [rec' EXCEPT !.pending = rec'.pending]
    BY <2>2, <2>3, <2>5 DEF Recorder!Cached
  <2>7. QED
    BY <2>3, <2>6 DEF RecRecord
<1>9. RecoveredInv'
  BY <1>1, <1>3, RecoveredNone DEF OutputInv
<1>10. QED
  BY <1>6, <1>7, <1>8, <1>9 DEF OutputInv, CacheInv

LEMMA WriteOutput ==
    ASSUME RecInv, RecInv', OutputInv, Recorder!WritePending
    PROVE  OutputInv'
<1>1. /\ stage = "write" /\ rec' = Recorder!Progressed(rec) /\ stage' = "persist"
      /\ part' = [part EXCEPT ![rec.part]
                     = Recorder!Written(part[rec.part], rec.offset, rec.pending)]
      /\ UNCHANGED <<received, status, jobs, buffer, cache, recovered, interrupted>>
  BY DEF Recorder!WritePending
<1>2. jobs # <<>>
  BY <1>1 DEF RecInv, JobsShaped
<1>3. /\ Alive /\ status # "stopped" /\ part \in [Recorder!Part -> Seq(Nat)]
      /\ rec \in RecRecord /\ buffer \in Seq(Nat)
      /\ rec.part \in Recorder!Part /\ rec.offset \in Nat /\ rec.pending \in Seq(Nat)
      /\ part[rec.part] \in Seq(Nat) /\ Len(rec.pending) \in Nat /\ Len(buffer) \in Nat
  <2>1. /\ Alive /\ status # "stopped" /\ rec \in RecRecord /\ buffer \in Seq(Nat)
        /\ part \in [Recorder!Part -> Seq(Nat)]
    BY <1>2, JobRuns DEF RecInv, RecTyped
  <2>2. QED
    BY <2>1, RecFields, LenProperties
<1>4. /\ Len(part[rec.part]) = rec.offset
      /\ \A q \in Recorder!Part : q > rec.part => part[q] = <<>>
  BY <1>3 DEF RecInv, Fits
<1>5. part' = [part EXCEPT ![rec.part] = part[rec.part] \o rec.pending]
  BY <1>1, <1>3, <1>4, WrittenBehind
<1>6. PICK n \in Nat : LogIs(part, n) /\ MemoryRuns(rec, buffer, n, received)
  BY <1>3 DEF OutputInv, LogInv
<1>7. LogIs(part', n + Len(rec.pending)) /\ part'[rec.part] = part[rec.part] \o rec.pending
  <2>1. Runs(rec.pending, n)
    BY <1>6 DEF MemoryRuns
  <2>2. PICK p \in Recorder!Part : p = rec.part
    BY <1>3
  <2>3. PICK t \in Seq(Nat) : t = rec.pending
    BY <1>3
  <2>4. PICK g : g = part'
    OBVIOUS
  <2>5. /\ g = [part EXCEPT ![p] = part[p] \o t] /\ Runs(t, n) /\ LogIs(part, n)
        /\ \A q \in Recorder!Part : q > p => part[q] = <<>>
    BY <1>4, <1>5, <1>6, <2>1, <2>2, <2>3, <2>4
  <2>6. LogIs(g, n + Len(t)) /\ g[p] = part[p] \o t
    BY <1>3, <2>5, LogGrows
  <2>7. QED
    BY <2>2, <2>3, <2>4, <2>6
<1>8. LogInv'
  <2>1. rec'.pending = <<>>
    BY <1>1, <1>3 DEF Recorder!Progressed, RecRecord
  <2>2. Len(<<>>) = 0 /\ n + Len(rec.pending) \in Nat
    BY <1>3
  <2>3. /\ Runs(buffer, n + Len(rec.pending))
        /\ n + Len(rec.pending) + Len(buffer) = received
    BY <1>6 DEF MemoryRuns
  <2>4. /\ Runs(rec'.pending, n + Len(rec.pending))
        /\ Runs(buffer', n + Len(rec.pending) + Len(rec'.pending))
        /\ n + Len(rec.pending) + Len(rec'.pending) + Len(buffer') = received'
    <3>1. Runs(<<>>, n + Len(rec.pending))
      BY <2>2 DEF Runs
    <3>2. n + Len(rec.pending) + 0 = n + Len(rec.pending)
      BY <2>2
    <3>3. QED
      BY <1>1, <2>1, <2>2, <2>3, <3>1, <3>2
  <2>5. MemoryRuns(rec', buffer', n + Len(rec.pending), received')
    BY <2>4 DEF MemoryRuns
  <2>6. QED
    BY <1>7, <2>2, <2>5 DEF LogInv
<1>9. Follows(rec, part')
  <2>1. SUFFICES ASSUME NEW i \in 1 .. Len(rec.pending)
                 PROVE  /\ rec.offset + i <= Len(part'[rec.part])
                        /\ part'[rec.part][rec.offset + i] = rec.pending[i]
    BY DEF Follows
  <2>2. /\ Len(part[rec.part] \o rec.pending) = rec.offset + Len(rec.pending)
        /\ \A j \in 1 .. rec.offset + Len(rec.pending) :
               (part[rec.part] \o rec.pending)[j]
                   = IF j <= rec.offset THEN part[rec.part][j] ELSE rec.pending[j - rec.offset]
    <3>1. PICK s \in Seq(Nat), t \in Seq(Nat) : s = part[rec.part] /\ t = rec.pending
      BY <1>3
    <3>2. /\ Len(s \o t) = Len(s) + Len(t)
          /\ \A j \in 1 .. Len(s) + Len(t) : (s \o t)[j]
                 = IF j <= Len(s) THEN s[j] ELSE t[j - Len(s)]
      BY ConcatProperties
    <3>3. Len(s) = rec.offset
      BY <1>4, <3>1
    <3>4. QED
      BY <3>1, <3>2, <3>3
  <2>3. /\ rec.offset + i \in 1 .. rec.offset + Len(rec.pending)
        /\ ~(rec.offset + i <= rec.offset) /\ (rec.offset + i) - rec.offset = i
        /\ rec.offset + i <= rec.offset + Len(rec.pending)
    BY <1>3
  <2>4. (part[rec.part] \o rec.pending)[rec.offset + i] = rec.pending[i]
    BY <2>2, <2>3
  <2>5. QED
    BY <1>7, <2>2, <2>3, <2>4
<1>10. CacheInv'
  <2>1. cache' = rec /\ stage' # "write"
    BY <1>1 DEF OutputInv, CacheInv
  <2>2. QED
    BY <1>9, <2>1 DEF CacheInv
<1>11. RecoveredInv'
  BY <1>1, <1>2, <1>3, RecoveredNone DEF OutputInv
<1>12. QED
  BY <1>8, <1>10, <1>11 DEF OutputInv

\* The end of a write, of a stop and of a failure change the cache, or nothing.
LEMMA EndOutput ==
    ASSUME RecInv, RecInv', OutputInv, NEW ok \in BOOLEAN,
           \/ Recorder!WriteFails \/ Recorder!PersistProgress(ok)
           \/ Recorder!RemoveRecord(ok) \/ Recorder!EndFail(ok)
    PROVE  OutputInv'
<1>1. /\ stage \in {"write", "persist", "remove", "fail"} /\ stage' # "write"
      /\ UNCHANGED <<received, rec, buffer, part, recovered, interrupted>>
      /\ \/ cache' = cache /\ status' \in {status, "error"}
         \/ cache' = Recorder!Cached(rec, buffer) /\ status' = status
         \/ cache' = None /\ status' = "stopped" /\ stage = "remove"
  BY DEF Recorder!WriteFails, Recorder!PersistProgress, Recorder!RemoveRecord,
         Recorder!EndFail, Recorder!Saved, Recorder!Fail, Recorder!files
<1>2. jobs # <<>>
  BY <1>1 DEF RecInv, JobsShaped
<1>3. Alive /\ status # "stopped"
  BY <1>2, JobRuns
<1>4. RecoveredInv'
  <2>1. ASSUME status' = "stopped" PROVE rec'.pending = <<>> /\ buffer' = <<>>
    <3>1. stage = "remove"
      BY <1>1, <1>3, <2>1
    <3>2. jobs = <<"stop">>
      BY <3>1 DEF RecInv, JobsShaped
    <3>3. QED
      BY <1>1, <3>1, <3>2 DEF RecInv, Emptied
  <2>2. QED
    BY <1>1, <1>2, <2>1, RecoveredNone DEF OutputInv
<1>5. cache' = Recorder!Cached(rec, buffer) /\ status' = status => Alive'
  BY <1>3 DEF Alive
<1>6. QED
  BY <1>1, <1>3, <1>4, <1>5, OutputSame

LEMMA BeginOutput ==
    ASSUME RecInv, RecInv', OutputInv,
           Recorder!BeginSavePending \/ Recorder!BeginRecoverCached
    PROVE  OutputInv'
<1>1. /\ recovery = Recorder!Idle
      /\ recovery' = [Recorder!Idle EXCEPT !.by = recovery'.by, !.stage = "begun"]
      /\ UNCHANGED <<received, accepting, timer, jobs, stage, rec, buffer, status, cache, part,
                     recovered, interrupted>>
  BY DEF Recorder!BeginSavePending, Recorder!BeginRecoverCached, Recorder!memory, Recorder!files,
         Recorder!Idle
<1>2. recovery.stage = "none" /\ recovery'.stage = "begun"
  BY <1>1 DEF Recorder!Idle
<1>3. Over' <=> Over
  BY <1>1 DEF Over
<1>4. RecoveredInv'
  BY <1>1, <1>2, <1>3 DEF OutputInv, RecoveredInv
<1>5. QED
  BY <1>1, <1>4, OutputSame DEF Alive

\* A recovery adds at most one file, of what stands nowhere.
LEMMA RecoveryAdds ==
    ASSUME RecTyped, NEW r \in RecRecord, NEW b \in BOOLEAN, Follows(r, part),
           Recorder!WriteRecovery(r, b)
    PROVE  \/ recovered' = recovered
           \/ \E rest \in Seq(Nat) :
                  /\ recovered' = Append(recovered, rest) /\ r.pending # <<>>
                  /\ \A c \in Recorder!ToSet(rest) : ~Stands(part, c)
<1> DEFINE t == r.pending
           c == Recorder!Committed(r, b)
           rest == SubSeq(t, c + 1, Len(t))
<1>1. recovered' = recovered \o (IF b /\ rest # <<>> THEN <<rest>> ELSE <<>>)
  BY DEF Recorder!WriteRecovery
<1>2. t \in Seq(Nat) /\ Len(t) \in Nat /\ recovered \in Seq(Seq(Nat))
  BY RecFields, LenProperties DEF RecTyped
<1>3. c \in Nat /\ c <= Len(t)
  BY CommittedThere
<1>4. b => \A i \in 1 .. Len(t) : i > c => ~Stands(part, t[i])
  <2>1. SUFFICES ASSUME b PROVE \A i \in 1 .. Len(t) : i > c => ~Stands(part, t[i])
    OBVIOUS
  <2>2. c = Recorder!Committed(r, TRUE)
    BY <2>1
  <2> HIDE DEF c
  <2>3. QED
    BY <2>2, CommittedSkips
<1> HIDE DEF t, c
<1>5. /\ rest \in Seq(Nat)
      /\ Len(rest) = (IF c + 1 <= Len(t) THEN Len(t) - (c + 1) + 1 ELSE 0)
      /\ \A i \in 1 .. Len(t) - (c + 1) + 1 : rest[i] = t[c + 1 + i - 1]
  <2>1. c + 1 \in Int /\ Len(t) \in Int
    BY <1>2, <1>3
  <2>2. \A i \in c + 1 .. Len(t) : t[i] \in Nat
    <3>1. \A i \in 1 .. Len(t) : t[i] \in Nat
      BY <1>2, ElementOfSeq
    <3>2. \A i \in c + 1 .. Len(t) : i \in 1 .. Len(t)
      BY <1>2, <1>3
    <3>3. QED
      BY <3>1, <3>2
  <2>3. QED
    BY <2>1, <2>2, SubSeqProperties
<1> HIDE DEF rest
<1>6. CASE ~(b /\ rest # <<>>)
  <2>1. recovered \o <<>> = recovered
    BY <1>2, ConcatEmptySeq
  <2>2. QED
    BY <1>1, <1>6, <2>1
<1>7. CASE b /\ rest # <<>>
  <2>1. recovered' = Append(recovered, rest)
    <3>1. Append(recovered, rest) = recovered \o <<rest>>
      BY <1>2, <1>5, AppendIsConcat
    <3>2. QED
      BY <1>1, <1>7, <3>1
  <2>2. ASSUME NEW e \in Recorder!ToSet(rest) PROVE ~Stands(part, e)
    <3>1. PICK i \in 1 .. Len(rest) : rest[i] = e
      BY <1>5, <2>2, SetOfSeq
    <3>2. /\ i \in 1 .. Len(t) - (c + 1) + 1 /\ c + i \in 1 .. Len(t) /\ c + i > c
          /\ c + 1 + i - 1 = c + i
      BY <1>2, <1>3, <1>5, <3>1
    <3>3. e = t[c + i]
      BY <1>5, <3>1, <3>2
    <3>4. QED
      BY <1>4, <1>7, <3>2, <3>3
  <2>3. t # <<>>
    <3>1. Len(rest) # 0
      BY <1>5, <1>7, EmptySeq
    <3>2. Len(t) # 0
      BY <1>2, <1>3, <1>5, <3>1
    <3>3. Len(<<>>) = 0
      OBVIOUS
    <3>4. QED
      BY <3>2, <3>3
  <2>4. QED
    BY <1>5, <2>1, <2>2, <2>3 DEF t
<1>8. QED
  BY <1>6, <1>7

\* A recovery of what follows the files, begun when nothing is recorded any more.
LEMMA WrittenOutput ==
    ASSUME RecInv, RecInv', OutputInv, NEW r \in RecRecord, NEW b \in BOOLEAN, Follows(r, part),
           Recorder!WriteRecovery(r, b), recovery.stage = "begun",
           status \in {"error", "stopped", "dead"}, jobs = <<>>, ~timer, ~accepting,
           r.pending = <<>> \/ ~Over
    PROVE  OutputInv'
<1>1. /\ recovery'.stage = "written"
      /\ UNCHANGED <<received, accepting, timer, jobs, stage, rec, buffer, status, cache, part>>
  BY RecoveryWrites DEF RecInv
<1>2. UNCHANGED interrupted
  BY DEF Recorder!WriteRecovery
<1>3. /\ interrupted \in Nat /\ recovered \in Seq(Seq(Nat)) /\ Len(recovered) \in Nat
      /\ Len(recovered) <= interrupted + (IF Over THEN 1 ELSE 0)
      /\ \A i \in 1 .. Len(recovered) : \A c \in Recorder!ToSet(recovered[i]) : ~Stands(part, c)
  BY LenProperties DEF OutputInv, RecoveredInv, RecInv, RecTyped
<1>4. /\ Len(recovered') <= interrupted + 1
      /\ \A i \in 1 .. Len(recovered') : \A c \in Recorder!ToSet(recovered'[i]) : ~Stands(part, c)
  <2>1. CASE recovered' = recovered
    BY <1>3, <2>1
  <2>2. CASE recovered' # recovered
    <3>1. PICK rest \in Seq(Nat) :
              /\ recovered' = Append(recovered, rest) /\ r.pending # <<>>
              /\ \A c \in Recorder!ToSet(rest) : ~Stands(part, c)
      BY <2>2, RecoveryAdds DEF RecInv
    <3>2. /\ Len(recovered') = Len(recovered) + 1
          /\ \A i \in 1 .. Len(recovered) : recovered'[i] = recovered[i]
          /\ recovered'[Len(recovered) + 1] = rest
      BY <1>3, <3>1, AppendProperties
    <3>3. Len(recovered) <= interrupted
      BY <1>3, <3>1
    <3>4. \A i \in 1 .. Len(recovered') : i \in 1 .. Len(recovered) \/ i = Len(recovered) + 1
      BY <1>3, <3>2
    <3>5. QED
      BY <1>3, <3>1, <3>2, <3>3, <3>4
  <2>3. QED
    BY <2>1, <2>2
<1>5. RecoveredInv'
  BY <1>1, <1>2, <1>3, <1>4 DEF OutputInv, RecoveredInv
<1>6. QED
  BY <1>1, <1>5, OutputSame DEF Alive

LEMMA SavePendingOutput ==
    ASSUME RecInv, RecInv', OutputInv, NEW b \in BOOLEAN, Recorder!SavePending(b)
    PROVE  OutputInv'
<1>1. /\ recovery.by = "recorder" /\ recovery.stage = "begun" /\ jobs = <<>>
      /\ Recorder!WriteRecovery(Recorder!Cached(rec, buffer), b)
  BY DEF Recorder!SavePending
<1>2. status \in {"error", "stopped"} /\ ~accepting /\ ~timer
  BY <1>1 DEF RecInv, Recovering
<1>3. rec \in RecRecord /\ buffer \in Seq(Nat)
  BY DEF RecInv, RecTyped
<1>4. PICK r : r = Recorder!Cached(rec, buffer)
  OBVIOUS
<1>5. r \in RecRecord /\ r.pending = rec.pending \o buffer
  BY <1>3, <1>4, CachedIs
<1>6. Follows(r, part) /\ (r.pending = <<>> \/ ~Over)
  <2>1. CASE status = "error"
    <3>1. Alive /\ ~Over /\ Len(part[rec.part]) = rec.offset
      BY <2>1 DEF Alive, Over, RecInv, Fits
    <3>2. PICK n \in Nat : LogIs(part, n) /\ MemoryRuns(rec, buffer, n, received)
      BY <3>1 DEF OutputInv, LogInv
    <3>3. QED
      BY <1>3, <1>4, <3>1, <3>2, FollowsCached
  <2>2. CASE status = "stopped"
    <3>1. rec.pending = <<>> /\ buffer = <<>>
      BY <2>2 DEF OutputInv, RecoveredInv
    <3>2. <<>> \o <<>> = <<>> /\ Len(<<>>) = 0
      OBVIOUS
    <3>3. r.pending = <<>>
      BY <1>5, <3>1, <3>2
    <3>4. QED
      BY <3>2, <3>3 DEF Follows
  <2>3. QED
    BY <1>2, <2>1, <2>2
<1>7. Recorder!WriteRecovery(r, b)
  BY <1>1, <1>4
<1>8. QED
  BY <1>1, <1>2, <1>5, <1>6, <1>7, WrittenOutput

LEMMA RecoverCachedOutput ==
    ASSUME RecInv, RecInv', OutputInv, NEW b \in BOOLEAN, Recorder!RecoverCached(b)
    PROVE  OutputInv'
<1>1. recovery.by = "menu" /\ recovery.stage = "begun" /\ Recorder!WriteRecovery(cache, b)
  BY DEF Recorder!RecoverCached
<1>2. cache # None /\ cache \in RecRecord /\ status = "dead"
  BY <1>1 DEF RecInv, Recovering, RecTyped
<1>3. jobs = <<>> /\ ~timer /\ ~accepting
  BY <1>2 DEF RecInv, JobsShaped
<1>4. PICK r \in RecRecord : r = cache
  BY <1>2
<1>5. Recorder!WriteRecovery(r, b) /\ Follows(r, part) /\ ~Over
  BY <1>1, <1>2, <1>4 DEF OutputInv, CacheInv, Over
<1>6. QED
  BY <1>1, <1>2, <1>3, <1>5, WrittenOutput

LEMMA EndRecoveryOutput ==
    ASSUME RecInv, RecInv', OutputInv, Recorder!FinishRecovery \/ Recorder!AbandonRecovery
    PROVE  OutputInv'
<1>1. /\ recovery' = Recorder!Idle
      /\ UNCHANGED <<received, accepting, timer, jobs, stage, part, recovered>>
  BY DEF Recorder!FinishRecovery, Recorder!AbandonRecovery, Recorder!memory, Recorder!files
<1>2. /\ interrupted \in Nat /\ Len(recovered) \in Nat
      /\ Len(recovered)
             <= interrupted + (IF recovery.stage = "written" \/ Over THEN 1 ELSE 0)
  BY LenProperties DEF OutputInv, RecoveredInv, RecInv, RecTyped
<1>3. CASE Recorder!FinishRecovery
  <2>1. /\ recovery.stage = "written" /\ cache' = None /\ UNCHANGED interrupted
        /\ IF recovery.by = "recorder"
           THEN /\ status' = "stopped" /\ rec' = [rec EXCEPT !.pending = <<>>]
                /\ buffer' = <<>>
           ELSE UNCHANGED <<status, rec, buffer>>
    BY <1>3 DEF Recorder!FinishRecovery
  <2>2. /\ recovery.by \in {"recorder", "menu"}
        /\ recovery.by = "recorder" => jobs = <<>> /\ ~timer /\ ~accepting
        /\ recovery.by = "menu" => status = "dead"
    BY <2>1 DEF RecInv, RecTyped, Recovering
  <2>3. status' \in {"stopped", "dead"} /\ Over' /\ jobs = <<>> /\ ~timer /\ ~accepting
        /\ stage = "wait"
    <3>1. status' \in {"stopped", "dead"} /\ Over'
      BY <2>1, <2>2 DEF Over
    <3>2. jobs = <<>> /\ ~timer /\ ~accepting
      BY <2>2 DEF RecInv, JobsShaped
    <3>3. QED
      BY <3>1, <3>2 DEF RecInv, JobsShaped
  <2>4. status' = "stopped" => rec'.pending = <<>> /\ buffer' = <<>>
    <3>1. rec \in RecRecord
      BY DEF RecInv, RecTyped
    <3>2. QED
      BY <2>1, <2>2, <3>1 DEF RecRecord
  <2>5. RecoveredInv'
    <3>1. Len(recovered') <= interrupted' + 1
      BY <1>1, <1>2, <2>1
    <3>2. Len(recovered')
              <= interrupted' + (IF recovery'.stage = "written" \/ Over' THEN 1 ELSE 0)
      BY <2>3, <3>1
    <3>3. \A i \in 1 .. Len(recovered') : \A c \in Recorder!ToSet(recovered'[i]) :
              ~Stands(part', c)
      BY <1>1 DEF OutputInv, RecoveredInv
    <3>4. QED
      BY <1>1, <1>2, <2>1, <2>3, <2>4, <3>2, <3>3 DEF RecoveredInv
  <2>6. QED
    BY <1>1, <2>1, <2>3, <2>5, OutputSame DEF Alive
<1>4. CASE Recorder!AbandonRecovery
  <2>1. /\ interrupted' = interrupted + (IF recovery.stage = "written" THEN 1 ELSE 0)
        /\ UNCHANGED <<status, cache, rec, buffer>>
    BY <1>4 DEF Recorder!AbandonRecovery, Recorder!memory
  <2>2. Over' <=> Over
    BY <2>1 DEF Over
  <2>3. /\ interrupted' \in Nat
        /\ Len(recovered') <= interrupted' + (IF Over' THEN 1 ELSE 0)
    BY <1>1, <1>2, <2>1, <2>2
  <2>4. Len(recovered')
            <= interrupted' + (IF recovery'.stage = "written" \/ Over' THEN 1 ELSE 0)
    BY <2>3, <1>2, <1>1
  <2>5. RecoveredInv'
    BY <1>1, <2>1, <2>3, <2>4 DEF OutputInv, RecoveredInv
  <2>6. QED
    BY <1>1, <2>1, <2>5, OutputSame DEF Alive
<1>5. QED
  BY <1>3, <1>4

LEMMA CrashOutput ==
    ASSUME RecInv, RecInv', OutputInv, Recorder!Crash
    PROVE  OutputInv'
<1>1. /\ status \notin {"idle", "dead"} /\ status' = "dead"
      /\ accepting' = FALSE /\ timer' = FALSE /\ jobs' = <<>> /\ stage' = "wait"
      /\ recovery' = (IF recovery.by = "recorder" THEN Recorder!Idle ELSE recovery)
      /\ interrupted' = interrupted
            + (IF recovery.by = "recorder" /\ recovery.stage = "written" THEN 1 ELSE 0)
      /\ UNCHANGED <<cache, part, recovered>>
  BY DEF Recorder!Crash, Recorder!files
<1>2. /\ interrupted \in Nat /\ Len(recovered) \in Nat
      /\ Len(recovered)
             <= interrupted + (IF recovery.stage = "written" \/ Over THEN 1 ELSE 0)
  BY LenProperties DEF OutputInv, RecoveredInv, RecInv, RecTyped
<1>3. recovery.stage = "written" => recovery.by = "recorder"
  BY <1>1 DEF RecInv, RecTyped, Recovering
<1>4. recovery'.stage # "written"
  BY <1>1, <1>3, IdleFields
<1>5. Over => Over'
  BY <1>1 DEF Over
<1>6. /\ interrupted' \in Nat
      /\ Len(recovered') <= interrupted' + (IF Over' THEN 1 ELSE 0)
  BY <1>1, <1>2, <1>3, <1>5
<1>7. RecoveredInv'
  BY <1>1, <1>4, <1>6 DEF OutputInv, RecoveredInv
<1>8. QED
  BY <1>1, <1>7, OutputSame DEF Alive

LEMMA NothingOutput ==
    ASSUME RecInv, RecInv', OutputInv, UNCHANGED recorderVars
    PROVE  OutputInv'
<1>1. UNCHANGED <<received, status, accepting, timer, jobs, stage, rec, buffer, cache, part,
                  recovered, recovery, interrupted>>
  BY DEF recorderVars
<1>2. RecoveredInv'
  BY <1>1 DEF OutputInv, RecoveredInv, Over
<1>3. QED
  BY <1>1, <1>2, OutputSame DEF Alive

LEMMA OutputStep ==
    ASSUME RecInv, RecInv', OutputInv, [Recorder!Next]_recorderVars
    PROVE  OutputInv'
<1>1. CASE Recorder!Start \/ Recorder!Receive \/ Recorder!TimerFires \/ Recorder!Stop
  BY <1>1, StartOutput, ReceiveOutput, TimerOutput
<1>2. CASE Recorder!JobStep
  <2>1. CASE \E disk, ok \in BOOLEAN : Recorder!Checkpoint(disk, ok)
    BY <2>1, CheckpointOutput
  <2>2. CASE Recorder!WritePending
    BY <2>2, WriteOutput
  <2>3. CASE \E ok \in BOOLEAN : \/ Recorder!WriteFails \/ Recorder!PersistProgress(ok)
                                 \/ Recorder!RemoveRecord(ok) \/ Recorder!EndFail(ok)
    BY <2>3, EndOutput
  <2>4. QED
    BY <1>2, <2>1, <2>2, <2>3 DEF Recorder!JobStep
<1>3. CASE Recorder!RecoveryStep
  <2>1. CASE Recorder!BeginSavePending \/ Recorder!BeginRecoverCached
    BY <2>1, BeginOutput
  <2>2. CASE \E b \in BOOLEAN : Recorder!SavePending(b) \/ Recorder!RecoverCached(b)
    BY <2>2, SavePendingOutput, RecoverCachedOutput
  <2>3. CASE Recorder!FinishRecovery \/ Recorder!AbandonRecovery
    BY <2>3, EndRecoveryOutput
  <2>4. QED
    BY <1>3, <2>1, <2>2, <2>3 DEF Recorder!RecoveryStep
<1>4. CASE Recorder!Crash
  BY <1>4, CrashOutput
<1>5. CASE UNCHANGED recorderVars
  BY <1>5, NothingOutput
<1>6. QED
  BY <1>1, <1>2, <1>3, <1>4, <1>5 DEF Recorder!Next

LEMMA OutputInit ==
    ASSUME Recorder!Init
    PROVE  OutputInv
<1>1. /\ received = 0 /\ status = "idle" /\ accepting = FALSE /\ timer = FALSE
      /\ jobs = <<>> /\ stage = "wait" /\ rec = Recorder!Fresh /\ buffer = <<>> /\ cache = None
      /\ part = [p \in Recorder!Part |-> <<>>] /\ recovered = <<>> /\ interrupted = 0
  BY DEF Recorder!Init
<1>2. Len(<<>>) = 0
  OBVIOUS
<1>3. LogIs(part, 0)
  <2>1. \A p \in Recorder!Part : Len(part[p]) = 0
    BY <1>1, <1>2
  <2>2. InOrder(part) /\ \A c \in Nat : ~Stands(part, c)
    BY <2>1 DEF InOrder, Stands
  <2>3. QED
    BY <2>2 DEF LogIs
<1>4. MemoryRuns(rec, buffer, 0, received)
  <2>1. rec.pending = <<>> /\ buffer = <<>> /\ received = 0
    BY <1>1, FreshFields
  <2>2. Runs(<<>>, 0) /\ Runs(<<>>, 0 + 0)
    BY <1>2 DEF Runs
  <2>3. QED
    BY <1>2, <2>1, <2>2 DEF MemoryRuns
<1>5. LogInv
  BY <1>3, <1>4 DEF LogInv
<1>6. CacheInv
  BY <1>1 DEF CacheInv
<1>7. RecoveredInv
  BY <1>1, <1>2 DEF RecoveredInv
<1>8. QED
  BY <1>5, <1>6, <1>7 DEF OutputInv

LEMMA OutputAlways == Spec => []OutputInv
<1>1. Init => OutputInv
  BY OutputInit DEF Init
<1>2. RecInv /\ RecInv' /\ OutputInv /\ [Next]_<<focus, recorderVars, sessionVars, overviewVars>>
        => OutputInv'
  <2>1. [Next]_<<focus, recorderVars, sessionVars, overviewVars>> => [Recorder!Next]_recorderVars
    BY DEF Next
  <2>2. QED
    BY <2>1, OutputStep
<1>3. QED
  BY <1>1, <1>2, RecorderAlways, PTL DEF Spec

-----------------------------------------------------------------------------
\* What stands in a file is what the property counts.
LEMMA InPartsStand ==
    ASSUME RecTyped, NEW c
    PROVE  c \in Recorder!InParts <=> Stands(part, c)
<1>1. part \in [Recorder!Part -> Seq(Nat)]
  BY DEF RecTyped
<1>2. \A p \in Recorder!Part : Recorder!ToSet(part[p]) = {part[p][i] : i \in 1 .. Len(part[p])}
  BY <1>1, SetOfSeq
<1>3. QED
  BY <1>2 DEF Recorder!InParts, Stands

LEMMA PrefixFollows ==
    ASSUME RecInv, OutputInv
    PROVE  Recorder!PartsArePrefix
<1>1. part \in [Recorder!Part -> Seq(Nat)] /\ RecTyped
  BY DEF RecInv, RecTyped
<1>2. PICK n \in Nat : LogIs(part, n)
  BY DEF OutputInv, LogInv
<1>3. \A p \in Recorder!Part : DOMAIN part[p] = 1 .. Len(part[p])
  BY <1>1, LenProperties
<1>4. \A p, q \in Recorder!Part : \A i \in DOMAIN part[p], j \in DOMAIN part[q] :
          p < q \/ (p = q /\ i < j) => part[p][i] < part[q][j]
  BY <1>2, <1>3 DEF LogIs, InOrder
<1>5. ASSUME NEW c \in Recorder!InParts PROVE 1 .. c \subseteq Recorder!InParts
  <2>1. c \in Nat
    <3>1. \A p \in Recorder!Part : \A i \in 1 .. Len(part[p]) : part[p][i] \in Nat
      BY <1>1, ElementOfSeq
    <3>2. Stands(part, c)
      BY <1>1, InPartsStand
    <3>3. QED
      BY <3>1, <3>2 DEF Stands
  <2>2. c \in 1 .. n
    BY <1>1, <1>2, <2>1, InPartsStand DEF LogIs
  <2>3. \A d \in 1 .. c : d \in Nat /\ d \in 1 .. n
    BY <1>2, <2>2
  <2>4. \A d \in 1 .. c : Stands(part, d)
    BY <1>2, <2>3 DEF LogIs
  <2>5. QED
    BY <1>1, <2>4, InPartsStand
<1>6. QED
  BY <1>4, <1>5 DEF Recorder!PartsArePrefix

\* One of a set has one element or none.
LEMMA AtMostOne ==
    ASSUME NEW S, \A x, y \in S : x = y
    PROVE  IsFiniteSet(S) /\ Cardinality(S) \in {0, 1} /\ (S = {} => Cardinality(S) = 0)
<1>1. CASE S = {}
  BY <1>1, FS_EmptySet
<1>2. CASE S # {}
  <2>1. PICK x \in S : TRUE
    BY <1>2
  <2>2. S = {x}
    BY <2>1
  <2>3. QED
    BY <1>2, <2>2, FS_Singleton
<1>3. QED
  BY <1>1, <1>2

LEMMA DuplicatesFollow ==
    ASSUME RecInv, OutputInv
    PROVE  Recorder!NoDuplicates
<1>1. SUFFICES ASSUME NEW c \in 1 .. received
               PROVE  Recorder!Copies(c) <= 1 + interrupted
  BY DEF Recorder!NoDuplicates
<1> DEFINE P == {p \in Recorder!Part : Recorder!Contains(part[p], c)}
           R == {i \in DOMAIN recovered : Recorder!Contains(recovered[i], c)}
<1>2. Recorder!Copies(c) = Cardinality(P) + Cardinality(R)
  BY DEF Recorder!Copies, Recorder!Cardinality, Cardinality
<1>3. /\ part \in [Recorder!Part -> Seq(Nat)] /\ recovered \in Seq(Seq(Nat))
      /\ Len(recovered) \in Nat /\ DOMAIN recovered = 1 .. Len(recovered)
      /\ interrupted \in Nat /\ Len(recovered) <= interrupted + 1
  <2>1. /\ part \in [Recorder!Part -> Seq(Nat)] /\ recovered \in Seq(Seq(Nat))
        /\ Len(recovered) \in Nat /\ DOMAIN recovered = 1 .. Len(recovered)
    BY LenProperties DEF RecInv, RecTyped
  <2>2. /\ interrupted \in Nat
        /\ Len(recovered)
               <= interrupted + (IF recovery.stage = "written" \/ Over THEN 1 ELSE 0)
    BY DEF OutputInv, RecoveredInv
  <2>3. QED
    BY <2>1, <2>2
<1>4. \A p \in P : p \in Recorder!Part /\ \E i \in 1 .. Len(part[p]) : part[p][i] = c
  BY DEF Recorder!Contains
<1>5. \A p, q \in P : p = q
  <2>1. SUFFICES ASSUME NEW p \in P, NEW q \in P, p < q PROVE FALSE
    <3>1. \A p \in P : p \in Nat
      BY <1>4, PartNat
    <3>2. QED
      BY <3>1
  <2>2. PICK i \in 1 .. Len(part[p]) : part[p][i] = c
    BY <1>4
  <2>3. PICK j \in 1 .. Len(part[q]) : part[q][j] = c
    BY <1>4
  <2>4. part[p][i] < part[q][j]
    BY <1>4, <2>1 DEF OutputInv, LogInv, LogIs, InOrder
  <2>5. c \in Int
    OBVIOUS
  <2>6. QED
    BY <2>2, <2>3, <2>4, <2>5
<1>6. Cardinality(P) \in {0, 1} /\ (P = {} => Cardinality(P) = 0)
  <2> HIDE DEF P
  <2>1. QED
    BY <1>5, AtMostOne
<1>7. Cardinality(R) \in Nat /\ Cardinality(R) <= Len(recovered)
  <2>1. IsFiniteSet(1 .. Len(recovered)) /\ Cardinality(1 .. Len(recovered)) = Len(recovered)
    <3>1. Len(recovered) \in Int /\ 1 \in Int
      BY <1>3
    <3>2. IsFiniteSet(1 .. Len(recovered)) /\ Cardinality(1 .. Len(recovered))
              = IF 1 > Len(recovered) THEN 0 ELSE Len(recovered) - 1 + 1
      BY <3>1, FS_Interval
    <3>3. QED
      BY <1>3, <3>2
  <2>2. R \subseteq 1 .. Len(recovered)
    BY <1>3
  <2> HIDE DEF R
  <2>3. IsFiniteSet(R) /\ Cardinality(R) <= Cardinality(1 .. Len(recovered))
    BY <2>1, <2>2, FS_Subset
  <2>4. QED
    BY <2>1, <2>3, FS_CardinalityType
<1>8. P = {} \/ R = {}
  <2>1. SUFFICES ASSUME NEW p \in P, NEW i \in R PROVE FALSE
    OBVIOUS
  <2>2. Stands(part, c)
    BY <1>4 DEF Stands
  <2>3. i \in 1 .. Len(recovered) /\ \E k \in 1 .. Len(recovered[i]) : recovered[i][k] = c
    BY <1>3 DEF Recorder!Contains
  <2>4. c \in Recorder!ToSet(recovered[i])
    <3>1. recovered[i] \in Seq(Nat)
      BY <1>3, <2>3, ElementOfSeq
    <3>2. Recorder!ToSet(recovered[i]) = {recovered[i][k] : k \in 1 .. Len(recovered[i])}
      BY <3>1, SetOfSeq
    <3>3. QED
      BY <2>3, <3>2
  <2>5. QED
    BY <2>2, <2>3, <2>4 DEF OutputInv, RecoveredInv
<1>9. R = {} => Cardinality(R) = 0
  BY FS_EmptySet
<1> HIDE DEF P, R
<1>10. Cardinality(P) + Cardinality(R) <= 1 + interrupted
  <2>1. CASE P = {}
    BY <1>3, <1>6, <1>7, <2>1
  <2>2. CASE R = {}
    BY <1>3, <1>6, <1>9, <2>2
  <2>3. QED
    BY <1>8, <2>1, <2>2
<1>11. QED
  BY <1>2, <1>10

\* The log files, one after the other, are the beginning of the output, whatever was
\* retried or rotated, and only a recovery that was interrupted leaves output twice: for
\* any number of outputs, failures, crashes and recoveries.
THEOREM FileIsOutputAlways == Spec => []FileIsOutput
<1>1. RecInv /\ OutputInv => FileIsOutput
  BY PrefixFollows, DuplicatesFollow DEF FileIsOutput
<1>2. QED
  BY <1>1, RecorderAlways, OutputAlways, PTL
=============================================================================
