-------------------------------- MODULE AiChat --------------------------------
(***************************************************************************)
(* A question to the assistant: the chat panel of the browser, the event   *)
(* stream of the server and the router's attempts on one provider after    *)
(* another (chat-panel.tsx, routers/ai.py, ai_service.py, ai/router.py).   *)
(*                                                                         *)
(* A whole attempt emits Chunks pieces of text.  A text is a sequence of   *)
(* events: pieces, and the sources or the error the server adds.           *)
(* Retrieval and prompts are left out; the budget of the history is a      *)
(* choice of how many turns are carried.                                   *)
(***************************************************************************)
EXTENDS Naturals, FiniteSets, Sequences

CONSTANTS
    Providers,   \* providers of the route: the primary one and its fallback
    Retries,     \* retry_count of a provider
    Chunks,      \* pieces of a whole answer
    MaxHistory,  \* turns a question may carry, 5 in the code
    MaxAsked     \* bound: questions

ChatAssumption ==
    /\ Providers \in Nat \ {0} /\ Retries \in Nat /\ Chunks \in Nat \ {0}
    /\ MaxHistory \in Nat /\ MaxAsked \in Nat

VARIABLES
    chat,      \* the turns of the panel: question, text and state of the answer
    carried,   \* per question asked: the turns sent along as history
    thinking,  \* a question is being answered
    reading,   \* the reader's flag failed
    events,    \* events of the stream the panel has not read yet
    broken,    \* the connection is gone
    route      \* router.stream: pc, provider, retry, attempt (counted), emitted

chatVars == <<chat, carried, thinking, reading, events, broken, route>>

NoRoute == [pc |-> "none", provider |-> 0, retry |-> 0, attempt |-> 0, emitted |-> 0]

Init ==
    /\ chat = <<>> /\ carried = <<>> /\ thinking = FALSE /\ reading = FALSE
    /\ events = <<>> /\ broken = FALSE /\ route = NoRoute

-----------------------------------------------------------------------------
(* the panel *)

Answered(t) == t.state = "answered"

Failed(t) == [t EXCEPT !.text = <<>>, !.state = "failed"]

Kept == {i \in DOMAIN chat : Answered(chat[i])}

\* The last k turns that were answered, by their places in the conversation.
History(k) ==
    LET last == {i \in Kept : Cardinality({j \in Kept : j >= i}) <= k}
    IN [i \in last |-> chat[i]]

Ask(k) ==
    /\ ~thinking /\ Len(carried) < MaxAsked
    /\ k <= MaxHistory /\ k <= Cardinality(Kept)
    /\ carried' = Append(carried, History(k))
    /\ chat' = Append(chat, [text |-> <<>>, state |-> "loading"])
    /\ thinking' = TRUE /\ reading' = FALSE /\ events' = <<>> /\ broken' = FALSE
    /\ route' = [NoRoute EXCEPT !.pc = "calling", !.provider = 1, !.attempt = 1]

NewConversation ==
    /\ ~thinking /\ chat # <<>> /\ chat' = <<>>
    /\ UNCHANGED <<carried, thinking, reading, events, broken, route>>

\* setMessages on the last turn.
Shows(t) == chat' = [chat EXCEPT ![Len(chat)] = t]

ReadText ==
    /\ thinking /\ events # <<>> /\ Head(events).kind # "done"
    /\ events' = Tail(events)
    /\ reading' = (reading \/ Head(events).kind = "error")
    /\ Shows([text |-> Append(chat[Len(chat)].text, Head(events)), state |-> "shown"])
    /\ UNCHANGED <<carried, thinking, broken, route>>

\* [DONE] ends the answer; an empty one counts as interrupted.
ReadDone ==
    /\ thinking /\ events # <<>> /\ Head(events).kind = "done"
    /\ events' = Tail(events) /\ thinking' = FALSE
    /\ LET t == chat[Len(chat)]
       IN Shows(IF t.text = <<>> THEN Failed(t)
                ELSE [t EXCEPT !.state = IF reading THEN "failed" ELSE "answered"])
    /\ UNCHANGED <<carried, reading, broken, route>>

\* The stream breaks or ends without [DONE]: the text is replaced by the failure.
ReadBroken ==
    /\ thinking /\ events = <<>> /\ broken
    /\ thinking' = FALSE
    /\ Shows(Failed(chat[Len(chat)]))
    /\ UNCHANGED <<carried, reading, events, broken, route>>

-----------------------------------------------------------------------------
(* the server *)

Sends(s) == events' = events \o s

Event(kind) == [kind |-> kind, attempt |-> 0, n |-> 0]

Fragment(attempt, n) == [kind |-> "text", attempt |-> attempt, n |-> n]

\* generate yields a piece of text.
Emit ==
    /\ route.pc = "calling" /\ ~broken /\ route.emitted < Chunks
    /\ route' = [route EXCEPT !.emitted = route.emitted + 1]
    /\ Sends(<<Fragment(route.attempt, route.emitted + 1)>>)
    /\ UNCHANGED <<chat, carried, thinking, reading, broken>>

\* The attempt is complete: the sources are named, if there are any.
EmitEnds ==
    /\ route.pc = "calling" /\ ~broken /\ route.emitted = Chunks
    /\ route' = [route EXCEPT !.pc = "ended"]
    /\ \/ Sends(<<Event("done")>>)
       \/ Sends(<<Event("sources"), Event("done")>>)
    /\ UNCHANGED <<chat, carried, thinking, reading, broken>>

\* Mutant of Again: a provider is called again although its text is on the screen.
AgainRegardless(kind) == kind = "transient" /\ route.retry < Retries

\* A temporary fault is tried again on the same provider, unless output is visible.
Again(kind) == route.emitted = 0 /\ kind = "transient" /\ route.retry < Retries

\* The next provider takes over from one that failed before any output.
Another(kind) == route.emitted = 0 /\ kind # "fatal" /\ route.provider < Providers

NextAttempt == [route EXCEPT !.attempt = route.attempt + 1, !.emitted = 0]

\* The attempt fails.  A retry also needs time before the deadline, so a fault that
\* could be tried again may end the provider's turn all the same.
EmitFails(kind) ==
    /\ route.pc = "calling" /\ ~broken
    /\ \/ /\ Again(kind)
          /\ route' = [NextAttempt EXCEPT !.retry = route.retry + 1]
          /\ UNCHANGED events
       \/ /\ Another(kind)
          /\ route' = [NextAttempt EXCEPT !.provider = route.provider + 1, !.retry = 0]
          /\ UNCHANGED events
       \/ /\ ~Another(kind)
          /\ route' = [route EXCEPT !.pc = "ended"]
          /\ Sends(<<Event("error"), Event("done")>>)
    /\ UNCHANGED <<chat, carried, thinking, reading, broken>>

\* The connection breaks: what was not delivered is lost, and the server is cancelled.
Break ==
    /\ thinking /\ ~broken /\ broken' = TRUE
    /\ \E k \in 0 .. Len(events) : events' = SubSeq(events, 1, k)
    /\ route' = [route EXCEPT !.pc = "ended"]
    /\ UNCHANGED <<chat, carried, thinking, reading>>

-----------------------------------------------------------------------------

Next ==
    \/ \E k \in 0 .. MaxHistory : Ask(k)
    \/ NewConversation \/ ReadText \/ ReadDone \/ ReadBroken
    \/ Emit \/ EmitEnds \/ \E kind \in {"transient", "other", "fatal"} : EmitFails(kind)
    \/ Break

Spec == Init /\ [][Next]_chatVars

-----------------------------------------------------------------------------
(* properties *)

\* The turns, the route and the flags keep their shapes, and only the last turn is open.
TypeOK ==
    /\ thinking \in BOOLEAN /\ reading \in BOOLEAN /\ broken \in BOOLEAN
    /\ route.pc \in {"none", "calling", "ended"} /\ route.provider \in 0 .. Providers
    /\ route.retry \in 0 .. Retries /\ route.emitted \in 0 .. Chunks
    /\ \A i \in DOMAIN chat :
        /\ chat[i].state \in {"loading", "shown", "answered", "failed"}
        /\ chat[i].state \in {"loading", "shown"} => thinking /\ i = Len(chat)

\* Where the text of an answer is, without what the server adds.
Words(t) == {k \in DOMAIN t.text : t.text[k].kind = "text"}

\* "Never concatenate different attempts once output is visible": what the panel shows
\* of an answer is the beginning of one attempt, in order, whatever failed and was tried
\* again; an answer that is kept is a whole one, and only those are carried as history.
AnswerFromOneAttempt ==
    /\ \A i \in DOMAIN chat :
        LET text == chat[i].text
        IN /\ \A k \in Words(chat[i]) : text[k].attempt = text[1].attempt /\ text[k].n = k
           /\ Answered(chat[i]) => Words(chat[i]) = 1 .. Chunks
    /\ \A q \in DOMAIN carried : \A k \in DOMAIN carried[q] :
        Answered(carried[q][k]) /\ Words(carried[q][k]) = 1 .. Chunks
=============================================================================
