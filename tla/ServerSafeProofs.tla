--------------------------- MODULE ServerSafeProofs ---------------------------
(***************************************************************************)
(* Proofs about MCServerSafe, the parts of the server that share no row,   *)
(* for any values of its constants: the delivery of mail and the index of  *)
(* a document are proved here, the check queue in CheckQueueProofs and the *)
(* jobs in WorkbenchJobsProofs; a behaviour of the parts together is one   *)
(* of each part.                                                           *)
(***************************************************************************)
EXTENDS MCServerSafe, WorkbenchJobsProofs

-----------------------------------------------------------------------------
(* The delivery of mail *)

\* The requests that have recorded a delivery and not yet its outcome.
InFlight == {"transport", "accepted", "raised"}

\* A request names a draft as soon as it was sent.
PostsNamed ==
    \A r \in Request : /\ posts[r].pc = "new" => posts[r] = Delivery!Unsent
                       /\ posts[r].pc # "new" => posts[r].draft \in Draft

PostsTyped == Delivery!TypeOK /\ PostsNamed

\* The row of a draft keeps all requests but one away from the SMTP server.
OneSender ==
    /\ \A r \in Request :
           posts[r].pc \in InFlight => delivery[posts[r].draft] = "sending"
    /\ \A r, s \in Request :
           /\ posts[r].pc \in InFlight /\ posts[s].pc \in InFlight
           /\ posts[r].draft = posts[s].draft
           => r = s

\* What the rows and the requests say of the mails that left.
Counted ==
    /\ \A d \in Draft : /\ mailed[d] \in {0, 1}
                        /\ delivery[d] = "none" => mailed[d] = 0
                        /\ delivery[d] = "sent" => mailed[d] = 1
    /\ \A r \in Request :
           /\ posts[r].pc = "transport" => mailed[posts[r].draft] = 0
           /\ posts[r].pc \in {"accepted", "sent"} => mailed[posts[r].draft] = 1
    /\ \A d \in confirmed : mailed[d] = 1

\* SentOnce is not inductive: nothing in it says that a request which talks to the SMTP
\* server is the only one of its draft, and that no mail of the draft left before.
Delivered == PostsTyped /\ OneSender /\ Counted

LEMMA DeliveredInit ==
    ASSUME Delivery!MailAssumption, Delivery!Init
    PROVE  Delivered
<1>1. PostsTyped
  BY
     DEF Delivery!Init, Delivery!MailAssumption, PostsTyped, Delivery!TypeOK, PostsNamed,
         Delivery!Unsent
<1>2. OneSender /\ Counted
  BY DEF Delivery!Init, OneSender, Counted, InFlight, Delivery!Unsent
<1>3. QED
  BY <1>1, <1>2 DEF Delivered

-----------------------------------------------------------------------------
(* How a step of one request changes the requests *)

LEMMA PostMoves ==
    ASSUME PostsTyped, NEW r \in Request, posts[r].pc # "new",
           NEW pc \in {"transport", "accepted", "raised", "sent", "over"},
           Delivery!Goes(r, pc)
    PROVE  /\ posts' \in [Request -> [pc : {"new", "arrived", "transport", "accepted",
                                            "raised", "sent", "over"},
                                      draft : Draft \cup {NoDraft}]]
           /\ posts'[r].pc = pc /\ posts'[r].draft = posts[r].draft
           /\ \A s \in Request \ {r} : posts'[s] = posts[s]
           /\ posts[r].draft \in Draft
           /\ PostsNamed'
<1>1. posts[r].draft \in Draft
  BY DEF PostsTyped, PostsNamed
<1>2. posts' = [posts EXCEPT ![r].pc = pc]
  BY DEF Delivery!Goes
<1>3. /\ posts' \in [Request -> [pc : {"new", "arrived", "transport", "accepted",
                                       "raised", "sent", "over"},
                                 draft : Draft \cup {NoDraft}]]
      /\ posts'[r].pc = pc /\ posts'[r].draft = posts[r].draft
      /\ \A s \in Request \ {r} : posts'[s] = posts[s]
  BY <1>2 DEF PostsTyped, Delivery!TypeOK
<1>4. PostsNamed'
  BY <1>1, <1>3 DEF PostsTyped, PostsNamed
<1>5. QED
  BY <1>1, <1>3, <1>4

-----------------------------------------------------------------------------
(* The window *)

LEMMA WindowStep ==
    ASSUME Delivered,
           \/ \E d \in Draft : Delivery!Compose(d)
           \/ Delivery!Discard
           \/ \E r \in Request : Delivery!Send(r) \/ Delivery!SendFails(r)
    PROVE  Delivered'
<1>1. CASE \E d \in Draft : Delivery!Compose(d)
  BY <1>1
     DEF Delivery!Compose, Delivered, PostsTyped, Delivery!TypeOK, PostsNamed, OneSender,
         Counted
<1>2. CASE Delivery!Discard
  BY <1>2
     DEF Delivery!Discard, Delivered, PostsTyped, Delivery!TypeOK, PostsNamed, OneSender,
         Counted
<1>3. ASSUME NEW r \in Request, Delivery!SendFails(r)
      PROVE  Delivered'
  BY <1>3
     DEF Delivery!SendFails, Delivered, PostsTyped, Delivery!TypeOK, PostsNamed, OneSender,
         Counted
<1>4. ASSUME NEW r \in Request, Delivery!Send(r)
      PROVE  Delivered'
  <2>1. draft \in Draft
    BY <1>4 DEF Delivery!Send, Delivered, PostsTyped, Delivery!TypeOK
  <2>2. /\ posts' \in [Request -> [pc : {"new", "arrived", "transport", "accepted",
                                         "raised", "sent", "over"},
                                   draft : Draft \cup {NoDraft}]]
        /\ posts'[r].pc = "arrived" /\ posts'[r].draft \in Draft
        /\ \A s \in Request \ {r} : posts'[s] = posts[s]
    BY <1>4, <2>1 DEF Delivery!Send, Delivered, PostsTyped, Delivery!TypeOK
  <2>3. PostsTyped'
    BY <1>4, <2>2 DEF Delivery!Send, Delivered, PostsTyped, Delivery!TypeOK, PostsNamed
  <2>4. OneSender' /\ Counted'
    BY <1>4, <2>2 DEF Delivery!Send, Delivered, OneSender, Counted, InFlight
  <2>5. QED
    BY <2>3, <2>4 DEF Delivered
<1>5. QED
  BY <1>1, <1>2, <1>3, <1>4

LEMMA AnsweredStep ==
    ASSUME Delivered, NEW r \in Request, Delivery!Answered(r)
    PROVE  Delivered'
<1>1. Delivery!Goes(r, "over") /\ posts[r].pc = "sent"
  BY DEF Delivery!Answered, Delivery!Goes
<1>2. /\ posts' \in [Request -> [pc : {"new", "arrived", "transport", "accepted",
                                       "raised", "sent", "over"},
                                 draft : Draft \cup {NoDraft}]]
      /\ posts'[r].pc = "over" /\ posts'[r].draft = posts[r].draft
      /\ \A s \in Request \ {r} : posts'[s] = posts[s]
      /\ posts[r].draft \in Draft
      /\ PostsNamed'
  BY <1>1, PostMoves DEF Delivered
<1>3. PostsTyped'
  BY <1>2 DEF Delivery!Answered, Delivered, PostsTyped, Delivery!TypeOK
<1>4. OneSender'
  BY <1>2 DEF Delivery!Answered, Delivered, OneSender, InFlight
<1>5. Counted'
  BY <1>1, <1>2 DEF Delivery!Answered, Delivered, Counted
<1>6. QED
  BY <1>3, <1>4, <1>5 DEF Delivered

-----------------------------------------------------------------------------
(* The server *)

\* The row that is found decides: only without one does the request go on to the
\* SMTP server, and it has then written the row.
LEMMA BeginStep ==
    ASSUME Delivered, NEW r \in Request, Delivery!Begin(r)
    PROVE  Delivered'
<1> DEFINE d == posts[r].draft
<1>1. posts[r].pc = "arrived" /\ d \in Draft
  BY DEF Delivery!Begin, Delivered, PostsTyped, PostsNamed
<1>2. CASE delivery[d] = "none"
  <2>1. Delivery!Goes(r, "transport") /\ delivery' = [delivery EXCEPT ![d] = "sending"]
    BY <1>2 DEF Delivery!Begin, Delivery!Recorded
  <2>2. /\ posts' \in [Request -> [pc : {"new", "arrived", "transport", "accepted",
                                         "raised", "sent", "over"},
                                   draft : Draft \cup {NoDraft}]]
        /\ posts'[r].pc = "transport" /\ posts'[r].draft = posts[r].draft
        /\ \A s \in Request \ {r} : posts'[s] = posts[s]
        /\ PostsNamed'
    BY <1>1, <2>1, PostMoves DEF Delivered
  <2>3. PostsTyped'
    BY <2>1, <2>2 DEF Delivery!Begin, Delivered, PostsTyped, Delivery!TypeOK
  <2>4. \A s \in Request : posts[s].pc \in InFlight => posts[s].draft # d
    BY <1>2 DEF Delivered, OneSender
  <2>5. delivery'[d] = "sending" /\ \A e \in Draft \ {d} : delivery'[e] = delivery[e]
    BY <1>1, <2>1 DEF Delivered, PostsTyped, Delivery!TypeOK
  <2>6. OneSender'
    <3>1. \A s \in Request : posts[s].pc \in InFlight => posts[s].draft \in Draft
      BY DEF Delivered, PostsTyped, PostsNamed, InFlight
    <3>2. QED
      BY <2>2, <2>4, <2>5, <3>1 DEF Delivered, OneSender
  <2>7. Counted'
    BY <1>1, <1>2, <2>2, <2>5 DEF Delivery!Begin, Delivered, Counted
  <2>8. QED
    BY <2>3, <2>6, <2>7 DEF Delivered
<1>3. CASE delivery[d] # "none"
  <2>1. PICK pc \in {"sent", "over"} :
            /\ Delivery!Goes(r, pc) /\ (pc = "sent" => delivery[d] = "sent")
            /\ UNCHANGED <<delivery, mailed, confirmed, draft, sending, used, deaths>>
    BY <1>3 DEF Delivery!Begin
  <2>2. /\ posts' \in [Request -> [pc : {"new", "arrived", "transport", "accepted",
                                         "raised", "sent", "over"},
                                   draft : Draft \cup {NoDraft}]]
        /\ posts'[r].pc = pc /\ posts'[r].draft = posts[r].draft
        /\ \A s \in Request \ {r} : posts'[s] = posts[s]
        /\ PostsNamed'
    BY <1>1, <2>1, PostMoves DEF Delivered
  <2>3. PostsTyped'
    BY <2>1, <2>2 DEF Delivered, PostsTyped, Delivery!TypeOK
  <2>4. OneSender'
    BY <2>1, <2>2 DEF Delivered, OneSender, InFlight
  <2>5. Counted'
    BY <1>1, <2>1, <2>2 DEF Delivered, Counted
  <2>6. QED
    BY <2>3, <2>4, <2>5 DEF Delivered
<1>4. QED
  BY <1>2, <1>3

LEMMA TransportStep ==
    ASSUME Delivered, NEW r \in Request,
           Delivery!Accepted(r) \/ Delivery!AcceptedUnheard(r) \/ Delivery!Refused(r)
    PROVE  Delivered'
<1> DEFINE d == posts[r].draft
<1>1. posts[r].pc = "transport" /\ d \in Draft /\ mailed[d] = 0
      /\ delivery[d] = "sending"
  BY
     DEF Delivery!Accepted, Delivery!AcceptedUnheard, Delivery!Refused, Delivered,
         PostsTyped, PostsNamed, Counted,
         OneSender, InFlight
<1>2. PICK pc \in {"accepted", "raised"} :
          /\ Delivery!Goes(r, pc)
          /\ \/ mailed' = [mailed EXCEPT ![d] = @ + 1]
             \/ pc = "raised" /\ mailed' = mailed
          /\ UNCHANGED <<draft, sending, used, delivery, confirmed, deaths>>
  BY DEF Delivery!Accepted, Delivery!AcceptedUnheard, Delivery!Refused
<1>3. /\ posts' \in [Request -> [pc : {"new", "arrived", "transport", "accepted",
                                       "raised", "sent", "over"},
                                 draft : Draft \cup {NoDraft}]]
      /\ posts'[r].pc = pc /\ posts'[r].draft = posts[r].draft
      /\ \A s \in Request \ {r} : posts'[s] = posts[s]
      /\ PostsNamed'
  BY <1>1, <1>2, PostMoves DEF Delivered
<1>4. /\ mailed' \in [Draft -> Nat] /\ mailed'[d] \in {0, 1}
      /\ pc = "accepted" => mailed'[d] = 1
      /\ \A e \in Draft \ {d} : mailed'[e] = mailed[e]
  BY <1>1, <1>2 DEF Delivered, PostsTyped, Delivery!TypeOK
<1>5. PostsTyped'
  BY <1>2, <1>3, <1>4 DEF Delivered, PostsTyped, Delivery!TypeOK
<1>6. OneSender'
  BY <1>1, <1>2, <1>3 DEF Delivered, OneSender, InFlight
<1>7. Counted'
  <2>1. \A s \in Request \ {r} :
            posts[s].pc = "transport" => posts[s].draft \in Draft \ {d}
    BY <1>1 DEF Delivered, PostsTyped, PostsNamed, OneSender, InFlight
  <2>2. \A s \in Request \ {r} :
            posts[s].pc \in {"accepted", "sent"} => posts[s].draft \in Draft \ {d}
    BY <1>1 DEF Delivered, PostsTyped, PostsNamed, Counted
  <2>3. \A e \in confirmed : e \in Draft \ {d}
    BY <1>1 DEF Delivered, PostsTyped, Delivery!TypeOK, Counted
  <2>4. \A e \in Draft : /\ mailed'[e] \in {0, 1}
                         /\ delivery'[e] = "none" => mailed'[e] = 0
                         /\ delivery'[e] = "sent" => mailed'[e] = 1
    BY <1>1, <1>2, <1>4 DEF Delivered, Counted
  <2>5. \A s \in Request :
            /\ posts'[s].pc = "transport" => mailed'[posts'[s].draft] = 0
            /\ posts'[s].pc \in {"accepted", "sent"} => mailed'[posts'[s].draft] = 1
    BY <1>3, <1>4, <2>1, <2>2 DEF Delivered, Counted
  <2>6. \A e \in confirmed' : mailed'[e] = 1
    BY <1>2, <1>4, <2>3 DEF Delivered, Counted
  <2>7. QED
    BY <2>4, <2>5, <2>6 DEF Counted
<1>8. QED
  BY <1>5, <1>6, <1>7 DEF Delivered

LEMMA OutcomeStep ==
    ASSUME Delivered, NEW r \in Request, Delivery!RecordOutcome(r)
    PROVE  Delivered'
<1> DEFINE d == posts[r].draft
<1>1. posts[r].pc \in {"accepted", "raised"} /\ d \in Draft
  BY DEF Delivery!RecordOutcome, Delivered, PostsTyped, PostsNamed
<1>2. PICK pc \in {"sent", "over"}, outcome \in {"sent", "unknown"} :
          /\ Delivery!Goes(r, pc) /\ delivery' = [delivery EXCEPT ![d] = outcome]
          /\ pc = "sent" \/ outcome = "sent" => posts[r].pc = "accepted"
  BY <1>1 DEF Delivery!RecordOutcome
<1>3. /\ posts' \in [Request -> [pc : {"new", "arrived", "transport", "accepted",
                                       "raised", "sent", "over"},
                                 draft : Draft \cup {NoDraft}]]
      /\ posts'[r].pc = pc /\ posts'[r].draft = posts[r].draft
      /\ \A s \in Request \ {r} : posts'[s] = posts[s]
      /\ PostsNamed'
  BY <1>1, <1>2, PostMoves DEF Delivered
<1>4. delivery'[d] = outcome /\ \A e \in Draft \ {d} : delivery'[e] = delivery[e]
  BY <1>1, <1>2 DEF Delivered, PostsTyped, Delivery!TypeOK
<1>5. PostsTyped'
  BY <1>1, <1>2, <1>3 DEF Delivery!RecordOutcome, Delivered, PostsTyped, Delivery!TypeOK
<1>6. OneSender'
  <2>1. \A s \in Request \ {r} :
            posts[s].pc \in InFlight => posts[s].draft \in Draft \ {d}
    BY <1>1 DEF Delivered, PostsTyped, PostsNamed, OneSender, InFlight
  <2>2. QED
    BY <1>2, <1>3, <1>4, <2>1 DEF Delivered, OneSender, InFlight
<1>7. Counted'
  BY <1>1, <1>2, <1>3, <1>4 DEF Delivery!RecordOutcome, Delivered, Counted
<1>8. QED
  BY <1>5, <1>6, <1>7 DEF Delivered

LEMMA ServerDiesStep ==
    ASSUME Delivered, Delivery!Crash
    PROVE  Delivered'
<1>1. \A r \in Request :
          posts'[r] = IF posts[r] = Delivery!Unsent THEN Delivery!Unsent
                      ELSE [posts[r] EXCEPT !.pc = "over"]
  BY DEF Delivery!Crash
<1>2. /\ posts' \in [Request -> [pc : {"new", "arrived", "transport", "accepted",
                                       "raised", "sent", "over"},
                                 draft : Draft \cup {NoDraft}]]
      /\ \A r \in Request : /\ posts'[r] = Delivery!Unsent \/ posts'[r].pc = "over"
                            /\ posts'[r].pc = "over" => posts'[r].draft \in Draft
  BY <1>1
     DEF Delivery!Crash, Delivered, PostsTyped, Delivery!TypeOK, PostsNamed, Delivery!Unsent
<1>3. PostsTyped'
  BY <1>2
     DEF Delivery!Crash, Delivered, PostsTyped, Delivery!TypeOK, PostsNamed, Delivery!Unsent
<1>4. OneSender' /\ Counted'
  BY <1>2 DEF Delivery!Crash, Delivered, OneSender, Counted, InFlight, Delivery!Unsent
<1>5. QED
  BY <1>3, <1>4 DEF Delivered

-----------------------------------------------------------------------------

LEMMA DeliveredStep ==
    ASSUME Delivered, [Delivery!Next]_(Delivery!mailVars)
    PROVE  Delivered'
<1>1. CASE UNCHANGED Delivery!mailVars
  BY <1>1
     DEF Delivery!mailVars, Delivered, PostsTyped, Delivery!TypeOK, PostsNamed, OneSender,
         Counted
<1>2. CASE Delivery!Crash
  BY <1>2, ServerDiesStep
<1>3. CASE \/ \E d \in Draft : Delivery!Compose(d)
           \/ Delivery!Discard
           \/ \E r \in Request : Delivery!Send(r) \/ Delivery!SendFails(r)
  BY <1>3, WindowStep
<1>4. CASE \E r \in Request :
               \/ Delivery!Answered(r) \/ Delivery!Begin(r)
               \/ Delivery!Accepted(r) \/ Delivery!AcceptedUnheard(r)
               \/ Delivery!Refused(r) \/ Delivery!RecordOutcome(r)
  BY <1>4, AnsweredStep, BeginStep, TransportStep, OutcomeStep
<1>5. QED
  BY <1>1, <1>2, <1>3, <1>4 DEF Delivery!Next

LEMMA MailAlways ==
    ASSUME Delivery!MailAssumption
    PROVE  Delivery!Spec => [](Delivery!TypeOK /\ SentOnce)
<1>1. Delivery!Init => Delivered
  BY DeliveredInit
<1>2. Delivered /\ [Delivery!Next]_(Delivery!mailVars) => Delivered'
  BY DeliveredStep
<1>3. Delivered => Delivery!TypeOK /\ SentOnce
  BY DEF Delivered, PostsTyped, Delivery!TypeOK, Counted, SentOnce, Delivery!SentOnce
<1>4. QED
  BY <1>1, <1>2, <1>3, PTL DEF Delivery!Spec

-----------------------------------------------------------------------------
(* The index of a document *)

Words == [title : Nat, text : Nat]

Indexed == [title : Nat, text : Nat, vectors : BOOLEAN]

Operation ==
    [pc : {"new", "patch", "attached", "queued", "embed", "embedded", "over"},
     title : Nat \cup {None}, text : Nat \cup {None},
     old : Words \cup Nat \cup {None}, wiped : Indexed \cup {None}, vectors : BOOLEAN]

\* What an operation holds when it goes on.
OpTyped(o) ==
    /\ op[o].pc \in {"patch", "embed", "embedded"} =>
           op[o].title \in Nat /\ op[o].text \in Nat
    /\ op[o].pc = "patch" => op[o].old \in Words
    /\ op[o].pc = "attached" => op[o].text \in Nat /\ op[o].old \in Nat \cup {None}

IndexTyped ==
    /\ doc \in Words \cup {None} /\ chunks \in Indexed \cup {None}
    /\ markdown \in Nat /\ digest \in Nat /\ owner \in Op \cup {None}
    /\ op \in [Op -> Operation] /\ page \in [Page -> Words \cup {None}]
    /\ versions \in Nat /\ restarts \in Nat /\ aborted \in BOOLEAN
    /\ \A o \in Op : OpTyped(o)
    /\ owner # None => op[owner].pc = "attached" /\ doc # None

\* An operation that will look at the row, or holds what the row holds now.
Owes(o) ==
    \/ op[o].pc = "queued"
    \/ /\ op[o].pc \in {"embed", "embedded"}
       /\ doc = [title |-> op[o].title, text |-> op[o].text]

\* IndexIsCurrent is not inductive: it speaks of the end only.  Until then, chunks of
\* another title or text are left to an operation that has not compared the row yet.
IndexOwed ==
    /\ restarts = 0 /\ ~aborted /\ doc # None /\ chunks # None
    /\ doc # [title |-> chunks.title, text |-> chunks.text]
    => \E o \in Op : Owes(o)

IndexInv == IndexTyped /\ IndexOwed

LEMMA IndexInit ==
    ASSUME Index!KnowledgeAssumption, Index!Init
    PROVE  IndexInv
<1>1. op = [o \in Op |-> Index!Unused] /\ Index!Unused \in Operation
  BY DEF Index!Init, Index!Unused, Operation
<1>2. \A o \in Op : OpTyped(o)
  BY <1>1 DEF Index!KnowledgeAssumption, Index!Init, Index!Unused, OpTyped
<1>3. IndexTyped
  BY <1>1, <1>2 DEF Index!Init, IndexTyped, Words, Indexed
<1>4. IndexOwed
  BY DEF Index!Init, IndexOwed
<1>5. QED
  BY <1>3, <1>4 DEF IndexInv

\* An operation with new values, while the others stay as they are.
LEMMA OpBecomes ==
    ASSUME IndexTyped, NEW o \in Op, NEW new \in Operation, op' = [op EXCEPT ![o] = new]
    PROVE  /\ op' \in [Op -> Operation] /\ op'[o] = new
           /\ \A q \in Op \ {o} : op'[q] = op[q]
BY DEF IndexTyped

\* One operation goes on, and the others stay as they are.
LEMMA OpGoes ==
    ASSUME IndexTyped, NEW o \in Op,
           NEW pc \in {"embed", "queued", "over"}, Index!Goes(o, pc)
    PROVE  /\ op' \in [Op -> Operation] /\ op'[o].pc = pc
           /\ op'[o].title = op[o].title /\ op'[o].text = op[o].text
           /\ op'[o].old = op[o].old
           /\ \A q \in Op \ {o} : op'[q] = op[q]
<1>1. op' = [op EXCEPT ![o].pc = pc]
  BY DEF Index!Goes
<1>2. [op[o] EXCEPT !.pc = pc] \in Operation
  BY DEF IndexTyped, Operation
<1>3. op' \in [Op -> Operation] /\ op'[o] = [op[o] EXCEPT !.pc = pc]
      /\ \A q \in Op \ {o} : op'[q] = op[q]
  BY <1>1, <1>2 DEF IndexTyped
<1>4. op[o] \in Operation
  BY DEF IndexTyped
<1>5. QED
  BY <1>3, <1>4 DEF Operation

\* Who owned the index still does, when the row stays and only one operation moves.
LEMMA OwedKept ==
    ASSUME IndexOwed, NEW o \in Op, \A q \in Op \ {o} : op'[q] = op[q],
           UNCHANGED <<doc, restarts, aborted>>,
           chunks' = None \/ chunks' = chunks, doc = None \/ (Owes(o) => Owes(o)')
    PROVE  IndexOwed'
BY DEF IndexOwed, Owes

-----------------------------------------------------------------------------

LEMMA PatchStep ==
    ASSUME IndexInv, NEW o \in Op, NEW p \in Page, NEW field \in {"title", "text"},
           Index!Patch(o, p, field)
    PROVE  IndexInv'
<1> DEFINE body == [page[p] EXCEPT ![field] = versions + 1]
           new == [Index!Unused EXCEPT !.pc = "patch", !.title = body.title,
                                       !.text = body.text, !.old = doc]
<1>1. body \in Words /\ doc \in Words
  BY DEF IndexInv, IndexTyped, Index!Patch, Words
<1>2. new \in Operation /\ new.pc = "patch" /\ new.title \in Nat /\ new.text \in Nat
      /\ new.old \in Words
  BY <1>1 DEF Operation, Index!Unused, Words
<1>3. op' = [op EXCEPT ![o] = new]
  BY DEF Index!Patch
<1>4. op' \in [Op -> Operation] /\ op'[o] = new /\ \A q \in Op \ {o} : op'[q] = op[q]
  BY <1>2, <1>3, OpBecomes DEF IndexInv
<1>5. op[o].pc = "new" /\ ~Owes(o) /\ (owner # None => owner \in Op \ {o})
  BY DEF IndexInv, IndexTyped, Owes, Index!Patch, Index!Unused
<1>6. \A q \in Op : OpTyped(q)'
  BY <1>2, <1>4, <1>5 DEF IndexInv, IndexTyped, OpTyped, Index!Patch
<1>7. page' = [page EXCEPT ![p] = body] /\ versions' = versions + 1
      /\ UNCHANGED <<doc, chunks, markdown, digest, owner, restarts, aborted>>
  BY DEF Index!Patch
<1>8. IndexTyped'
  BY <1>1, <1>4, <1>5, <1>6, <1>7 DEF IndexInv, IndexTyped
<1>9. QED
  BY <1>4, <1>5, <1>7, <1>8, OwedKept DEF IndexInv

LEMMA SaveMarkdownStep ==
    ASSUME IndexInv, NEW o \in Op, Index!SaveMarkdown(o)
    PROVE  IndexInv'
<1> DEFINE old == op[o].old
<1>1. op[o].title \in Nat /\ op[o].text \in Nat /\ doc \in Words /\ owner = None
  BY DEF IndexInv, IndexTyped, OpTyped, Index!SaveMarkdown
<1>2. doc' = [title |-> IF op[o].title # old.title THEN op[o].title ELSE doc.title,
              text  |-> IF op[o].text # old.text THEN op[o].text ELSE doc.text]
  BY DEF Index!SaveMarkdown
<1>3. doc' \in Words
  BY <1>1, <1>2 DEF Words
<1>4. /\ op' \in [Op -> Operation] /\ op'[o].pc = "embed"
      /\ op'[o].title = op[o].title /\ op'[o].text = op[o].text
      /\ \A q \in Op \ {o} : op'[q] = op[q]
  BY OpGoes DEF IndexInv, Index!SaveMarkdown
<1>5. chunks' = None /\ markdown' = op[o].text /\ digest' = op[o].text
      /\ UNCHANGED <<owner, page, versions, restarts, aborted>>
  BY DEF Index!SaveMarkdown
<1>6. \A q \in Op : OpTyped(q)'
  BY <1>1, <1>4, <1>5 DEF IndexInv, IndexTyped, OpTyped
<1>7. QED
  BY <1>1, <1>3, <1>4, <1>5, <1>6 DEF IndexInv, IndexTyped, IndexOwed

\* attach_document under the storage lock: other chunks than those of the text go.
LEMMA AttachStep ==
    ASSUME IndexInv, NEW o \in Op, op[o] = Index!Unused, owner = None, doc # None,
           NEW text \in Nat, NEW original \in Nat \cup {None},
           Index!Attach(o, text, original),
           markdown' \in Nat, versions' \in Nat,
           UNCHANGED <<doc, digest, page, restarts, aborted>>
    PROVE  IndexInv'
<1> DEFINE new == [Index!Unused EXCEPT
                     !.pc = "attached", !.text = text, !.old = original,
                     !.wiped = IF doc.text # text THEN chunks ELSE None]
<1>1. new \in Operation /\ new.pc = "attached" /\ new.text = text /\ new.old = original
  BY DEF IndexInv, IndexTyped, Operation, Index!Unused
<1>2. op' = [op EXCEPT ![o] = new] /\ owner' = o
      /\ chunks' \in {None, chunks}
  BY DEF Index!Attach
<1>3. op' \in [Op -> Operation] /\ op'[o] = new /\ \A q \in Op \ {o} : op'[q] = op[q]
  BY <1>1, <1>2, OpBecomes DEF IndexInv
<1>4. ~Owes(o)
  BY DEF Owes, Index!Unused
<1>5. \A q \in Op : OpTyped(q)'
  BY <1>1, <1>2, <1>3 DEF IndexInv, IndexTyped, OpTyped
<1>6. IndexTyped'
  BY <1>2, <1>3, <1>5 DEF IndexInv, IndexTyped
<1>7. QED
  BY <1>2, <1>3, <1>4, <1>6, OwedKept DEF IndexInv

LEMMA CommitAttachedStep ==
    ASSUME Index!KnowledgeAssumption, IndexInv, NEW o \in Op, Index!CommitAttached(o)
    PROVE  IndexInv'
<1>1. op[o].pc = "attached" /\ op[o].text \in Nat /\ doc \in Words /\ owner' = None
  BY DEF Index!KnowledgeAssumption, IndexInv, IndexTyped, OpTyped, Index!CommitAttached
<1>2. /\ op' \in [Op -> Operation] /\ op'[o].pc = "queued"
      /\ \A q \in Op \ {o} : op'[q] = op[q]
  BY OpGoes DEF IndexInv, Index!CommitAttached
<1>3. doc' = [doc EXCEPT !.text = op[o].text] /\ digest' = op[o].text
      /\ UNCHANGED <<chunks, markdown, page, versions, restarts, aborted>>
  BY DEF Index!CommitAttached
<1>4. doc' \in Words
  BY <1>1, <1>3 DEF Words
<1>5. \A q \in Op : OpTyped(q)'
  BY <1>2 DEF IndexInv, IndexTyped, OpTyped
<1>6. IndexTyped'
  BY <1>1, <1>2, <1>3, <1>4, <1>5 DEF IndexInv, IndexTyped
<1>7. Owes(o)'
  BY <1>2 DEF Owes
<1>8. QED
  BY <1>6, <1>7 DEF IndexInv, IndexOwed

LEMMA ReadDocumentStep ==
    ASSUME IndexInv, NEW o \in Op, Index!ReadDocument(o)
    PROVE  IndexInv'
<1> DEFINE new == IF doc = None THEN [op[o] EXCEPT !.pc = "over"]
                  ELSE [Index!Unused EXCEPT !.pc = "embed", !.title = doc.title,
                                            !.text = doc.text]
<1>1. op[o].pc \in {"queued", "new"}
  BY DEF Index!ReadDocument, Index!Unused
<1>2. op' = [op EXCEPT ![o] = new]
  BY DEF Index!ReadDocument
<1>3. CASE doc = None
  <2>1. op[o] \in Operation /\ new = [op[o] EXCEPT !.pc = "over"]
    BY <1>3 DEF IndexInv, IndexTyped
  <2>2. new \in Operation /\ new.pc = "over"
    BY <2>1 DEF Operation
  <2>3. op' \in [Op -> Operation] /\ op'[o] = new /\ \A q \in Op \ {o} : op'[q] = op[q]
    BY <1>2, <2>2, OpBecomes DEF IndexInv
  <2>4. \A q \in Op : OpTyped(q)'
    BY <2>2, <2>3 DEF IndexInv, IndexTyped, OpTyped
  <2>5. QED
    BY <1>1, <1>3, <2>2, <2>3, <2>4
       DEF Index!ReadDocument, IndexInv, IndexTyped, IndexOwed
<1>4. CASE doc # None
  <2>1. doc \in Words /\ new = [Index!Unused EXCEPT !.pc = "embed", !.title = doc.title,
                                                    !.text = doc.text]
    BY <1>4 DEF IndexInv, IndexTyped
  <2>2. /\ new \in Operation /\ new.pc = "embed" /\ new.title \in Nat /\ new.text \in Nat
        /\ doc = [title |-> new.title, text |-> new.text]
    BY <2>1 DEF Operation, Index!Unused, Words
  <2>3. op' \in [Op -> Operation] /\ op'[o] = new /\ \A q \in Op \ {o} : op'[q] = op[q]
    BY <1>2, <2>2, OpBecomes DEF IndexInv
  <2>4. \A q \in Op : OpTyped(q)'
    BY <2>2, <2>3 DEF IndexInv, IndexTyped, OpTyped
  <2>5. IndexTyped'
    BY <1>1, <2>3, <2>4 DEF Index!ReadDocument, IndexInv, IndexTyped
  <2>6. Owes(o)'
    BY <2>2, <2>3 DEF Owes, Index!ReadDocument
  <2>7. QED
    BY <2>5, <2>6 DEF IndexInv, IndexOwed
<1>5. QED
  BY <1>3, <1>4

\* Embed, and the ends of an operation that leave row and chunks as they are.
LEMMA QuietStep ==
    ASSUME IndexInv, NEW o \in Op,
           Index!Embed(o) \/ Index!PatchFails(o) \/ Index!LeaveIndex(o)
    PROVE  IndexInv'
<1>1. PICK pc \in {"embedded", "over"}, works \in BOOLEAN :
          /\ op' = [op EXCEPT ![o] = [op[o] EXCEPT !.pc = pc, !.vectors = works]]
          /\ pc = "embedded" => op[o].pc = "embed"
          /\ pc = "over" => (doc = None \/ ~Owes(o)) /\ op[o].pc \in {"patch", "embedded"}
          /\ UNCHANGED <<doc, chunks, markdown, digest, owner, page, versions, restarts, aborted>>
  <2>1. op[o] \in Operation
    BY DEF IndexInv, IndexTyped
  <2>2. CASE Index!Embed(o)
    BY <2>1, <2>2 DEF Index!Embed, Operation
  <2>3. CASE Index!PatchFails(o) \/ Index!LeaveIndex(o)
    <3>1. /\ op' = [op EXCEPT ![o].pc = "over"]
          /\ doc = None \/ ~Owes(o)
          /\ op[o].pc \in {"patch", "embedded"}
          /\ UNCHANGED <<doc, chunks, markdown, digest, owner, page, versions, restarts, aborted>>
      BY <2>3 DEF Index!PatchFails, Index!LeaveIndex, Index!Current, Index!Goes, Owes
    <3>2. [op[o] EXCEPT !.pc = "over"] = [op[o] EXCEPT !.pc = "over", !.vectors = op[o].vectors]
          /\ op[o].vectors \in BOOLEAN
      BY <2>1 DEF Operation
    <3>3. QED
      BY <3>1, <3>2
  <2>4. QED
    BY <2>2, <2>3
<1>2. [op[o] EXCEPT !.pc = pc, !.vectors = works] \in Operation
  BY DEF IndexInv, IndexTyped, Operation
<1>3. /\ op' \in [Op -> Operation] /\ op'[o].pc = pc
      /\ op'[o].title = op[o].title /\ op'[o].text = op[o].text
      /\ \A q \in Op \ {o} : op'[q] = op[q]
  BY <1>1, <1>2, OpBecomes DEF IndexInv, IndexTyped, Operation
<1>4. \A q \in Op : OpTyped(q)'
  BY <1>1, <1>3 DEF IndexInv, IndexTyped, OpTyped
<1>5. IndexTyped'
  BY <1>1, <1>3, <1>4 DEF IndexInv, IndexTyped
<1>6. doc = None \/ (Owes(o) => Owes(o)')
  BY <1>1, <1>3 DEF Owes
<1>7. QED
  BY <1>1, <1>3, <1>5, <1>6, OwedKept DEF IndexInv

LEMMA ReplaceChunksStep ==
    ASSUME IndexInv, NEW o \in Op, Index!ReplaceChunks(o)
    PROVE  IndexInv'
<1>1. /\ op[o].pc = "embedded" /\ doc = [title |-> op[o].title, text |-> op[o].text]
      /\ Index!Goes(o, "over")
      /\ chunks' = [title |-> op[o].title, text |-> op[o].text, vectors |-> op[o].vectors]
      /\ UNCHANGED <<doc, markdown, digest, owner, page, versions, restarts, aborted>>
  BY DEF Index!ReplaceChunks, Index!Current
<1>2. /\ op' \in [Op -> Operation] /\ op'[o].pc = "over"
      /\ \A q \in Op \ {o} : op'[q] = op[q]
  BY <1>1, OpGoes DEF IndexInv
<1>3. chunks' \in Indexed /\ chunks'.title = op[o].title /\ chunks'.text = op[o].text
  BY <1>1 DEF IndexInv, IndexTyped, OpTyped, Operation, Indexed
<1>4. \A q \in Op : OpTyped(q)'
  BY <1>2 DEF IndexInv, IndexTyped, OpTyped
<1>5. IndexTyped'
  BY <1>1, <1>2, <1>3, <1>4 DEF IndexInv, IndexTyped
<1>6. QED
  BY <1>1, <1>3, <1>5 DEF IndexInv, IndexOwed

\* PostgreSQL ends the index or the edit: what is owed then is said no more.
LEMMA VictimStep ==
    ASSUME IndexInv, NEW o \in Op, Index!IndexIsVictim(o) \/ Index!EditIsVictim(o)
    PROVE  IndexInv'
<1>1. aborted' = TRUE /\ op[o].pc = "embedded"
      /\ UNCHANGED <<doc, digest, page, versions, restarts>>
  BY DEF Index!IndexIsVictim, Index!EditIsVictim
<1>2. CASE Index!IndexIsVictim(o)
  <2>1. /\ op' \in [Op -> Operation] /\ op'[o].pc = "over"
        /\ \A q \in Op \ {o} : op'[q] = op[q]
    BY <1>2, OpGoes DEF IndexInv, Index!IndexIsVictim
  <2>2. \A q \in Op : OpTyped(q)'
    BY <2>1 DEF IndexInv, IndexTyped, OpTyped
  <2>3. IndexTyped'
    BY <1>1, <1>2, <2>1, <2>2 DEF Index!IndexIsVictim, IndexInv, IndexTyped
  <2>4. QED
    BY <1>1, <2>3 DEF IndexInv, IndexOwed
<1>3. CASE Index!EditIsVictim(o)
  <2> DEFINE ended(q) == [op[q] EXCEPT !.pc = "over"]
  <2>1. owner \in Op \ {o} /\ op[owner].pc = "attached"
    BY <1>1, <1>3 DEF Index!EditIsVictim, Index!Pending, IndexInv, IndexTyped
  <2>2. \A q \in Op : ended(q) \in Operation /\ ended(q).pc = "over"
    BY DEF IndexInv, IndexTyped, Operation
  <2>3. op' = [op EXCEPT ![o] = ended(o), ![owner] = ended(owner)]
    BY <1>3, <2>1 DEF Index!EditIsVictim, IndexInv, IndexTyped
  <2>4. /\ op' \in [Op -> Operation] /\ op'[o].pc = "over" /\ op'[owner].pc = "over"
        /\ \A q \in Op \ {o, owner} : op'[q] = op[q]
    BY <2>1, <2>2, <2>3 DEF IndexInv, IndexTyped
  <2>5. \A q \in Op : OpTyped(q)'
    BY <2>4 DEF IndexInv, IndexTyped, OpTyped
  <2>6. markdown' \in Nat
    BY <1>3, <2>1 DEF Index!EditIsVictim, IndexInv, IndexTyped, OpTyped
  <2>7. chunks' = [title |-> op[o].title, text |-> op[o].text, vectors |-> op[o].vectors]
        /\ owner' = None
    BY <1>3 DEF Index!EditIsVictim
  <2>8. chunks' \in Indexed
    BY <1>1, <2>7 DEF IndexInv, IndexTyped, OpTyped, Operation, Indexed
  <2>9. IndexTyped'
    BY <1>1, <2>4, <2>5, <2>6, <2>7, <2>8 DEF IndexInv, IndexTyped
  <2>10. QED
    BY <1>1, <2>9 DEF IndexInv, IndexOwed
<1>4. QED
  BY <1>2, <1>3

LEMMA RestartStep ==
    ASSUME IndexInv, Index!Crash
    PROVE  IndexInv'
<1>1. \A q \in Op : [op[q] EXCEPT !.pc = "over"] \in Operation
  BY DEF IndexInv, IndexTyped, Operation
<1>2. op' = [q \in Op |-> IF op[q] = Index!Unused THEN Index!Unused ELSE [op[q] EXCEPT !.pc = "over"]]
      /\ owner' = None /\ restarts' = restarts + 1
      /\ chunks' = (IF Index!Pending THEN op[owner].wiped ELSE chunks)
      /\ UNCHANGED <<doc, markdown, digest, page, versions, aborted>>
  BY DEF Index!Crash
<1>3. \A q \in Op : op'[q] \in Operation /\ op'[q].pc \in {"new", "over"}
  BY <1>1, <1>2 DEF IndexInv, IndexTyped, Operation, Index!Unused
<1>4. op' \in [Op -> Operation] /\ \A q \in Op : OpTyped(q)'
  BY <1>2, <1>3 DEF OpTyped
<1>5. chunks' \in Indexed \cup {None}
  BY <1>2 DEF Index!Pending, IndexInv, IndexTyped, Operation
<1>6. IndexTyped' /\ restarts' # 0
  BY <1>2, <1>4, <1>5 DEF IndexInv, IndexTyped
<1>7. QED
  BY <1>6 DEF IndexInv, IndexOwed

LEMMA IndexStep ==
    ASSUME Index!KnowledgeAssumption, IndexInv, [Index!Next]_(Index!indexVars)
    PROVE  IndexInv'
<1>1. CASE UNCHANGED Index!indexVars
  BY <1>1 DEF Index!indexVars, IndexInv, IndexTyped, IndexOwed, Owes, OpTyped
<1>2. ASSUME NEW p \in Page, Index!OpenPage(p)
      PROVE  IndexInv'
  BY <1>2 DEF Index!OpenPage, IndexInv, IndexTyped, IndexOwed, Owes, OpTyped
<1>3. ASSUME NEW o \in Op, Index!Edit(o)
      PROVE  IndexInv'
  <2>1. markdown \in Nat /\ versions + 1 \in Nat
    BY DEF IndexInv, IndexTyped
  <2>2. QED
    BY <1>3, <2>1, AttachStep DEF Index!Edit
<1>4. ASSUME NEW o \in Op, Index!Reload(o)
      PROVE  IndexInv'
  <2>1. markdown \in Nat /\ versions \in Nat
    BY DEF IndexInv, IndexTyped
  <2>2. QED
    BY <1>4, <2>1, AttachStep DEF Index!Reload
<1>5. CASE Index!ExternalEdit
  BY <1>5 DEF Index!ExternalEdit, IndexInv, IndexTyped, IndexOwed, Owes, OpTyped
<1>6. CASE Index!Delete
  BY <1>6 DEF Index!Delete, IndexInv, IndexTyped, IndexOwed, OpTyped
<1>7. QED
  BY <1>1, <1>2, <1>3, <1>4, <1>5, <1>6, PatchStep, SaveMarkdownStep, CommitAttachedStep,
     ReadDocumentStep, QuietStep, ReplaceChunksStep, VictimStep, RestartStep
     DEF Index!Next

LEMMA IndexAlways ==
    ASSUME Index!KnowledgeAssumption
    PROVE  Index!Spec => [](Index!TypeOK /\ IndexIsCurrent)
<1>1. Index!Init => IndexInv
  BY IndexInit
<1>2. IndexInv /\ [Index!Next]_(Index!indexVars) => IndexInv'
  BY IndexStep
<1>3. IndexInv => Index!TypeOK
  BY DEF IndexInv, IndexTyped, Index!TypeOK, Words, Indexed, Operation
<1>4. IndexInv => IndexIsCurrent
  BY DEF IndexInv, IndexTyped, IndexOwed, Owes, IndexIsCurrent, Index!IndexIsCurrent, Index!Settled
<1>5. QED
  BY <1>1, <1>2, <1>3, <1>4, PTL DEF Index!Spec

-----------------------------------------------------------------------------
(* The check queue: Checks is Queue with the theorems about it *)

Checks == INSTANCE CheckQueueProofs WITH queue <- checks, worker <- checker,
              client <- requester, Worker <- Checker, Client <- Requester

LEMMA SameEnqueueStep == Queue!EnqueueNext => Checks!EnqueueNext
<1>1. \A u \in User : Queue!PrefLocked(u) <=> Checks!PrefLocked(u)
  BY DEF Queue!PrefLocked, Checks!PrefLocked
<1>2. /\ \A c \in Requester : Queue!CommitManual(c) => Checks!CommitManual(c)
      /\ \A c \in Requester, u \in User : Queue!BeginManual(c, u) => Checks!BeginManual(c, u)
  BY <1>1 DEF Queue!CommitManual, Checks!CommitManual, Queue!BeginManual,
              Checks!BeginManual, Queue!Row, Checks!Row, Queue!HasRow, Checks!HasRow
<1>3. \A u \in User : /\ Queue!SlotDue(u) => Checks!SlotDue(u)
                      /\ Queue!SetOpen(u) => Checks!SetOpen(u)
                      /\ Queue!Deactivate(u) => Checks!Deactivate(u)
  BY DEF Queue!SlotDue, Checks!SlotDue, Queue!SetOpen, Checks!SetOpen,
         Queue!Deactivate, Checks!Deactivate
<1>4. Queue!BeginTick => Checks!BeginTick
  BY <1>1 DEF Queue!BeginTick, Checks!BeginTick, Queue!NoBatch, Checks!NoBatch,
              Queue!TickWanted, Checks!TickWanted, Queue!HasRow, Checks!HasRow,
              Queue!Origin, Checks!Origin
<1>5. Queue!CommitTick => Checks!CommitTick
  BY DEF Queue!CommitTick, Checks!CommitTick, Queue!SetToSeqs, Checks!SetToSeqs,
         Queue!Cardinality, Checks!Cardinality, Queue!Row, Checks!Row,
         Queue!NoBatch, Checks!NoBatch
<1>6. QED
  BY <1>2, <1>3, <1>4, <1>5 DEF Queue!EnqueueNext, Checks!EnqueueNext

LEMMA SameCheckStep == Queue!CheckNext => Checks!CheckNext
<1>1. \A row : Queue!Eligible(row) <=> Checks!Eligible(row)
  BY DEF Queue!Eligible, Checks!Eligible
<1>2. \A u : Queue!PrefLocked(u) <=> Checks!PrefLocked(u)
  BY DEF Queue!PrefLocked, Checks!PrefLocked
<1>3. \A w \in Checker : /\ Queue!StartCheck(w) => Checks!StartCheck(w)
                         /\ Queue!SkipCheck(w) => Checks!SkipCheck(w)
  BY <1>1, <1>2 DEF Queue!StartCheck, Checks!StartCheck, Queue!SkipCheck, Checks!SkipCheck,
                    Queue!Oldest, Checks!Oldest
<1>4. \A w \in Checker : /\ Queue!LockUser(w) => Checks!LockUser(w)
                         /\ Queue!Requeue(w) => Checks!Requeue(w)
                         /\ Queue!EndCollection(w) => Checks!EndCollection(w)
                         /\ Queue!EndCheck(w) => Checks!EndCheck(w)
  BY DEF Queue!LockUser, Checks!LockUser, Queue!Requeue, Checks!Requeue, Queue!Requeued,
         Checks!Requeued, Queue!Idle, Checks!Idle, Queue!EndCollection,
         Checks!EndCollection, Queue!EndCheck, Checks!EndCheck
<1>5. \A w \in Checker : /\ Queue!LoseConnection(w) => Checks!LoseConnection(w)
                         /\ Queue!LateLock(w) => Checks!LateLock(w)
                         /\ Queue!EndOrphan(w) => Checks!EndOrphan(w)
  BY DEF Queue!LoseConnection, Checks!LoseConnection, Queue!LateLock, Checks!LateLock,
         Queue!EndOrphan, Checks!EndOrphan, Queue!Idle, Checks!Idle
<1>6. /\ Queue!CooldownOver => Checks!CooldownOver
      /\ \A u \in User : /\ Queue!BeginSync(u) => Checks!BeginSync(u)
                         /\ Queue!EndSync(u) => Checks!EndSync(u)
  BY DEF Queue!CooldownOver, Checks!CooldownOver, Queue!BeginSync, Checks!BeginSync,
         Queue!EndSync, Checks!EndSync
<1>7. QED
  BY <1>3, <1>4, <1>5, <1>6 DEF Queue!CheckNext, Checks!CheckNext

LEMMA ChecksAlways == Queue!Spec => [](Queue!TypeOK /\ ChecksInOrder) /\ TickOnlyWhenIdle
<1>1. Checks!QueueAssumption
  BY ChecksAssumption DEF Queue!HolderAssumption, Queue!LossBounds,
     Checks!QueueAssumption, Checks!HolderAssumption, Checks!LossBounds,
     IsFiniteSet, Checks!IsFiniteSet
<1>2. Queue!Init => Checks!Init
  BY DEF Queue!Init, Checks!Init, Queue!NoBatch, Checks!NoBatch
<1>3. [Queue!Next]_(Queue!vars) => [Checks!Next]_(Checks!vars)
  BY SameEnqueueStep, SameCheckStep
     DEF Queue!Next, Checks!Next, Queue!vars, Checks!vars
<1>4. Checks!Spec => []Checks!TypeOK
  BY <1>1, Checks!TypeCorrect
<1>5. Checks!Spec => [](Checks!OneRowPerOrigin /\ Checks!OnlyOldestRuns /\ Checks!HolderOwnsOldest)
  BY <1>1, Checks!ChecksInOrderAlways
<1>6. Checks!Spec => Checks!TickOnlyWhenIdle
  BY <1>1, Checks!TickOnlyWhenIdleAlways
<1>7. /\ Checks!OneRowPerOrigin /\ Checks!OnlyOldestRuns /\ Checks!HolderOwnsOldest
      => ChecksInOrder
  BY DEF ChecksInOrder, Queue!OneRowPerOrigin, Queue!OnlyOldestRuns, Queue!HolderOwnsOldest,
         Checks!OneRowPerOrigin, Checks!OnlyOldestRuns, Checks!HolderOwnsOldest,
         Queue!Row, Checks!Row
<1>8. Checks!TypeOK => Queue!TypeOK
  BY DEF Checks!TypeOK, Queue!TypeOK, Queue!Origin, Checks!Origin
<1>9. Checks!TickOnlyWhenIdle => TickOnlyWhenIdle
  <2>1. [\A u \in User : ~Checks!HasRow(u, "scheduled") /\ Checks!HasRow(u, "scheduled")'
                           => ~Checks!HasRow(u, "manual")]_checks
        => [\A u \in User : ~Queue!HasRow(u, "scheduled") /\ Queue!HasRow(u, "scheduled")'
                           => ~Queue!HasRow(u, "manual")]_checks
    BY DEF Queue!HasRow, Checks!HasRow
  <2>2. QED
    BY <2>1, PTL DEF Checks!TickOnlyWhenIdle, TickOnlyWhenIdle, Queue!TickOnlyWhenIdle
<1>10. QED
  BY <1>2, <1>3, <1>4, <1>5, <1>6, <1>7, <1>8, <1>9, PTL DEF Queue!Spec, Checks!Spec

-----------------------------------------------------------------------------
(* All parts together *)

LEMMA PartsAreTheirSpecs ==
    PartsSpec => Spec /\ Queue!Spec /\ Delivery!Spec /\ Index!Spec
<1>1. PartsInit => Init /\ Queue!Init /\ Delivery!Init /\ Index!Init
  BY DEF PartsInit
<1>2. /\ UNCHANGED checkVars => UNCHANGED Queue!vars
      /\ UNCHANGED deliveryVars => UNCHANGED Delivery!mailVars
      /\ UNCHANGED knowledgeVars => UNCHANGED Index!indexVars
  BY DEF checkVars, deliveryVars, knowledgeVars, Queue!vars, Delivery!mailVars,
         Index!indexVars
<1>3. [PartsNext]_<<focus, vars, checkVars, deliveryVars, knowledgeVars>>
      => /\ [Next]_vars /\ [Queue!Next]_(Queue!vars)
         /\ [Delivery!Next]_(Delivery!mailVars) /\ [Index!Next]_(Index!indexVars)
  BY <1>2 DEF PartsNext
<1>4. QED
  BY <1>1, <1>3, PTL DEF PartsSpec, Spec, Queue!Spec, Delivery!Spec, Index!Spec

\* Jobs, checks, drafts and operations on a document keep their shapes, whatever the
\* numbers of messages, users, workers, requests and deaths of the server.
THEOREM StoresTypeOKAlways == PartsSpec => []StoresTypeOK
<1>1. Delivery!Spec => [](Delivery!TypeOK /\ SentOnce)
  BY MailAlways, DeliveryAssumption
<1>2. Index!Spec => [](Index!TypeOK /\ IndexIsCurrent)
  BY IndexAlways, IndexAssumption
<1>3. TypeOK /\ Queue!TypeOK /\ Delivery!TypeOK /\ Index!TypeOK => StoresTypeOK
  BY DEF StoresTypeOK
<1>4. QED
  BY <1>1, <1>2, <1>3, PartsAreTheirSpecs, TypeCorrect, ChecksAlways, PTL

\* No two unfinished checks of one origin, none but the oldest runs, and who ends a check
\* removes the row it ran, however tabs, the scheduler and workers that lose their
\* connections interleave.
THEOREM ChecksInOrderParts == PartsSpec => []ChecksInOrder
BY PartsAreTheirSpecs, ChecksAlways, PTL

\* A tick of the scheduler never adds a check for a user who has one.
THEOREM TickOnlyWhenIdleParts == PartsSpec => TickOnlyWhenIdle
BY PartsAreTheirSpecs, ChecksAlways, PTL

\* However often a draft is sent again after an answer, a connection or the server was
\* lost, its mail leaves at most once, and a draft that was closed as sent did leave:
\* for any number of drafts, requests and deaths of the server.
THEOREM SentOnceAlways == PartsSpec => []SentOnce
<1>1. Delivery!Spec => [](Delivery!TypeOK /\ SentOnce)
  BY MailAlways, DeliveryAssumption
<1>2. QED
  BY <1>1, PartsAreTheirSpecs, PTL

\* Once every operation on a document has ended, its chunks are those of its title and
\* text, whatever number of pages, edits, reloads and rebuilds overlapped: an index that
\* took long never replaces the work of a newer one.
THEOREM IndexIsCurrentAlways == PartsSpec => []IndexIsCurrent
<1>1. Index!Spec => [](Index!TypeOK /\ IndexIsCurrent)
  BY IndexAlways, IndexAssumption
<1>2. QED
  BY <1>1, PartsAreTheirSpecs, PTL
=============================================================================
