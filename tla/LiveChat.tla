------------------------------- MODULE LiveChat -------------------------------
(***************************************************************************)
(* The live view of one ticket: requests that add messages in their        *)
(* transactions and publish them before they commit, the bus that neither  *)
(* stores nor repeats, and a window, the portal's or the console's, which  *)
(* puts its transcript together from the page's data, its own stream, the  *)
(* bus and its optimistic and streamed bubbles.  Windows know each other   *)
(* only through the requests, so one is modelled in full and the others by *)
(* the requests they make.                                                 *)
(*                                                                         *)
(* TicketDesk has the requests in full; here is what they publish.  Left   *)
(* out: heartbeat, status and tool events, which change no bubble, and     *)
(* ticket_status, which changes only the badge and the composer.           *)
(***************************************************************************)
EXTENDS Naturals, Sequences, FiniteSets, Functions

CONSTANTS
  Texts,     \* what customers, agents and the workflow may say
  Notice,    \* the desk's notice
  Streamed,  \* the text of the tokens, before guardrails and handoffs
  MaxTurns   \* bound: requests that add a message

NoText == ""
AllTexts == Texts \union {Notice, Streamed}
ASSUME TextsAssumption ==
  NoText \notin AllTexts /\ Streamed \notin Texts \union {Notice} /\ MaxTurns \in Nat

VARIABLES
  stored,  \* committed ticket_messages, in the order of their insertion
  turns,   \* the requests so far
  holder,  \* the request that holds the lock on the tickets row, 0 for none
  clock,   \* transactions begun
  win,     \* the window
  bus,     \* published to its subscription and not yet handled
  stream   \* sent in answer to the window's request and not yet handled

vars == <<stored, turns, holder, clock, win, bus, stream>>

Users == {"customer", "human_agent"}

Numbers == 1 .. Len(turns)
Bubble == [id : (1 .. MaxTurns) \X {"question", "answer", "local", "done", "draft"},
           role : Users \union {"assistant", "system"},
           text : AllTexts]

\* own is a request of the window.  at is created_at, the start of the
\* transaction.  heard, a history variable: the window has had all its events.
Turn == [by : Users \union {"system"}, own : BOOLEAN, text : AllTexts,
         at : 0 .. MaxTurns,
         pc : {"posted", "loaded", "asked", "streaming", "persisted", "announced",
               "ending", "cut", "done", "half", "dead", "refused"},
         flushed : Seq([at : 1 .. MaxTurns, bubble : Bubble]),
         answer : Texts \union {NoText}, heard : BOOLEAN]

NewTurn(by, own, text) ==
  [by |-> by, own |-> own, text |-> text, at |-> 0, pc |-> "posted",
   flushed |-> <<>>, answer |-> NoText, heard |-> FALSE]

\* user: a customer in the portal, or an agent in the console.
Window == [user : Users, open : BOOLEAN, live : BOOLEAN, shown : SUBSET Bubble,
           cache : SUBSET Bubble, sending : 0 .. MaxTurns,
           draft : {NoText, Streamed}, settled : BOOLEAN]

Init ==
  /\ stored = <<>> /\ turns = <<>> /\ holder = 0 /\ clock = 0
  /\ \E user \in Users :
       win = [user |-> user, open |-> FALSE, live |-> FALSE, shown |-> {},
              cache |-> {}, sending |-> 0, draft |-> NoText, settled |-> FALSE]
  /\ bus = <<>> /\ stream = <<>>

-----------------------------------------------------------------------------
(* Events *)

Said(t, what, role, text) == [id |-> <<t, what>>, role |-> role, text |-> text]
Event(kind, bubble) == [kind |-> kind, bubble |-> bubble]
Done(t, text) == Event("done", Said(t, "done", "assistant", text))
\* "end": the response is complete.  "broken": it is refused, or it breaks.
Last(t, kind) == Event(kind, Said(t, "done", "assistant", NoText))

\* publish_and_sse: to the subscriptions, and to the sender's own stream.
Published(events) == bus' = IF win.live THEN bus \o events ELSE bus
Sent(t, events) == stream' = IF turns[t].own THEN stream \o events ELSE stream

Move(t, from, to) ==
  turns[t].pc = from /\ turns' = [turns EXCEPT ![t].pc = to]

-----------------------------------------------------------------------------
(* The requests *)

\* created_at will be the start of the transaction, which begins with the load.
Load(t) ==
  /\ turns[t].pc = "posted"
  /\ clock' = clock + 1
  /\ turns' = [turns EXCEPT ![t].pc = "loaded", ![t].at = clock']
  /\ UNCHANGED <<stored, holder, win, bus, stream>>

\* The ticket is closed, the session has expired, the service does not answer.
Refuse(t) ==
  /\ Move(t, "posted", "refused")
  /\ Sent(t, <<Last(t, "broken")>>)
  /\ UNCHANGED <<stored, holder, clock, win, bus>>

QuestionOf(t) == Said(t, "question", turns[t].by, turns[t].text)
Row(t, bubble) == [at |-> turns[t].at, bubble |-> bubble]

\* Mutant of RowIsFree: the append touches no column of the ticket.
NothingToLock == TRUE

RowIsFree == holder = 0

\* append_message takes the row lock; the message goes out at once.
AppendQuestion(t) ==
  /\ turns[t].pc = "loaded" /\ RowIsFree
  /\ holder' = t
  /\ turns' = [turns EXCEPT ![t].pc = IF turns[t].by = "system" THEN "ending" ELSE "asked",
                            ![t].flushed = <<Row(t, QuestionOf(t))>>,
                            ![t].heard = win.live]
  /\ Published(<<Event("message", QuestionOf(t))>>)
  /\ Sent(t, <<Event("message", QuestionOf(t))>>)
  /\ UNCHANGED <<stored, clock, win>>

\* An agent has taken over, or no interrupt waits for the agent's reply.
NoRun(t) ==
  /\ Move(t, "asked", "ending")
  /\ Published(<<Done(t, NoText)>>)
  /\ Sent(t, <<Done(t, NoText), Last(t, "end")>>)
  /\ UNCHANGED <<stored, holder, clock, win>>

\* Only customers' turns are streamed; windows ignore tokens on the bus.
Token(t) ==
  /\ turns[t].by = "customer" /\ Move(t, "asked", "streaming")
  /\ Sent(t, <<Event("token", Said(t, "draft", "assistant", Streamed))>>)
  /\ UNCHANGED <<stored, holder, clock, win, bus>>

\* list_messages orders by created_at, which is one value for a transaction:
\* any of the latest may come last.
Latest(t) ==
  LET history == Range(stored \o turns[t].flushed)
  IN {r.bubble : r \in {s \in history : \A o \in history : o.at <= s.at}}

Agents == {"assistant", "human_agent"}

\* Mutant of ShouldPersist: whoever said it last.
ShouldPersistNew(last, text) == last.text # text

ShouldPersist(last, text) == last.role \notin Agents \/ last.text # text

\* The answer, the handoff notice or the error; an agent's reply that answered an
\* interrupt comes back as the answer.
Persist(t) ==
  /\ turns[t].pc \in {"asked", "streaming"}
  /\ \E text \in Texts, last \in Latest(t) :
       LET answer == Row(t, Said(t, "answer", "assistant", text))
       IN turns' = [turns EXCEPT
                      ![t].pc = "persisted", ![t].answer = text,
                      ![t].flushed = IF ShouldPersist(last, text)
                                       THEN Append(@, answer) ELSE @]
  /\ UNCHANGED <<stored, holder, clock, win, bus, stream>>

\* The last message goes out if it is the assistant's, whosever turn it is.
Announce(t) ==
  /\ Move(t, "persisted", "announced")
  /\ \E last \in Latest(t) :
       LET events == IF last.role = "assistant" THEN <<Event("message", last)>> ELSE <<>>
       IN Published(events) /\ Sent(t, events)
  /\ UNCHANGED <<stored, holder, clock, win>>

Finish(t) ==
  /\ Move(t, "announced", "ending")
  /\ Published(<<Done(t, turns[t].answer)>>)
  /\ Sent(t, <<Done(t, turns[t].answer), Last(t, "end")>>)
  /\ UNCHANGED <<stored, holder, clock, win>>

Streaming == {"asked", "streaming", "persisted", "announced"}

\* A silent heartbeat period ends the stream, a disconnect breaks it; what was
\* flushed will be committed.
Cut(t) ==
  /\ turns[t].pc \in Streaming
  /\ turns' = [turns EXCEPT ![t].pc = "cut"]
  /\ \E kind \in {"end", "broken"} : Sent(t, <<Last(t, kind)>>)
  /\ UNCHANGED <<stored, holder, clock, win, bus>>

\* The session is committed after the response has ended.
Commit(t) ==
  /\ Move(t, "ending", "done") \/ Move(t, "cut", "half")
  /\ stored' = stored \o turns[t].flushed
  /\ holder' = 0
  /\ UNCHANGED <<clock, win, bus, stream>>

\* Redis or PostgreSQL fails, or the process dies.
Die(t) ==
  /\ turns[t].pc \in Streaming \union {"loaded", "ending", "cut"}
  /\ turns' = [turns EXCEPT ![t].pc = "dead"]
  /\ holder' = IF holder = t THEN 0 ELSE holder
  /\ IF turns[t].pc \in {"ending", "cut"} THEN UNCHANGED stream
                                          ELSE Sent(t, <<Last(t, "broken")>>)
  /\ UNCHANGED <<stored, clock, win, bus>>

\* A message from another window, or the notice of a close or a confirm.
Elsewhere ==
  /\ Len(turns) < MaxTurns
  /\ \/ \E user \in Users, text \in Texts :
          turns' = Append(turns, NewTurn(user, FALSE, text))
     \/ turns' = Append(turns, NewTurn("system", FALSE, Notice))
  /\ UNCHANGED <<stored, holder, clock, win, bus, stream>>

-----------------------------------------------------------------------------
(* The window *)

\* fingerprint: an agent and the assistant count as one author.
Family(role) == IF role \in Agents THEN "agent" ELSE role
Fingerprint(bubble) == <<Family(bubble.role), bubble.text>>
Fingerprints(bubbles) == {Fingerprint(b) : b \in bubbles}

\* Mutant of Upsert: only ids tell bubbles apart.
UpsertById(shown, new) ==
  LET rest == {b \in shown : ~ (b.id[2] = "local" /\ b.role = new.role /\ b.text = new.text)}
  IN rest \union {new}

\* A message takes the place of the optimistic bubble it confirms, unless it is
\* there already, or one like it.
Upsert(shown, new) ==
  LET rest == {b \in shown : ~ (b.id[2] = "local" /\ b.role = new.role /\ b.text = new.text)}
  IN IF new.id \in {b.id : b \in rest} \/ Fingerprint(new) \in Fingerprints(rest)
       THEN rest ELSE rest \union {new}

\* The window's record after it showed a bubble; every change is cached.
Showing(window, new) ==
  LET shown == Upsert(window.shown, new)
  IN [window EXCEPT !.shown = shown, !.cache = shown]

Stored == {r.bubble : r \in Range(stored)}

\* mergePreferLive: what the tab knew, and of the page's data what is new to it.
Merged(live, initial) ==
  live \union {b \in initial : b.id \notin {l.id : l \in live}
                               /\ Fingerprint(b) \notin Fingerprints(live)}

\* The page's data is read when the page is rendered.
Open ==
  /\ ~ win.open
  /\ win' = [win EXCEPT !.open = TRUE,
                        !.shown = IF win.cache = {} THEN Stored
                                                    ELSE Merged(win.cache, Stored)]
  /\ UNCHANGED <<stored, turns, holder, clock, bus, stream>>

\* The EventSource connects when the page runs, or again after a failure.
Subscribe ==
  /\ win.open /\ ~ win.live
  /\ win' = [win EXCEPT !.live = TRUE]
  /\ UNCHANGED <<stored, turns, holder, clock, bus, stream>>

Unheard(missed) ==
  turns' = [t \in Numbers |->
             IF t \in missed THEN [turns[t] EXCEPT !.heard = FALSE] ELSE turns[t]]

\* The connection is lost, or the user goes to another page of the application.
Unsubscribe ==
  /\ win.live
  /\ \/ win' = [win EXCEPT !.live = FALSE]
     \/ /\ win.sending = 0
        /\ win' = [win EXCEPT !.live = FALSE, !.open = FALSE, !.shown = {}]
  /\ bus' = <<>>
  /\ Unheard(Numbers)
  /\ UNCHANGED <<stored, holder, clock, stream>>

\* send() up to its fetch; the composer is disabled until it returns.
Send ==
  /\ win.open /\ win.sending = 0 /\ Len(turns) < MaxTurns
  /\ \E text \in Texts :
       LET t == Len(turns) + 1
           sending == [win EXCEPT !.sending = t, !.draft = NoText, !.settled = FALSE]
       IN /\ turns' = Append(turns, NewTurn(win.user, TRUE, text))
          /\ win' = Showing(sending, Said(t, "local", win.user, text))
  /\ UNCHANGED <<stored, holder, clock, bus, stream>>

\* Mutant of Tells: done events are left to the sender.
TellsMessages(event) == event.kind = "message"

\* A done event without an answer shows nothing.
Tells(event) == event.bubble.text # NoText

\* An event of the subscription.  While the window sends it is dropped.
Hear ==
  /\ bus # <<>>
  /\ bus' = Tail(bus)
  /\ LET event == Head(bus)
     IN IF win.sending # 0
          THEN Unheard({event.bubble.id[1]}) /\ UNCHANGED win
          ELSE /\ win' = IF Tells(event) THEN Showing(win, event.bubble) ELSE win
               /\ UNCHANGED turns
  /\ UNCHANGED <<stored, holder, clock, stream>>

\* Mutant of Settled: only an assistant's message settles the answer.
SettledByMessage(window, e) ==
  IF e.kind = "message" /\ e.bubble.role = "assistant"
    THEN [window EXCEPT !.settled = TRUE, !.draft = NoText] ELSE window

\* The assistant's message or the done event takes the place of the draft.
Settled(window, e) ==
  IF e.kind = "done" \/ (e.kind = "message" /\ e.bubble.role = "assistant")
    THEN [window EXCEPT !.settled = TRUE, !.draft = NoText] ELSE window

\* Mutant of FromDone: what was streamed goes first.
FromDraft(window, e) ==
  [e.bubble EXCEPT !.text = IF window.draft = NoText THEN @ ELSE window.draft]

\* assistantFromDone: the answer, or else what was streamed.
FromDone(window, e) ==
  [e.bubble EXCEPT !.text = IF @ = NoText THEN window.draft ELSE @]

Handled(window, e) ==
  CASE e.kind = "token" -> [window EXCEPT !.draft = Streamed]
    [] e.kind = "message" -> Settled(Showing(window, e.bubble), e)
    [] e.kind = "done" ->
         IF window.user = "customer" /\ FromDone(window, e).text # NoText
           THEN Settled(Showing(window, FromDone(window, e)), e)
           ELSE Settled(window, e)
    \* A complete stream without an answer leaves the draft as a bubble.
    [] e.kind = "end" ->
         IF ~ window.settled /\ window.draft # NoText
           THEN [Showing(window, Said(window.sending, "draft", "assistant", window.draft))
                   EXCEPT !.draft = NoText, !.sending = 0]
           ELSE [window EXCEPT !.sending = 0]
    [] e.kind = "broken" -> [window EXCEPT !.sending = 0]

\* An event of the response to the window's own request.
Read ==
  /\ stream # <<>>
  /\ stream' = Tail(stream)
  /\ win' = Handled(win, Head(stream))
  /\ UNCHANGED <<stored, turns, holder, clock, bus>>

-----------------------------------------------------------------------------
Serve(t) ==
  \/ Load(t) \/ Refuse(t) \/ AppendQuestion(t) \/ NoRun(t) \/ Token(t)
  \/ Persist(t) \/ Announce(t) \/ Finish(t) \/ Cut(t) \/ Commit(t) \/ Die(t)

Next ==
  \/ \E t \in Numbers : Serve(t)
  \/ Elsewhere
  \/ Open \/ Subscribe \/ Unsubscribe \/ Send \/ Hear \/ Read

Spec == Init /\ [][Next]_vars

-----------------------------------------------------------------------------
(* Properties *)

\* The row lock belongs to the one request between its append and its end.
TypeOK ==
  /\ stored \in Seq([at : 1 .. MaxTurns, bubble : Bubble])
  /\ turns \in Seq(Turn) /\ Len(turns) <= MaxTurns
  /\ clock \in 0 .. MaxTurns
  /\ win \in Window
  /\ holder \in {0} \union Numbers
  /\ \A t \in Numbers : turns[t].pc \in Streaming \union {"ending", "cut"} <=> holder = t

\* One message is one bubble, although it reaches a window as optimistic copy,
\* stream event, bus event, done event and page data: a window shows a text more
\* often than once only if the ticket has it as often.
NoDoubles ==
  \A b \in win.shown :
    LET like(bubbles) == Cardinality({c \in bubbles : Fingerprint(c) = Fingerprint(b)})
    IN like(win.shown) > 1 => like(win.shown) <= like(Stored)

\* An answer that was announced as done and committed is in the transcript, also
\* where the message was not stored because the last one said the same.
AnswersAreKept ==
  \A t \in Numbers :
    turns[t].pc = "done" /\ turns[t].answer # NoText =>
      <<"agent", turns[t].answer>> \in Fingerprints(Stored)

\* Whoever sent a message that was answered sees it, and a customer the answer,
\* whatever came in between and even when the page is left and opened again.
SendersSeeTheirTurn ==
  \A t \in Numbers :
    (/\ turns[t].own /\ turns[t].pc \in {"ending", "done"}
     /\ win.open /\ win.sending # t)
    => /\ Fingerprint(QuestionOf(t)) \in Fingerprints(win.shown)
       /\ (turns[t].by = "customer" /\ turns[t].answer # NoText) =>
            <<"agent", turns[t].answer>> \in Fingerprints(win.shown)

\* A window that was subscribed when a request's message went out, and neither
\* lost the connection nor sent while its events came, shows all of it.
WatchersMissNothing ==
  \A t \in Numbers :
    (turns[t].heard /\ turns[t].pc \in {"ending", "done"} /\ bus = <<>>)
    => /\ Fingerprint(QuestionOf(t)) \in Fingerprints(win.shown)
       /\ turns[t].answer # NoText => <<"agent", turns[t].answer>> \in Fingerprints(win.shown)

\* What a window shows of a request that was served to its end is in the ticket:
\* in particular no streamed draft outlives its answer.
NoPhantoms ==
  \A b \in win.shown :
    turns[b.id[1]].pc = "done" => Fingerprint(b) \in Fingerprints(Stored)
=============================================================================
