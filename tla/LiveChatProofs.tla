----------------------------- MODULE LiveChatProofs -----------------------------
(***************************************************************************)
(* What TLAPS proves of LiveChat, for any number of requests and any texts. *)
(*                                                                         *)
(* One invariant serves all of it: every bubble, wherever it is, can be    *)
(* told from its id, a window never forgets what it has cached, and what   *)
(* it has not shown yet is on its way.                                     *)
(***************************************************************************)
EXTENDS LiveChat, FiniteSetTheorems, SequenceTheorems, TLAPS

USE TextsAssumption

-----------------------------------------------------------------------------
(* The invariant *)

Held == Streaming \union {"ending", "cut"}
Over == {"ending", "cut", "done", "half", "dead", "refused"}
Broken == {"cut", "half", "dead"}

Rows == [at : 1 .. MaxTurns, bubble : Bubble]

Events == [kind : {"message", "done", "token", "end", "broken"},
           bubble : [id : (1 .. MaxTurns) \X {"question", "answer", "local", "done", "draft"},
                     role : Users \union {"assistant", "system"},
                     text : AllTexts \union {NoText}]]

\* All that a request may store, and all that a window may show of it: nothing of
\* an answer before there is one, and a draft only where the answer is lost.
Kept(t) ==
  {QuestionOf(t)} \union
  {b \in {Said(t, "answer", "assistant", turns[t].answer)} : turns[t].answer # NoText}

AnswerOf(t) == Said(t, "done", "assistant", turns[t].answer)

Bubbles(t) ==
  Kept(t) \union {Said(t, "local", turns[t].by, turns[t].text)}
    \union {b \in {AnswerOf(t)} : turns[t].answer # NoText}
    \union {b \in {Said(t, "draft", "assistant", Streamed)} : turns[t].pc \in Broken}

AllKept == UNION {Kept(t) : t \in Numbers}
AllBubbles == UNION {Bubbles(t) : t \in Numbers}

Flushed(t) == {r.bubble : r \in Range(turns[t].flushed)}
Asks(t) == Fingerprint(QuestionOf(t))
Answers(t) == <<"agent", turns[t].answer>>
Begun == {t \in Numbers : turns[t].pc \notin {"posted", "refused"}}

\* Every transaction that has begun is a request's, and its rows have its number.
ChatTypes ==
  /\ TypeOK
  /\ clock <= Cardinality(Begun)
  /\ \A t \in Begun : turns[t].at \in 1 .. MaxTurns
  /\ bus \in Seq(Events) /\ stream \in Seq(Events)

\* An answer that was not stored repeats a message that is.
Request(t) ==
  /\ Flushed(t) \subseteq Kept(t)
  /\ turns[t].pc \in {"posted", "loaded", "refused", "asked", "streaming"} =>
       turns[t].answer = NoText
  /\ turns[t].pc \in {"persisted", "announced"} => turns[t].answer # NoText
  /\ turns[t].pc \in Held \union {"done", "half"} => QuestionOf(t) \in Flushed(t)
  /\ turns[t].pc \in {"done", "half"} => Flushed(t) \subseteq Stored
  /\ turns[t].answer # NoText => Answers(t) \in Fingerprints(Stored \union Flushed(t))

RequestInv ==
  /\ Stored \subseteq AllKept
  /\ \A t \in Numbers : Request(t)

\* Bubbles that look alike are messages of the ticket.
Alike(bubbles) ==
  \A b, c \in bubbles : Fingerprint(b) = Fingerprint(c) /\ b # c => {b, c} \subseteq Stored

WindowInv ==
  /\ win.live \/ win.sending # 0 => win.open
  /\ win.open => win.cache \subseteq win.shown
  /\ win.shown \union win.cache \subseteq AllBubbles
  /\ Alike(win.shown) /\ Alike(win.cache)
  /\ \A t \in Numbers : turns[t].own =>
       turns[t].by = win.user /\ Asks(t) \in Fingerprints(win.cache)

\* What is on its way to the window of its request s.
Coming(e, s) ==
  /\ e.kind = "message" => e.bubble \in AllBubbles
  /\ e.kind = "done" => e.bubble = AnswerOf(s) /\ turns[s].pc \in {"ending", "done", "dead"}
  /\ e.kind \in {"end", "broken"} => turns[s].pc \in Over

DoneComes == \E i \in 1 .. Len(stream) : stream[i].kind = "done"
Undrafted == win.draft = NoText /\ \A i \in 1 .. Len(stream) : stream[i].kind # "token"

\* The response to the one request under way ends with one last event, a complete
\* one tells its answer before, and one without an answer has drafted nothing.
StreamInv ==
  /\ win.sending = 0 => stream = <<>>
  /\ win.sending # 0 => win.sending \in Numbers /\ turns[win.sending].own
  /\ \A t \in Numbers \ {win.sending} : turns[t].own => turns[t].pc \in Over
  /\ \A i \in 1 .. Len(stream) :
       /\ Coming(stream[i], win.sending)
       /\ stream[i].kind \in {"end", "broken"} => i = Len(stream)
       /\ stream[i].kind = "done" /\ turns[win.sending].answer = NoText => Undrafted
       /\ stream[i].kind = "end" =>
            turns[win.sending].pc \in Broken \/ win.settled \/ DoneComes
  /\ win.sending # 0 =>
       /\ turns[win.sending].pc \in {"posted", "loaded", "asked"} => Undrafted
       /\ turns[win.sending].pc \in Over =>
            stream # <<>> /\ stream[Len(stream)].kind \in {"end", "broken"}
  /\ \A t \in Numbers :
       turns[t].own /\ turns[t].by = "customer" /\ turns[t].pc \in {"ending", "done"}
         /\ turns[t].answer # NoText
       => Answers(t) \in Fingerprints(win.cache) \/ (t = win.sending /\ DoneComes)

Awaits(bubble) == \E i \in 1 .. Len(bus) : bus[i].bubble = bubble

\* A watcher has shown what it heard, or is about to.
BusInv ==
  /\ ~ win.live => bus = <<>>
  /\ \A i \in 1 .. Len(bus) : bus[i].bubble \in AllBubbles \/ bus[i].bubble.text = NoText
  /\ \A t \in Numbers : turns[t].heard =>
       /\ win.live
       /\ Asks(t) \in Fingerprints(win.shown) \/ Awaits(QuestionOf(t))
       /\ turns[t].pc \in {"ending", "done"} /\ turns[t].answer # NoText =>
            Answers(t) \in Fingerprints(win.shown) \/ Awaits(AnswerOf(t))

ChatInv == ChatTypes /\ RequestInv /\ WindowInv /\ StreamInv /\ BusInv
-----------------------------------------------------------------------------
(* Sequences *)

LEMMA Joined ==
  ASSUME NEW S, NEW s \in Seq(S), NEW u \in Seq(S)
  PROVE  /\ s \o u \in Seq(S)
         /\ Len(s) \in Nat /\ Len(u) \in Nat /\ Len(s \o u) = Len(s) + Len(u)
         /\ \A i \in 1 .. Len(s) : (s \o u)[i] = s[i]
         /\ \A i \in 1 .. Len(u) : (s \o u)[Len(s) + i] = u[i]
         /\ \A i \in 1 .. Len(s \o u) :
              i \in 1 .. Len(s) \/ \E j \in 1 .. Len(u) : i = Len(s) + j
<1>1. Len(s) \in Nat /\ Len(u) \in Nat
  OBVIOUS
<1>2. /\ s \o u \in Seq(S) /\ Len(s \o u) = Len(s) + Len(u)
      /\ \A i \in 1 .. Len(s) + Len(u) :
           (s \o u)[i] = IF i <= Len(s) THEN s[i] ELSE u[i - Len(s)]
  BY ConcatProperties
<1>3. ASSUME NEW i \in 1 .. Len(s \o u), i \notin 1 .. Len(s)
      PROVE  \E j \in 1 .. Len(u) : i = Len(s) + j
  <2>1. i - Len(s) \in 1 .. Len(u) /\ i = Len(s) + (i - Len(s))
    BY <1>1, <1>2, <1>3
  <2> QED
    BY <2>1
<1>4. ASSUME NEW i \in 1 .. Len(u) PROVE (s \o u)[Len(s) + i] = u[i]
  BY <1>1, <1>2
<1> QED
  BY <1>1, <1>2, <1>3, <1>4

LEMMA Consumed ==
  ASSUME NEW S, NEW s \in Seq(S), s # <<>>
  PROVE  /\ Tail(s) \in Seq(S) /\ Head(s) \in S /\ Head(s) = s[1]
         /\ Len(s) \in Nat \ {0} /\ Len(Tail(s)) = Len(s) - 1
         /\ \A i \in 1 .. Len(Tail(s)) : Tail(s)[i] = s[i + 1]
         /\ \A i \in 1 .. Len(s) : i = 1 \/ \E j \in 1 .. Len(Tail(s)) : i = j + 1
<1>1. /\ Tail(s) \in Seq(S) /\ Head(s) \in S /\ Head(s) = s[1]
      /\ Len(s) \in Nat \ {0} /\ Len(Tail(s)) = Len(s) - 1
      /\ \A i \in 1 .. Len(Tail(s)) : Tail(s)[i] = s[i + 1]
  BY HeadTailProperties, EmptySeq
<1>2. ASSUME NEW i \in 1 .. Len(s), i # 1
      PROVE  \E j \in 1 .. Len(Tail(s)) : i = j + 1
  <2>1. i - 1 \in 1 .. Len(Tail(s)) /\ i = (i - 1) + 1
    BY <1>1, <1>2
  <2> QED
    BY <2>1
<1> QED
  BY <1>1, <1>2

-----------------------------------------------------------------------------
(* Bubbles *)

\* A bubble is made of one of five sayings of its request.
LEMMA Sayings ==
  ASSUME NEW t, NEW b \in Bubbles(t)
  PROVE  \/ b = QuestionOf(t)
         \/ b = Said(t, "local", turns[t].by, turns[t].text)
         \/ b = Said(t, "answer", "assistant", turns[t].answer) /\ turns[t].answer # NoText
         \/ b = AnswerOf(t) /\ turns[t].answer # NoText
         \/ b = Said(t, "draft", "assistant", Streamed) /\ turns[t].pc \in Broken
BY DEF Bubbles, Kept

\* So the id tells the whole bubble, now and after a step.
LEMMA SameId ==
  \A b, c \in AllBubbles : b.id = c.id => b = c
<1> SUFFICES ASSUME NEW b \in AllBubbles, NEW c \in AllBubbles, b.id = c.id
             PROVE  b = c
  OBVIOUS
<1>1. PICK t \in Numbers : b \in Bubbles(t)
  BY DEF AllBubbles
<1>2. PICK u \in Numbers : c \in Bubbles(u)
  BY DEF AllBubbles
<1>3. b.id[1] = t /\ c.id[1] = u
  BY <1>1, <1>2, Sayings DEF Said, QuestionOf, AnswerOf
<1>4. c \in Bubbles(t)
  BY <1>2, <1>3
<1> QED
  BY <1>1, <1>4, Sayings DEF Said, QuestionOf, AnswerOf

LEMMA SameIdAfter ==
  (\A b, c \in AllBubbles : b.id = c.id => b = c)'
BY SameId, PTL

LEMMA BubblesTyped ==
  ASSUME TypeOK, NEW t \in Numbers
  PROVE  /\ Bubbles(t) \subseteq Bubble /\ Kept(t) \subseteq Bubbles(t)
         /\ QuestionOf(t) \in Kept(t) /\ QuestionOf(t) \in Bubble
<1> turns[t] \in Turn /\ t \in 1 .. MaxTurns
  BY DEF TypeOK, Numbers
<1>1. /\ turns[t].by \in Users \union {"system"} /\ turns[t].text \in AllTexts
      /\ turns[t].answer # NoText => turns[t].answer \in AllTexts
  BY DEF Turn, AllTexts
<1>2. ASSUME NEW what \in {"question", "answer", "local", "done", "draft"},
             NEW role \in Users \union {"assistant", "system"}, NEW text \in AllTexts
      PROVE  Said(t, what, role, text) \in Bubble
  BY <1>1 DEF Said, Bubble
<1>3. Streamed \in AllTexts
  BY DEF AllTexts
<1>4. Kept(t) \subseteq Bubbles(t) /\ QuestionOf(t) \in Kept(t)
  BY DEF Bubbles, Kept
<1>5. Bubbles(t) \subseteq Bubble
  BY <1>1, <1>2, <1>3, Sayings DEF QuestionOf, AnswerOf, Users
<1> QED
  BY <1>4, <1>5

\* Upsert never loses what a window shows, only how often, and shows what is new.
LEMMA Upserting ==
  ASSUME NEW S, NEW b, \A c \in S : c.id = b.id => c = b
  PROVE  /\ Upsert(S, b) \subseteq S \union {b}
         /\ Fingerprints(S) \union {Fingerprint(b)} \subseteq Fingerprints(Upsert(S, b))
         /\ \A c, d \in Upsert(S, b) :
              Fingerprint(c) = Fingerprint(d) /\ c # d => c \in S /\ d \in S
<1> DEFINE rest == {c \in S : ~ (c.id[2] = "local" /\ c.role = b.role /\ c.text = b.text)}
<1>1. Upsert(S, b) = IF b.id \in {c.id : c \in rest} \/ Fingerprint(b) \in Fingerprints(rest)
                       THEN rest ELSE rest \union {b}
  BY DEF Upsert
<1>2. rest \subseteq S /\ \A c \in S \ rest : Fingerprint(c) = Fingerprint(b)
  BY DEF Fingerprint
<1> HIDE DEF rest
<1>3. Fingerprint(b) \in Fingerprints(Upsert(S, b))
  <2>1. CASE b.id \in {c.id : c \in rest}
    <3>1. PICK c \in rest : c.id = b.id
      BY <2>1
    <3> QED
      BY <1>1, <1>2, <2>1, <3>1 DEF Fingerprints
  <2> QED
    BY <1>1, <2>1 DEF Fingerprints
<1>4. Fingerprints(S) \subseteq Fingerprints(Upsert(S, b))
  BY <1>1, <1>2, <1>3 DEF Fingerprints
<1>5. ASSUME NEW c \in Upsert(S, b), NEW d \in Upsert(S, b),
             Fingerprint(c) = Fingerprint(d), c # d
      PROVE  c \in S /\ d \in S
  BY <1>1, <1>2, <1>5 DEF Fingerprints
<1> QED
  BY <1>1, <1>2, <1>3, <1>4, <1>5
-----------------------------------------------------------------------------
(* What a step of a request does to its record *)

PCs == {"posted", "loaded", "asked", "streaming", "persisted", "announced",
        "ending", "cut", "done", "half", "dead", "refused"}

\* All but heard, which only the window takes back.
Rewrites(t) ==
  /\ turns' \in Seq(Turn) /\ Len(turns') = Len(turns)
  /\ \A u \in Numbers \ {t} : turns'[u] = turns[u]
  /\ turns'[t].by = turns[t].by /\ turns'[t].own = turns[t].own
  /\ turns'[t].text = turns[t].text

Becomes(t, pc, at, flushed, answer) ==
  /\ Rewrites(t)
  /\ turns'[t].pc = pc /\ turns'[t].at = at
  /\ turns'[t].flushed = flushed /\ turns'[t].answer = answer

LEMMA Rewritten ==
  ASSUME TypeOK, NEW t \in Numbers, NEW rec \in Turn,
         turns' = [turns EXCEPT ![t] = rec],
         rec.by = turns[t].by, rec.own = turns[t].own, rec.text = turns[t].text
  PROVE  Becomes(t, rec.pc, rec.at, rec.flushed, rec.answer) /\ turns'[t] = rec
<1>1. turns \in Seq(Turn) /\ t \in 1 .. Len(turns)
  BY DEF TypeOK, Numbers
<1>2. /\ turns' \in Seq(Turn) /\ Len(turns') = Len(turns)
      /\ \A u \in 1 .. Len(turns) : turns'[u] = IF u = t THEN rec ELSE turns[u]
  BY <1>1, ExceptSeq
<1> QED
  BY <1>1, <1>2 DEF Becomes, Rewrites, Numbers

\* A step that only moves on.
LEMMA Moved ==
  ASSUME TypeOK, NEW t \in Numbers, NEW pc \in PCs,
         turns' = [turns EXCEPT ![t].pc = pc]
  PROVE  /\ Becomes(t, pc, turns[t].at, turns[t].flushed, turns[t].answer)
         /\ turns'[t].heard = turns[t].heard
<1> DEFINE rec == [turns[t] EXCEPT !.pc = pc]
<1>1. turns[t] \in Turn
  BY DEF TypeOK, Numbers
<1>2. /\ rec \in Turn /\ rec.by = turns[t].by /\ rec.own = turns[t].own
      /\ rec.text = turns[t].text /\ rec.pc = pc /\ rec.at = turns[t].at
      /\ rec.flushed = turns[t].flushed /\ rec.answer = turns[t].answer
      /\ rec.heard = turns[t].heard
  BY <1>1 DEF Turn, PCs
<1>3. turns' = [turns EXCEPT ![t] = rec]
  OBVIOUS
<1> HIDE DEF rec
<1> QED
  BY <1>2, <1>3, Rewritten

LEMMA LoadDoes ==
  ASSUME TypeOK, NEW t \in Numbers, Load(t), clock' \in 0 .. MaxTurns
  PROVE  /\ Becomes(t, "loaded", clock', turns[t].flushed, turns[t].answer)
         /\ turns'[t].heard = turns[t].heard
<1> DEFINE rec == [turns[t] EXCEPT !.pc = "loaded", !.at = clock']
<1>1. turns[t] \in Turn
  BY DEF TypeOK, Numbers
<1>2. /\ rec \in Turn /\ rec.by = turns[t].by /\ rec.own = turns[t].own
      /\ rec.text = turns[t].text /\ rec.pc = "loaded" /\ rec.at = clock'
      /\ rec.flushed = turns[t].flushed /\ rec.answer = turns[t].answer
      /\ rec.heard = turns[t].heard
  BY <1>1 DEF Turn, PCs
<1>3. turns' = [turns EXCEPT ![t] = rec]
  BY DEF Load
<1> HIDE DEF rec
<1> QED
  BY <1>2, <1>3, Rewritten

LEMMA AppendDoes ==
  ASSUME TypeOK, NEW t \in Numbers, AppendQuestion(t), turns[t].at \in 1 .. MaxTurns
  PROVE  /\ Becomes(t, IF turns[t].by = "system" THEN "ending" ELSE "asked",
                    turns[t].at, <<Row(t, QuestionOf(t))>>, turns[t].answer)
         /\ turns'[t].heard = win.live
         /\ Row(t, QuestionOf(t)) \in Rows
<1> DEFINE pc == IF turns[t].by = "system" THEN "ending" ELSE "asked"
           flushed == <<Row(t, QuestionOf(t))>>
           rec == [turns[t] EXCEPT !.pc = pc, !.flushed = flushed, !.heard = win.live]
<1>1. turns[t] \in Turn /\ win.live \in BOOLEAN
  BY DEF TypeOK, Numbers, Window
<1>2. Row(t, QuestionOf(t)) \in Rows
  BY BubblesTyped DEF Row, Rows
<1>3. flushed \in Seq(Rows) /\ pc \in PCs
  BY <1>2 DEF PCs
<1>4. turns' = [turns EXCEPT ![t] = rec]
  BY DEF AppendQuestion
<1> HIDE DEF pc, flushed
<1>5. /\ rec \in Turn /\ rec.by = turns[t].by /\ rec.own = turns[t].own
      /\ rec.text = turns[t].text /\ rec.pc = pc /\ rec.at = turns[t].at
      /\ rec.flushed = flushed /\ rec.answer = turns[t].answer
      /\ rec.heard = win.live
  BY <1>1, <1>3 DEF Turn, PCs, Rows
<1> HIDE DEF rec
<1>6. /\ Becomes(t, pc, turns[t].at, flushed, turns[t].answer)
      /\ turns'[t].heard = win.live
  BY <1>4, <1>5, Rewritten
<1> QED
  BY <1>2, <1>6 DEF pc, flushed

\* The answer is stored, or it repeats the message that came last.
LEMMA PersistDoes ==
  ASSUME TypeOK, NEW t \in Numbers, Persist(t), turns[t].at \in 1 .. MaxTurns
  PROVE  \E text \in Texts, last \in Latest(t), flushed \in Seq(Rows) :
           /\ Becomes(t, "persisted", turns[t].at, flushed, text)
           /\ turns'[t].heard = turns[t].heard
           /\ Row(t, Said(t, "answer", "assistant", text)) \in Rows
           /\ \/ /\ ShouldPersist(last, text)
                 /\ flushed = Append(turns[t].flushed,
                                     Row(t, Said(t, "answer", "assistant", text)))
              \/ ~ ShouldPersist(last, text) /\ flushed = turns[t].flushed
<1>1. turns[t] \in Turn /\ t \in 1 .. MaxTurns
  BY DEF TypeOK, Numbers
<1>2. PICK text \in Texts, last \in Latest(t) :
        turns' = [turns EXCEPT
                   ![t].pc = "persisted", ![t].answer = text,
                   ![t].flushed = IF ShouldPersist(last, text)
                                    THEN Append(@, Row(t, Said(t, "answer", "assistant", text)))
                                    ELSE @]
  BY DEF Persist
<1> DEFINE answer == Row(t, Said(t, "answer", "assistant", text))
           flushed == IF ShouldPersist(last, text) THEN Append(turns[t].flushed, answer)
                                                   ELSE turns[t].flushed
           rec == [turns[t] EXCEPT !.pc = "persisted", !.answer = text, !.flushed = flushed]
<1>3. answer \in Rows
  BY <1>1 DEF Row, Said, Rows, Bubble, AllTexts
<1>4. turns[t].flushed \in Seq(Rows)
  BY <1>1 DEF Turn, Rows
<1>5. flushed \in Seq(Rows)
  BY <1>3, <1>4
<1>6. turns' = [turns EXCEPT ![t] = rec]
  BY <1>2
<1> HIDE DEF flushed
<1>7. /\ rec \in Turn /\ rec.by = turns[t].by /\ rec.own = turns[t].own
      /\ rec.text = turns[t].text /\ rec.pc = "persisted" /\ rec.at = turns[t].at
      /\ rec.flushed = flushed /\ rec.answer = text
      /\ rec.heard = turns[t].heard
  BY <1>1, <1>5 DEF Turn, PCs, Rows
<1> HIDE DEF rec
<1>8. Becomes(t, rec.pc, rec.at, rec.flushed, rec.answer) /\ turns'[t] = rec
  <2> HIDE DEF answer
  <2> QED
    BY <1>6, <1>7, Rewritten
<1>9. /\ Becomes(t, "persisted", turns[t].at, flushed, text)
      /\ turns'[t].heard = turns[t].heard
  BY <1>7, <1>8
<1> QED
  BY <1>3, <1>5, <1>9 DEF flushed
-----------------------------------------------------------------------------
(* Type correctness *)

LEMMA EventsTyped ==
  ASSUME TypeOK, NEW t \in Numbers
  PROVE  /\ \A b \in Bubble : Event("message", b) \in Events
         /\ \A text \in AllTexts \union {NoText} : Done(t, text) \in Events
         /\ \A kind \in {"end", "broken"} : Last(t, kind) \in Events
         /\ Event("token", Said(t, "draft", "assistant", Streamed)) \in Events
<1>1. t \in 1 .. MaxTurns
  BY DEF TypeOK, Numbers
<1>2. ASSUME NEW kind \in {"message", "done", "token", "end", "broken"},
             NEW what \in {"question", "answer", "local", "done", "draft"},
             NEW role \in Users \union {"assistant", "system"},
             NEW text \in AllTexts \union {NoText}
      PROVE  Event(kind, Said(t, what, role, text)) \in Events
  BY <1>1 DEF Event, Said, Events
<1>3. \A b \in Bubble : Event("message", b) \in Events
  BY DEF Event, Bubble, Events
<1> QED
  BY <1>2, <1>3 DEF Done, Last, AllTexts

LEMMA PublishedTyped ==
  ASSUME ChatTypes, NEW events \in Seq(Events), NEW t \in Numbers
  PROVE  /\ Published(events) => bus' \in Seq(Events)
         /\ Sent(t, events) => stream' \in Seq(Events)
<1>1. bus \in Seq(Events) /\ stream \in Seq(Events)
  BY DEF ChatTypes
<1>2. bus \o events \in Seq(Events) /\ stream \o events \in Seq(Events)
  BY <1>1
<1>3. Published(events) => bus' = bus \o events \/ bus' = bus
  BY DEF Published
<1>4. Sent(t, events) => stream' = stream \o events \/ stream' = stream
  BY DEF Sent
<1> QED
  BY <1>1, <1>2, <1>3, <1>4

\* A transaction that begins is one more than have begun, of as many requests.
LEMMA ClockRuns ==
  ASSUME ChatTypes
  PROVE  /\ IsFiniteSet(Begun) /\ clock <= Len(turns)
         /\ \A t \in Numbers \ Begun :
              /\ clock + 1 <= Cardinality(Begun \union {t})
              /\ clock + 1 <= Len(turns) /\ clock + 1 <= MaxTurns
<1>1. Len(turns) \in Nat /\ Len(turns) <= MaxTurns /\ clock \in Nat
  BY DEF ChatTypes, TypeOK
<1>2. IsFiniteSet(Numbers) /\ Cardinality(Numbers) = Len(turns)
  <2>1. /\ IsFiniteSet(1 .. Len(turns))
        /\ Cardinality(1 .. Len(turns)) = IF 1 > Len(turns) THEN 0 ELSE Len(turns) - 1 + 1
    <3>1. 1 \in Int /\ Len(turns) \in Int
      BY <1>1
    <3> QED
      BY <3>1, FS_Interval
  <2> QED
    BY <1>1, <2>1 DEF Numbers
<1>3. ASSUME NEW S \in SUBSET Numbers
      PROVE  IsFiniteSet(S) /\ Cardinality(S) \in Nat /\ Cardinality(S) <= Len(turns)
  BY <1>2, FS_Subset, FS_CardinalityType
<1>4. Begun \in SUBSET Numbers
  BY DEF Begun
<1>5. IsFiniteSet(Begun) /\ Cardinality(Begun) \in Nat /\ clock <= Len(turns)
  BY <1>1, <1>3, <1>4 DEF ChatTypes
<1>6. ASSUME NEW t \in Numbers \ Begun
      PROVE  /\ clock + 1 <= Cardinality(Begun \union {t})
             /\ clock + 1 <= Len(turns) /\ clock + 1 <= MaxTurns
  <2>1. Cardinality(Begun \union {t}) = Cardinality(Begun) + 1
    BY <1>5, <1>6, FS_AddElement
  <2>2. Cardinality(Begun \union {t}) <= Len(turns)
    BY <1>3, <1>4
  <2> QED
    BY <1>1, <1>5, <2>1, <2>2 DEF ChatTypes
<1> QED
  BY <1>5, <1>6

\* What a step of a request has to respect.
LEMMA ServeTypes ==
  ASSUME ChatTypes, NEW t \in Numbers, Rewrites(t),
         turns'[t].pc # "posted",
         turns'[t].pc # "refused" => turns'[t].at \in 1 .. MaxTurns,
         \/ clock' = clock /\ t \in Begun /\ turns'[t].pc # "refused"
         \/ clock' = clock /\ t \notin Begun /\ turns'[t].pc = "refused"
         \/ clock' = clock + 1 /\ t \notin Begun /\ turns'[t].pc # "refused",
         win' = win, stored' \in Seq(Rows), bus' \in Seq(Events), stream' \in Seq(Events),
         \/ turns'[t].pc \in Held /\ holder' = t /\ holder \in {0, t}
         \/ turns'[t].pc \notin Held /\ holder = t /\ holder' = 0
         \/ turns'[t].pc \notin Held /\ holder # t /\ holder' = holder
  PROVE  ChatTypes'
<1> DEFINE pc == turns'[t].pc
<1>1. /\ Len(turns') = Len(turns) /\ turns' \in Seq(Turn) /\ Numbers' = Numbers
      /\ Len(turns) \in Nat /\ Len(turns) <= MaxTurns
      /\ \A u \in Numbers \ {t} : turns'[u] = turns[u]
  BY DEF Rewrites, Numbers, ChatTypes, TypeOK
<1> holder \in {0} \union Numbers /\ 0 \notin Numbers
  BY DEF Numbers, ChatTypes, TypeOK
<1>2. IF pc = "refused" THEN Begun' = Begun \ {t} ELSE Begun' = Begun \union {t}
  <2>1. \A u \in Numbers \ {t} : u \in Begun' <=> u \in Begun
    BY <1>1 DEF Begun
  <2>2. t \in Begun' <=> pc # "refused"
    BY <1>1 DEF Begun
  <2>3. Begun \subseteq Numbers /\ Begun' \subseteq Numbers
    BY <1>1 DEF Begun
  <2> QED
    BY <2>1, <2>2, <2>3
<1>3. clock' \in Nat /\ clock' <= Cardinality(Begun') /\ clock' <= MaxTurns
  <2>1. CASE clock' = clock /\ (pc = "refused" <=> t \notin Begun)
    <3>1. Begun' = Begun
      BY <1>2, <2>1
    <3> QED
      BY <2>1, <3>1 DEF ChatTypes, TypeOK
  <2>2. CASE clock' = clock + 1 /\ t \notin Begun /\ turns'[t].pc # "refused"
    <3>1. Begun' = Begun \union {t} /\ t \in Numbers \ Begun
      BY <1>2, <2>2
    <3>2. /\ clock + 1 <= Cardinality(Begun \union {t})
          /\ clock + 1 <= MaxTurns /\ clock \in Nat
      <4>1. clock \in Nat
        BY DEF ChatTypes, TypeOK
      <4> QED
        BY <3>1, <4>1, ClockRuns
    <3> QED
      BY <2>2, <3>1, <3>2
  <2> QED
    BY <2>1, <2>2
<1>4. \A u \in Begun' : turns'[u].at \in 1 .. MaxTurns
  <2> TAKE u \in Begun'
  <2>1. CASE u = t
    BY <1>1, <1>2, <2>1
  <2>2. CASE u # t
    BY <1>1, <1>2, <2>2 DEF Begun, ChatTypes
  <2> QED
    BY <2>1, <2>2
<1>5. ASSUME NEW u \in Numbers'
      PROVE  turns'[u].pc \in Held <=> holder' = u
  <2>1. CASE u = t
    BY <1>1, <2>1
  <2>2. CASE u # t
    <3>1. turns[u].pc \in Held <=> holder = u
      BY <1>1, <2>2 DEF ChatTypes, TypeOK, Held
    <3>2. turns'[u] = turns[u] /\ u # 0
      BY <1>1, <2>2
    <3> QED
      BY <2>2, <3>1, <3>2
  <2> QED
    BY <2>1, <2>2
<1>6. win' \in Window
  BY DEF ChatTypes, TypeOK
<1>7. TypeOK'
  BY <1>1, <1>3, <1>5, <1>6 DEF TypeOK, Rows, Held, Streaming
<1> QED
  BY <1>3, <1>4, <1>7 DEF ChatTypes

LEMMA LatestBubbles ==
  ASSUME TypeOK, NEW t \in Numbers, NEW last \in Latest(t)
  PROVE  last \in Stored \union Flushed(t) /\ last \in Bubble
<1>1. stored \in Seq(Rows) /\ turns[t].flushed \in Seq(Rows)
  <2>1. turns[t] \in Turn
    BY DEF TypeOK, Numbers
  <2> QED
    BY <2>1 DEF TypeOK, Turn, Rows
<1>2. Range(stored \o turns[t].flushed) = Range(stored) \union Range(turns[t].flushed)
  BY <1>1, RangeConcatenation
<1>3. PICK r \in Range(stored \o turns[t].flushed) : last = r.bubble
  BY DEF Latest
<1>4. Range(stored) \subseteq Rows /\ Range(turns[t].flushed) \subseteq Rows
  BY <1>1, RangeOfSeq
<1>5. r.bubble \in Bubble
  BY <1>2, <1>3, <1>4 DEF Rows
<1> QED
  BY <1>2, <1>3, <1>5 DEF Stored, Flushed

LEMMA CommitStores ==
  ASSUME TypeOK, NEW t \in Numbers, stored' = stored \o turns[t].flushed
  PROVE  stored' \in Seq(Rows) /\ Stored' = Stored \union Flushed(t)
<1>1. stored \in Seq(Rows) /\ turns[t].flushed \in Seq(Rows)
  <2>1. turns[t] \in Turn
    BY DEF TypeOK, Numbers
  <2> QED
    BY <2>1 DEF TypeOK, Turn, Rows
<1>2. Range(stored') = Range(stored) \union Range(turns[t].flushed)
  BY <1>1, RangeConcatenation
<1>3. stored' \in Seq(Rows)
  BY <1>1
<1> QED
  BY <1>2, <1>3 DEF Stored, Flushed

LEMMA ServeKeepsTypes ==
  ASSUME ChatTypes, NEW t \in Numbers, Serve(t)
  PROVE  ChatTypes'
<1> USE DEF PCs, Held, Streaming
<1>1. /\ TypeOK /\ stored \in Seq(Rows) /\ bus \in Seq(Events) /\ stream \in Seq(Events)
      /\ turns[t].pc \in Held <=> holder = t
      /\ turns[t].pc \notin {"posted", "refused"} => turns[t].at \in 1 .. MaxTurns
      /\ t \in Begun <=> turns[t].pc \notin {"posted", "refused"}
      /\ holder \in {0} \union Numbers /\ 0 \notin Numbers
  BY DEF ChatTypes, TypeOK, Rows, Begun, Numbers
<1>2. ASSUME NEW e \in Events PROVE <<e>> \in Seq(Events)
  OBVIOUS
<1>3. ASSUME NEW e \in Events, NEW f \in Events PROVE <<e, f>> \in Seq(Events)
  OBVIOUS
<1>4. CASE Load(t)
  <2>1. clock' \in 1 .. MaxTurns /\ clock' = clock + 1
    <3>1. t \in Numbers \ Begun /\ clock' = clock + 1 /\ clock \in Nat
      BY <1>1, <1>4 DEF Load, TypeOK
    <3>2. clock + 1 <= MaxTurns
      BY <3>1, ClockRuns
    <3> QED
      BY <3>1, <3>2
  <2>2. Becomes(t, "loaded", clock', turns[t].flushed, turns[t].answer)
    BY <1>1, <1>4, <2>1, LoadDoes
  <2> QED
    BY <1>1, <1>4, <2>1, <2>2, ServeTypes DEF Becomes, Load
<1>5. CASE Refuse(t)
  <2>1. Becomes(t, "refused", turns[t].at, turns[t].flushed, turns[t].answer)
    BY <1>1, <1>5, Moved DEF Refuse, Move
  <2>2. stream' \in Seq(Events)
    BY <1>1, <1>2, <1>5, EventsTyped, PublishedTyped DEF Refuse
  <2>3. turns[t].pc = "posted" /\ UNCHANGED <<stored, holder, clock, win, bus>>
    BY <1>5 DEF Refuse, Move
  <2> QED
    BY <1>1, <2>1, <2>2, <2>3, ServeTypes DEF Becomes
<1>6. CASE AppendQuestion(t)
  <2> DEFINE to == IF turns[t].by = "system" THEN "ending" ELSE "asked"
  <2>1. Becomes(t, to, turns[t].at, <<Row(t, QuestionOf(t))>>, turns[t].answer)
    BY <1>1, <1>6, AppendDoes DEF AppendQuestion
  <2>2. bus' \in Seq(Events) /\ stream' \in Seq(Events)
    BY <1>1, <1>2, <1>6, EventsTyped, PublishedTyped, BubblesTyped DEF AppendQuestion
  <2>3. to \in Held /\ to \in PCs \ {"posted", "refused"}
    OBVIOUS
  <2> HIDE DEF to
  <2>4. turns[t].pc = "loaded" /\ holder = 0 /\ holder' = t /\ UNCHANGED <<stored, clock, win>>
    BY <1>6 DEF AppendQuestion, RowIsFree
  <2> QED
    BY <1>1, <2>1, <2>2, <2>3, <2>4, ServeTypes DEF Becomes
<1>7. CASE NoRun(t)
  <2>1. Becomes(t, "ending", turns[t].at, turns[t].flushed, turns[t].answer)
    BY <1>1, <1>7, Moved DEF NoRun, Move
  <2>2. bus' \in Seq(Events) /\ stream' \in Seq(Events)
    BY <1>1, <1>2, <1>3, <1>7, EventsTyped, PublishedTyped DEF NoRun
  <2>3. turns[t].pc = "asked" /\ UNCHANGED <<stored, holder, clock, win>>
    BY <1>7 DEF NoRun, Move
  <2> QED
    BY <1>1, <2>1, <2>2, <2>3, ServeTypes DEF Becomes
<1>8. CASE Token(t)
  <2>1. Becomes(t, "streaming", turns[t].at, turns[t].flushed, turns[t].answer)
    BY <1>1, <1>8, Moved DEF Token, Move
  <2>2. stream' \in Seq(Events)
    BY <1>1, <1>2, <1>8, EventsTyped, PublishedTyped DEF Token
  <2>3. turns[t].pc = "asked" /\ UNCHANGED <<stored, holder, clock, win, bus>>
    BY <1>8 DEF Token, Move
  <2> QED
    BY <1>1, <2>1, <2>2, <2>3, ServeTypes DEF Becomes
<1>9. CASE Persist(t)
  <2>1. PICK text \in Texts, flushed \in Seq(Rows) :
          Becomes(t, "persisted", turns[t].at, flushed, text)
    BY <1>1, <1>9, PersistDoes DEF Persist
  <2>2. /\ turns[t].pc \in {"asked", "streaming"}
        /\ UNCHANGED <<stored, holder, clock, win, bus, stream>>
    BY <1>9 DEF Persist
  <2> QED
    BY <1>1, <2>1, <2>2, ServeTypes DEF Becomes
<1>10. CASE Announce(t)
  <2>1. Becomes(t, "announced", turns[t].at, turns[t].flushed, turns[t].answer)
    BY <1>1, <1>10, Moved DEF Announce, Move
  <2>2. PICK last \in Latest(t) :
          LET events == IF last.role = "assistant" THEN <<Event("message", last)>> ELSE <<>>
          IN Published(events) /\ Sent(t, events)
    BY <1>10 DEF Announce
  <2>3. Event("message", last) \in Events
    BY <1>1, LatestBubbles, EventsTyped
  <2>4. bus' \in Seq(Events) /\ stream' \in Seq(Events)
    <3> DEFINE events == IF last.role = "assistant" THEN <<Event("message", last)>> ELSE <<>>
    <3>1. events \in Seq(Events)
      BY <2>3
    <3>2. Published(events) /\ Sent(t, events)
      BY <2>2
    <3> HIDE DEF events
    <3> QED
      BY <3>1, <3>2, PublishedTyped
  <2>5. turns[t].pc = "persisted" /\ UNCHANGED <<stored, holder, clock, win>>
    BY <1>10 DEF Announce, Move
  <2> QED
    BY <1>1, <2>1, <2>2, <2>3, <2>4, <2>5, ServeTypes DEF Becomes
<1>11. CASE Finish(t)
  <2>1. Becomes(t, "ending", turns[t].at, turns[t].flushed, turns[t].answer)
    BY <1>1, <1>11, Moved DEF Finish, Move
  <2>2. turns[t].answer \in AllTexts \union {NoText}
    <3>1. turns[t] \in Turn
      BY <1>1 DEF TypeOK, Numbers
    <3> QED
      BY <3>1 DEF Turn, AllTexts
  <2>3. Done(t, turns[t].answer) \in Events /\ Last(t, "end") \in Events
    BY <1>1, <2>2, EventsTyped
  <2>4. bus' \in Seq(Events) /\ stream' \in Seq(Events)
    BY <1>1, <1>2, <1>3, <1>11, <2>3, PublishedTyped DEF Finish
  <2>5. turns[t].pc = "announced" /\ UNCHANGED <<stored, holder, clock, win>>
    BY <1>11 DEF Finish, Move
  <2> QED
    BY <1>1, <2>1, <2>2, <2>3, <2>4, <2>5, ServeTypes DEF Becomes
<1>12. CASE Cut(t)
  <2>1. Becomes(t, "cut", turns[t].at, turns[t].flushed, turns[t].answer)
    BY <1>1, <1>12, Moved DEF Cut
  <2>2. stream' \in Seq(Events)
    BY <1>1, <1>2, <1>12, EventsTyped, PublishedTyped DEF Cut
  <2>3. turns[t].pc \in Streaming /\ UNCHANGED <<stored, holder, clock, win, bus>>
    BY <1>12 DEF Cut
  <2> QED
    BY <1>1, <2>1, <2>2, <2>3, ServeTypes DEF Becomes
<1>13. CASE Commit(t)
  <2>1. stored' \in Seq(Rows)
    BY <1>1, <1>13, CommitStores DEF Commit
  <2>2. PICK pc \in {"done", "half"} :
          /\ turns[t].pc \in Held
          /\ Becomes(t, pc, turns[t].at, turns[t].flushed, turns[t].answer)
    BY <1>1, <1>13, Moved DEF Commit, Move
  <2> QED
    BY <1>1, <1>13, <2>1, <2>2, ServeTypes DEF Becomes, Commit
<1>14. CASE Die(t)
  <2>1. Becomes(t, "dead", turns[t].at, turns[t].flushed, turns[t].answer)
    BY <1>1, <1>14, Moved DEF Die
  <2>2. stream' \in Seq(Events)
    BY <1>1, <1>2, <1>14, EventsTyped, PublishedTyped DEF Die
  <2> QED
    BY <1>1, <1>14, <2>1, <2>2, ServeTypes DEF Becomes, Die
<1> QED
  BY <1>4, <1>5, <1>6, <1>7, <1>8, <1>9, <1>10, <1>11, <1>12, <1>13, <1>14 DEF Serve
-----------------------------------------------------------------------------
(* Requests that come, and what windows miss *)

\* A request that has just come.
Fresh(rec) ==
  /\ rec \in Turn /\ rec.pc = "posted" /\ rec.flushed = <<>> /\ rec.answer = NoText
  /\ ~ rec.heard

LEMMA NewTurnFresh ==
  ASSUME NEW by \in Users \union {"system"}, NEW text \in AllTexts
  PROVE  /\ Fresh(NewTurn(by, FALSE, text)) /\ Fresh(NewTurn(by, TRUE, text))
         /\ ~ NewTurn(by, FALSE, text).own
         /\ NewTurn(by, TRUE, text).by = by /\ NewTurn(by, TRUE, text).text = text
<1> DEFINE other == [by |-> by, own |-> FALSE, text |-> text, at |-> 0, pc |-> "posted",
                     flushed |-> <<>>, answer |-> NoText, heard |-> FALSE]
           mine == [by |-> by, own |-> TRUE, text |-> text, at |-> 0, pc |-> "posted",
                    flushed |-> <<>>, answer |-> NoText, heard |-> FALSE]
<1>1. <<>> \in Seq([at : 1 .. MaxTurns, bubble : Bubble])
  BY EmptySeq
<1>2. other \in Turn /\ mine \in Turn
  BY <1>1 DEF Turn
<1>3. Fresh(other) /\ ~ other.own
  BY <1>2 DEF Fresh
<1>4. Fresh(mine) /\ mine.by = by /\ mine.text = text
  BY <1>2 DEF Fresh
<1>5. NewTurn(by, FALSE, text) = other
  BY DEF NewTurn
<1>6. NewTurn(by, TRUE, text) = mine
  BY DEF NewTurn
<1> HIDE DEF other, mine
<1> QED
  BY <1>3, <1>4, <1>5, <1>6

LEMMA AddedDoes ==
  ASSUME ChatTypes, NEW rec, Fresh(rec), turns' = Append(turns, rec)
  PROVE  /\ turns' \in Seq(Turn) /\ Len(turns') = Len(turns) + 1
         /\ Len(turns) \in Nat /\ Len(turns) + 1 \notin Numbers
         /\ Numbers' = Numbers \union {Len(turns) + 1}
         /\ \A u \in Numbers : turns'[u] = turns[u]
         /\ turns'[Len(turns) + 1] = rec
         /\ Begun' = Begun
<1>1. turns \in Seq(Turn) /\ rec \in Turn
  BY DEF ChatTypes, TypeOK, Fresh
<1>2. /\ turns' \in Seq(Turn) /\ Len(turns') = Len(turns) + 1 /\ Len(turns) \in Nat
      /\ \A u \in 1 .. Len(turns) : turns'[u] = turns[u]
      /\ turns'[Len(turns) + 1] = rec
  BY <1>1, AppendProperties
<1>3. Numbers' = Numbers \union {Len(turns) + 1} /\ Len(turns) + 1 \notin Numbers
  BY <1>2 DEF Numbers
<1>4. Begun' = Begun
  BY <1>2, <1>3 DEF Begun, Fresh, Numbers
<1> QED
  BY <1>2, <1>3, <1>4 DEF Numbers

LEMMA AddedTypes ==
  ASSUME ChatTypes, NEW rec, Fresh(rec), turns' = Append(turns, rec),
         Len(turns) < MaxTurns, win' \in Window,
         UNCHANGED <<stored, holder, clock, bus, stream>>
  PROVE  ChatTypes'
<1>1. /\ turns' \in Seq(Turn) /\ Len(turns') <= MaxTurns
      /\ Numbers' = Numbers \union {Len(turns) + 1} /\ Len(turns) + 1 \notin Numbers
      /\ \A u \in Numbers : turns'[u] = turns[u]
      /\ turns'[Len(turns) + 1].pc = "posted"
      /\ Begun' = Begun
  <2>1. Len(turns) \in Nat /\ MaxTurns \in Nat
    BY DEF ChatTypes, TypeOK
  <2>2. rec.pc = "posted"
    BY DEF Fresh
  <2>3. /\ turns' \in Seq(Turn) /\ Len(turns') = Len(turns) + 1
        /\ Numbers' = Numbers \union {Len(turns) + 1} /\ Len(turns) + 1 \notin Numbers
        /\ \A u \in Numbers : turns'[u] = turns[u]
        /\ turns'[Len(turns) + 1] = rec
        /\ Begun' = Begun
    BY AddedDoes
  <2>4. Len(turns') <= MaxTurns
    BY <2>1, <2>3
  <2> QED
    BY <2>2, <2>3, <2>4
<1>2. ASSUME NEW u \in Numbers'
      PROVE  turns'[u].pc \in Streaming \union {"ending", "cut"} <=> holder' = u
  <2>1. CASE u \in Numbers
    BY <1>1, <2>1 DEF ChatTypes, TypeOK
  <2>2. CASE u = Len(turns) + 1
    <3>1. holder # u
      BY <1>1, <2>2 DEF ChatTypes, TypeOK
    <3> QED
      BY <1>1, <2>2, <3>1 DEF Streaming
  <2> QED
    BY <1>1, <2>1, <2>2
<1>3. \A u \in Begun' : turns'[u].at \in 1 .. MaxTurns
  BY <1>1 DEF ChatTypes, Begun
<1>4. TypeOK'
  BY <1>1, <1>2 DEF ChatTypes, TypeOK
<1>5. clock' <= Cardinality(Begun')
  BY <1>1 DEF ChatTypes
<1> QED
  BY <1>3, <1>4, <1>5 DEF ChatTypes

LEMMA UnheardDoes ==
  ASSUME TypeOK, NEW missed, Unheard(missed)
  PROVE  /\ turns' \in Seq(Turn) /\ Len(turns') = Len(turns) /\ Numbers' = Numbers
         /\ \A u \in Numbers :
              /\ turns'[u].by = turns[u].by /\ turns'[u].own = turns[u].own
              /\ turns'[u].text = turns[u].text /\ turns'[u].at = turns[u].at
              /\ turns'[u].pc = turns[u].pc /\ turns'[u].flushed = turns[u].flushed
              /\ turns'[u].answer = turns[u].answer
              /\ turns'[u].heard => turns[u].heard /\ u \notin missed
<1>1. turns \in Seq(Turn) /\ Len(turns) \in Nat
  BY DEF TypeOK
<1>2. ASSUME NEW r \in Turn, NEW d, d = [r EXCEPT !.heard = FALSE]
      PROVE  /\ d \in Turn /\ ~ d.heard
             /\ d.by = r.by /\ d.own = r.own /\ d.text = r.text /\ d.at = r.at
             /\ d.pc = r.pc /\ d.flushed = r.flushed /\ d.answer = r.answer
  BY <1>2 DEF Turn
<1>3. ASSUME NEW u \in 1 .. Len(turns)
      PROVE  /\ turns[u] \in Turn
             /\ u \in missed => turns'[u] = [turns[u] EXCEPT !.heard = FALSE]
             /\ u \notin missed => turns'[u] = turns[u]
  BY <1>1 DEF Unheard, Numbers
<1>4. \A u \in 1 .. Len(turns) : turns'[u] \in Turn
  BY <1>2, <1>3
<1>5. DOMAIN turns' = 1 .. Len(turns) /\ turns' = [u \in 1 .. Len(turns) |-> turns'[u]]
  BY DEF Unheard, Numbers
<1>6. turns' \in [1 .. Len(turns) -> Turn]
  BY <1>4, <1>5
<1>7. turns' \in Seq(Turn)
  BY <1>1, <1>6, SeqDef
<1>8. Len(turns') = Len(turns)
  BY <1>1, <1>5, <1>7, LenProperties
<1>9. ASSUME NEW u \in 1 .. Len(turns)
      PROVE  /\ turns'[u].by = turns[u].by /\ turns'[u].own = turns[u].own
             /\ turns'[u].text = turns[u].text /\ turns'[u].at = turns[u].at
             /\ turns'[u].pc = turns[u].pc /\ turns'[u].flushed = turns[u].flushed
             /\ turns'[u].answer = turns[u].answer
             /\ turns'[u].heard => turns[u].heard /\ u \notin missed
  <2>1. CASE u \in missed
    <3>1. turns[u] \in Turn /\ turns'[u] = [turns[u] EXCEPT !.heard = FALSE]
      BY <1>3, <2>1
    <3> QED
      BY <1>2, <2>1, <3>1
  <2>2. CASE u \notin missed
    BY <1>3, <2>2
  <2> QED
    BY <2>1, <2>2
<1> QED
  BY <1>7, <1>8, <1>9 DEF Numbers

\* A step of the window.
LEMMA WindowTypes ==
  ASSUME ChatTypes, win' \in Window, UNCHANGED <<stored, holder, clock>>,
         bus' \in Seq(Events), stream' \in Seq(Events),
         turns' = turns \/ \E missed : Unheard(missed)
  PROVE  ChatTypes'
<1>1. /\ turns' \in Seq(Turn) /\ Len(turns') = Len(turns) /\ Numbers' = Numbers
      /\ \A u \in Numbers : turns'[u].at = turns[u].at /\ turns'[u].pc = turns[u].pc
  BY UnheardDoes DEF ChatTypes, TypeOK, Numbers
<1>2. Begun' = Begun
  BY <1>1 DEF Begun
<1>3. TypeOK'
  BY <1>1 DEF ChatTypes, TypeOK
<1>4. \A u \in Begun' : turns'[u].at \in 1 .. MaxTurns
  BY <1>1, <1>2 DEF ChatTypes, Begun
<1> QED
  BY <1>2, <1>3, <1>4 DEF ChatTypes
-----------------------------------------------------------------------------
(* Bubbles stay what they are, and windows show no others *)

Onward ==
  /\ Numbers \subseteq Numbers'
  /\ \A t \in Numbers :
       /\ turns'[t].by = turns[t].by /\ turns'[t].own = turns[t].own
       /\ turns'[t].text = turns[t].text
       /\ turns'[t].answer = turns[t].answer \/ turns[t].answer = NoText
       /\ turns[t].pc \in Broken => turns'[t].pc \in Broken

LEMMA BubblesStay ==
  ASSUME Onward
  PROVE  /\ \A t \in Numbers : /\ QuestionOf(t)' = QuestionOf(t) /\ Asks(t)' = Asks(t)
                               /\ Kept(t) \subseteq Kept(t)'
                               /\ Bubbles(t) \subseteq Bubbles(t)'
         /\ AllKept \subseteq AllKept' /\ AllBubbles \subseteq AllBubbles'
<1>1. ASSUME NEW t \in Numbers
      PROVE  /\ QuestionOf(t)' = QuestionOf(t)
             /\ Kept(t) \subseteq Kept(t)'
             /\ Bubbles(t) \subseteq Bubbles(t)'
  <2>1. /\ turns'[t].by = turns[t].by /\ turns'[t].text = turns[t].text
        /\ turns'[t].answer = turns[t].answer \/ turns[t].answer = NoText
        /\ turns[t].pc \in Broken => turns'[t].pc \in Broken
    BY DEF Onward
  <2>2. QuestionOf(t)' = QuestionOf(t)
    BY <2>1 DEF QuestionOf
  <2>3. Kept(t) \subseteq Kept(t)'
    BY <2>1, <2>2 DEF Kept
  <2> QED
    BY <2>1, <2>2, <2>3 DEF Bubbles, AnswerOf
<1>2. ASSUME NEW t \in Numbers PROVE Asks(t)' = Asks(t)
  BY <1>1 DEF Asks
<1>3. Numbers \subseteq Numbers'
  BY DEF Onward
<1>4. AllKept \subseteq AllKept'
  BY <1>1, <1>3 DEF AllKept
<1>5. AllBubbles \subseteq AllBubbles'
  BY <1>1, <1>3 DEF AllBubbles
<1> QED
  BY <1>1, <1>2, <1>4, <1>5

LEMMA AllTyped ==
  ASSUME TypeOK
  PROVE  /\ AllBubbles \subseteq Bubble /\ AllKept \subseteq AllBubbles
         /\ \A t \in Numbers : Bubbles(t) \subseteq AllBubbles
BY BubblesTyped DEF AllBubbles, AllKept

LEMMA ShowingDoes ==
  ASSUME NEW w \in Window, NEW b \in Bubble
  PROVE  /\ Showing(w, b) \in Window
         /\ Showing(w, b).shown = Upsert(w.shown, b)
         /\ Showing(w, b).cache = Upsert(w.shown, b)
         /\ Showing(w, b).user = w.user /\ Showing(w, b).open = w.open
         /\ Showing(w, b).live = w.live /\ Showing(w, b).sending = w.sending
         /\ Showing(w, b).draft = w.draft /\ Showing(w, b).settled = w.settled
<1>1. Upsert(w.shown, b) \in SUBSET Bubble
  BY DEF Upsert, Window
<1> DEFINE shown == Upsert(w.shown, b)
           new == [w EXCEPT !.shown = shown, !.cache = shown]
<1>2. Showing(w, b) = new
  BY DEF Showing
<1> HIDE DEF shown
<1>3. /\ new \in Window /\ new.shown = shown /\ new.cache = shown
      /\ new.user = w.user /\ new.open = w.open /\ new.live = w.live
      /\ new.sending = w.sending /\ new.draft = w.draft /\ new.settled = w.settled
  BY <1>1 DEF Window, shown
<1> HIDE DEF new
<1> QED
  BY <1>2, <1>3 DEF shown

LEMMA SettledDoes ==
  ASSUME NEW w \in Window, NEW e
  PROVE  /\ Settled(w, e) \in Window
         /\ Settled(w, e).shown = w.shown /\ Settled(w, e).cache = w.cache
         /\ Settled(w, e).user = w.user /\ Settled(w, e).open = w.open
         /\ Settled(w, e).live = w.live /\ Settled(w, e).sending = w.sending
         /\ w.draft = NoText => Settled(w, e).draft = NoText
         /\ w.settled => Settled(w, e).settled
         /\ e.kind = "done" => Settled(w, e).settled /\ Settled(w, e).draft = NoText
<1> DEFINE new == [w EXCEPT !.settled = TRUE, !.draft = NoText]
<1>1. Settled(w, e) = new \/ (Settled(w, e) = w /\ e.kind # "done")
  BY DEF Settled
<1>2. /\ new \in Window /\ new.shown = w.shown /\ new.cache = w.cache
      /\ new.user = w.user /\ new.open = w.open /\ new.live = w.live
      /\ new.sending = w.sending /\ new.draft = NoText /\ new.settled
  BY DEF Window
<1> HIDE DEF new
<1> QED
  BY <1>1, <1>2

Shows(b) == win'.shown = Upsert(win.shown, b) /\ win'.cache = win'.shown
ShowsNothing == win'.shown = win.shown /\ win'.cache = win.cache

LEMMA ReadDoes ==
  ASSUME ChatInv, Read
  PROVE  /\ win.sending \in Numbers /\ turns[win.sending].own
         /\ win' \in Window
         /\ win'.user = win.user /\ win'.open = win.open /\ win'.live = win.live
         /\ ShowsNothing \/ \E b \in AllBubbles : Shows(b)
         /\ IF Head(stream).kind \in {"end", "broken"} THEN win'.sending = 0
                                                       ELSE win'.sending = win.sending
         /\ Head(stream).kind = "done" /\ turns[win.sending].by = "customer"
              /\ turns[win.sending].answer # NoText => Shows(AnswerOf(win.sending))
         /\ win.settled \/ Head(stream).kind = "done" => win'.settled
         /\ Head(stream).kind # "token" /\ win.draft = NoText => win'.draft = NoText
<1> DEFINE e == Head(stream)
           s == win.sending
<1>1. stream # <<>> /\ win' = Handled(win, e)
  BY DEF Read
<1>2. stream \in Seq(Events) /\ win \in Window /\ TypeOK
  BY DEF ChatInv, ChatTypes, TypeOK
<1>3. e \in Events /\ e = stream[1] /\ 1 \in 1 .. Len(stream) /\ Len(stream) \in Nat
  BY <1>1, <1>2, Consumed
<1>4. s \in Numbers /\ turns[s].own /\ turns[s].by = win.user
  BY <1>1 DEF ChatInv, StreamInv, WindowInv
<1>5. /\ Coming(e, s)
      /\ e.kind \in {"end", "broken"} => Len(stream) = 1
      /\ e.kind = "done" /\ turns[s].answer = NoText => win.draft = NoText
      /\ e.kind = "end" => turns[s].pc \in Broken \/ win.settled \/ DoneComes
  <2>1. /\ Coming(stream[1], s)
        /\ stream[1].kind \in {"end", "broken"} => 1 = Len(stream)
        /\ stream[1].kind = "done" /\ turns[s].answer = NoText => Undrafted
        /\ stream[1].kind = "end" => turns[s].pc \in Broken \/ win.settled \/ DoneComes
    BY <1>3 DEF ChatInv, StreamInv
  <2> QED
    BY <1>3, <2>1 DEF Undrafted
<1>6. e.kind = "end" => turns[s].pc \in Broken \/ win.settled
  BY <1>3, <1>5 DEF DoneComes
<1>7. e.kind \in {"message", "done", "token", "end", "broken"}
  BY <1>3 DEF Events
<1>8. AllBubbles \subseteq Bubble /\ Bubbles(s) \subseteq AllBubbles
  BY <1>2, <1>4, AllTyped
<1> DEFINE Result ==
      /\ win' \in Window
      /\ win'.user = win.user /\ win'.open = win.open /\ win'.live = win.live
      /\ ShowsNothing \/ \E b \in AllBubbles : Shows(b)
      /\ IF e.kind \in {"end", "broken"} THEN win'.sending = 0 ELSE win'.sending = s
      /\ e.kind = "done" /\ turns[s].by = "customer" /\ turns[s].answer # NoText =>
           Shows(AnswerOf(s))
      /\ win.settled \/ e.kind = "done" => win'.settled
      /\ e.kind # "token" /\ win.draft = NoText => win'.draft = NoText
<1> SUFFICES Result
  BY <1>4
<1> HIDE DEF e, s
<1>9. CASE e.kind = "token"
  <2> DEFINE new == [win EXCEPT !.draft = Streamed]
  <2>1. win' = new
    BY <1>1, <1>9 DEF Handled
  <2>2. /\ new \in Window /\ new.shown = win.shown /\ new.cache = win.cache
        /\ new.user = win.user /\ new.open = win.open /\ new.live = win.live
        /\ new.sending = win.sending /\ new.settled = win.settled
    BY <1>2 DEF Window
  <2> HIDE DEF new
  <2> QED
    BY <1>9, <2>1, <2>2 DEF ShowsNothing, s
<1>10. CASE e.kind = "message"
  <2>1. win' = Settled(Showing(win, e.bubble), e)
    BY <1>1, <1>10 DEF Handled
  <2>2. e.bubble \in AllBubbles /\ e.bubble \in Bubble
    BY <1>5, <1>8, <1>10 DEF Coming
  <2> DEFINE w == Showing(win, e.bubble)
  <2>3. /\ w \in Window /\ w.shown = Upsert(win.shown, e.bubble) /\ w.cache = w.shown
        /\ w.user = win.user /\ w.open = win.open /\ w.live = win.live
        /\ w.sending = win.sending /\ w.settled = win.settled /\ w.draft = win.draft
    BY <1>2, <2>2, ShowingDoes
  <2> HIDE DEF w
  <2>4. /\ win' \in Window /\ win'.shown = w.shown /\ win'.cache = w.cache
        /\ win'.user = w.user /\ win'.open = w.open /\ win'.live = w.live
        /\ win'.sending = w.sending
        /\ w.settled => win'.settled
        /\ w.draft = NoText => win'.draft = NoText
    <3>1. win' = Settled(w, e)
      BY <2>1 DEF w
    <3> QED
      BY <2>3, <3>1, SettledDoes
  <2>5. Shows(e.bubble)
    BY <2>3, <2>4 DEF Shows
  <2> QED
    BY <1>10, <2>2, <2>3, <2>4, <2>5 DEF s
<1>11. CASE e.kind = "done"
  <2>1. e.bubble = AnswerOf(s)
    BY <1>5, <1>11 DEF Coming
  <2>2. AnswerOf(s).text = turns[s].answer
    BY DEF AnswerOf, Said
  <2>3. turns[s].answer = NoText => FromDone(win, e).text = NoText
    BY <1>5, <1>11, <2>1, <2>2 DEF FromDone, AnswerOf, Said
  <2>4. turns[s].answer # NoText => FromDone(win, e) = AnswerOf(s)
    BY <2>1, <2>2 DEF FromDone, AnswerOf, Said
  <2>5. CASE win.user = "customer" /\ turns[s].answer # NoText
    <3>1. win' = Settled(Showing(win, AnswerOf(s)), e)
      BY <1>1, <1>11, <2>2, <2>4, <2>5 DEF Handled
    <3>2. AnswerOf(s) \in AllBubbles /\ AnswerOf(s) \in Bubble
      BY <1>8, <2>5 DEF Bubbles
    <3> DEFINE w == Showing(win, AnswerOf(s))
    <3>3. /\ w \in Window /\ w.shown = Upsert(win.shown, AnswerOf(s)) /\ w.cache = w.shown
          /\ w.user = win.user /\ w.open = win.open /\ w.live = win.live
          /\ w.sending = win.sending
      BY <1>2, <3>2, ShowingDoes
    <3> HIDE DEF w
    <3>4. /\ win' \in Window /\ win'.shown = w.shown /\ win'.cache = w.cache
          /\ win'.user = w.user /\ win'.open = w.open /\ win'.live = w.live
          /\ win'.sending = w.sending /\ win'.settled /\ win'.draft = NoText
      BY <1>11, <3>1, <3>3, SettledDoes DEF w
    <3>5. Shows(AnswerOf(s))
      BY <3>3, <3>4 DEF Shows
    <3> QED
      BY <1>11, <3>2, <3>3, <3>4, <3>5 DEF s
  <2>6. CASE ~ (win.user = "customer" /\ turns[s].answer # NoText)
    <3>1. win' = Settled(win, e)
      BY <1>1, <1>11, <2>3, <2>6 DEF Handled
    <3>2. /\ win' \in Window /\ ShowsNothing
          /\ win'.user = win.user /\ win'.open = win.open /\ win'.live = win.live
          /\ win'.sending = win.sending /\ win'.settled /\ win'.draft = NoText
      BY <1>2, <1>11, <3>1, SettledDoes DEF ShowsNothing
    <3>3. ~ (turns[s].by = "customer" /\ turns[s].answer # NoText)
      BY <1>4, <2>6 DEF s
    <3> QED
      BY <1>11, <3>2, <3>3 DEF s
  <2> QED
    BY <2>5, <2>6
<1>12. CASE e.kind \in {"end", "broken"} /\ win' = [win EXCEPT !.sending = 0]
  <2> DEFINE new == [win EXCEPT !.sending = 0]
  <2>1. /\ new \in Window /\ new.shown = win.shown /\ new.cache = win.cache
        /\ new.user = win.user /\ new.open = win.open /\ new.live = win.live
        /\ new.sending = 0 /\ new.settled = win.settled /\ new.draft = win.draft
    BY <1>2 DEF Window
  <2>2. win' = new
    BY <1>12
  <2> HIDE DEF new
  <2> QED
    BY <1>12, <2>1, <2>2 DEF ShowsNothing
<1>13. CASE e.kind = "end" /\ ~ win.settled /\ win.draft # NoText
  <2> DEFINE b == Said(s, "draft", "assistant", win.draft)
             w == Showing(win, b)
             undrafted == [w EXCEPT !.draft = NoText]
             new == [undrafted EXCEPT !.sending = 0]
  <2>1. win' = new
    BY <1>1, <1>13 DEF Handled, s
  <2>2. win.draft = Streamed
    BY <1>2, <1>13 DEF Window
  <2>3. b \in AllBubbles /\ b \in Bubble
    BY <1>6, <1>8, <1>13, <2>2 DEF Bubbles
  <2> HIDE DEF b
  <2>4. /\ w \in Window /\ w.shown = Upsert(win.shown, b) /\ w.cache = w.shown
        /\ w.user = win.user /\ w.open = win.open /\ w.live = win.live
        /\ w.settled = win.settled
    BY <1>2, <2>3, ShowingDoes
  <2> HIDE DEF w
  <2>5. /\ undrafted \in Window /\ undrafted.shown = w.shown
        /\ undrafted.cache = w.cache /\ undrafted.draft = NoText
        /\ undrafted.user = w.user /\ undrafted.open = w.open
        /\ undrafted.live = w.live /\ undrafted.settled = w.settled
    BY <2>4 DEF Window
  <2> HIDE DEF undrafted
  <2>6. /\ new \in Window /\ new.shown = w.shown /\ new.cache = w.cache
        /\ new.user = w.user /\ new.open = w.open /\ new.live = w.live
        /\ new.sending = 0 /\ new.draft = NoText /\ new.settled = w.settled
    BY <2>5 DEF Window
  <2> HIDE DEF new
  <2>7. Shows(b)
    BY <2>1, <2>4, <2>6 DEF Shows
  <2> QED
    BY <1>13, <2>1, <2>3, <2>4, <2>6, <2>7
<1>14. e.kind \in {"end", "broken"} =>
         \/ win' = [win EXCEPT !.sending = 0]
         \/ e.kind = "end" /\ ~ win.settled /\ win.draft # NoText
  BY <1>1 DEF Handled
<1> QED
  BY <1>7, <1>9, <1>10, <1>11, <1>12, <1>13, <1>14
-----------------------------------------------------------------------------
(* What each step of the window does *)

LEMMA HearDoes ==
  ASSUME ChatInv, Hear
  PROVE  /\ bus # <<>> /\ bus' = Tail(bus) /\ win' \in Window
         /\ win'.user = win.user /\ win'.open = win.open /\ win'.live = win.live
         /\ win'.sending = win.sending
         /\ win'.draft = win.draft /\ win'.settled = win.settled
         /\ \/ ShowsNothing /\ win.sending # 0 /\ Unheard({Head(bus).bubble.id[1]})
            \/ ShowsNothing /\ turns' = turns /\ Head(bus).bubble.text = NoText
            \/ /\ Head(bus).bubble \in AllBubbles /\ Shows(Head(bus).bubble)
               /\ turns' = turns
<1> DEFINE e == Head(bus)
<1>1. bus # <<>> /\ bus' = Tail(bus)
  BY DEF Hear
<1>2. bus \in Seq(Events) /\ win \in Window /\ TypeOK
  BY DEF ChatInv, ChatTypes, TypeOK
<1>3. e = bus[1] /\ 1 \in 1 .. Len(bus)
  BY <1>1, <1>2, Consumed
<1>4. e.bubble \in AllBubbles \/ e.bubble.text = NoText
  BY <1>3 DEF ChatInv, BusInv
<1>5. AllBubbles \subseteq Bubble
  BY <1>2, AllTyped
<1>6. CASE win.sending # 0
  <2>1. Unheard({e.bubble.id[1]}) /\ win' = win
    BY <1>6 DEF Hear
  <2> QED
    BY <1>1, <1>2, <1>6, <2>1 DEF ShowsNothing
<1>7. CASE win.sending = 0 /\ e.bubble.text = NoText
  <2>1. turns' = turns /\ win' = win
    BY <1>7 DEF Hear, Tells
  <2> QED
    BY <1>1, <1>2, <1>7, <2>1 DEF ShowsNothing
<1>8. CASE win.sending = 0 /\ e.bubble.text # NoText
  <2> HIDE DEF e
  <2>1. turns' = turns /\ win' = Showing(win, e.bubble)
    BY <1>8 DEF Hear, Tells, e
  <2>2. e.bubble \in AllBubbles /\ e.bubble \in Bubble
    BY <1>4, <1>5, <1>8
  <2>3. /\ win' \in Window /\ Shows(e.bubble)
        /\ win'.user = win.user /\ win'.open = win.open /\ win'.live = win.live
        /\ win'.sending = win.sending
        /\ win'.draft = win.draft /\ win'.settled = win.settled
    BY <1>2, <2>1, <2>2, ShowingDoes DEF Shows
  <2> QED
    BY <1>1, <2>1, <2>2, <2>3 DEF e
<1> QED
  BY <1>6, <1>7, <1>8

LEMMA SendDoes ==
  ASSUME ChatTypes, Send
  PROVE  /\ win.open /\ win.sending = 0 /\ Len(turns) < MaxTurns
         /\ win' \in Window
         /\ win'.user = win.user /\ win'.open = win.open /\ win'.live = win.live
         /\ win'.sending = Len(turns) + 1 /\ win'.draft = NoText
         /\ \E text \in Texts : \E rec :
              /\ turns' = Append(turns, rec) /\ Fresh(rec)
              /\ rec.own /\ rec.by = win.user /\ rec.text = text
              /\ Shows(Said(Len(turns) + 1, "local", win.user, text))
<1> DEFINE t == Len(turns) + 1
<1>1. win \in Window /\ Len(turns) \in Nat /\ TypeOK
  BY DEF ChatTypes, TypeOK
<1>2. win.open /\ win.sending = 0 /\ Len(turns) < MaxTurns
  BY DEF Send
<1>3. t \in 1 .. MaxTurns
  BY <1>1, <1>2
<1> HIDE DEF t
<1>4. PICK text \in Texts :
        /\ turns' = Append(turns, NewTurn(win.user, TRUE, text))
        /\ win' = Showing([win EXCEPT !.sending = t, !.draft = NoText, !.settled = FALSE],
                          Said(t, "local", win.user, text))
  BY DEF Send, t
<1> DEFINE fresh == [win EXCEPT !.sending = t]
           w == [fresh EXCEPT !.draft = NoText, !.settled = FALSE]
           b == Said(t, "local", win.user, text)
<1>5. /\ fresh \in Window /\ fresh.shown = win.shown /\ fresh.user = win.user
       /\ fresh.open = win.open /\ fresh.live = win.live /\ fresh.sending = t
  BY <1>1, <1>3 DEF Window
<1>6. win' = Showing(w, b)
  BY <1>4
<1> HIDE DEF fresh
<1>7. /\ w \in Window /\ w.shown = win.shown /\ w.user = win.user /\ w.open = win.open
      /\ w.live = win.live /\ w.sending = t /\ w.draft = NoText
  BY <1>5 DEF Window
<1>8. win.user \in Users
  BY <1>1 DEF Window
<1>9. b \in Bubble
  BY <1>3, <1>8 DEF Said, Bubble, AllTexts
<1> HIDE DEF w, b
<1>10. /\ win' \in Window /\ Shows(b)
      /\ win'.user = win.user /\ win'.open = win.open /\ win'.live = win.live
      /\ win'.sending = t /\ win'.draft = NoText
  BY <1>7, <1>9, <1>6, ShowingDoes DEF Shows
<1>11. /\ Fresh(NewTurn(win.user, TRUE, text)) /\ NewTurn(win.user, TRUE, text).own
       /\ NewTurn(win.user, TRUE, text).by = win.user
       /\ NewTurn(win.user, TRUE, text).text = text
  <2>1. NewTurn(win.user, TRUE, text).own
    BY DEF NewTurn
  <2>2. text \in AllTexts
    BY DEF AllTexts
  <2> QED
    BY <1>8, <2>1, <2>2, NewTurnFresh
<1> QED
  BY <1>2, <1>4, <1>10, <1>11 DEF t, b

LEMMA OpenDoes ==
  ASSUME TypeOK, Stored \subseteq Bubble, Open
  PROVE  /\ win' \in Window /\ win'.open /\ ~ win.open
         /\ win'.user = win.user /\ win'.live = win.live /\ win'.sending = win.sending
         /\ win'.draft = win.draft /\ win'.settled = win.settled
         /\ win'.cache = win.cache
         /\ win'.shown = IF win.cache = {} THEN Stored ELSE Merged(win.cache, Stored)
<1> DEFINE shown == IF win.cache = {} THEN Stored ELSE Merged(win.cache, Stored)
           new == [win EXCEPT !.open = TRUE, !.shown = shown]
<1>1. win \in Window
  BY DEF TypeOK
<1>2. shown \in SUBSET Bubble
  BY <1>1 DEF Merged, Window
<1>3. win' = new /\ ~ win.open
  BY DEF Open
<1> HIDE DEF shown
<1>4. /\ new \in Window /\ new.open /\ new.shown = shown /\ new.cache = win.cache
      /\ new.user = win.user /\ new.live = win.live /\ new.sending = win.sending
      /\ new.draft = win.draft /\ new.settled = win.settled
  BY <1>1, <1>2 DEF Window
<1> HIDE DEF new
<1> QED
  BY <1>3, <1>4 DEF shown

LEMMA StoredTyped ==
  ASSUME TypeOK
  PROVE  Stored \subseteq Bubble
<1>1. stored \in Seq(Rows)
  BY DEF TypeOK, Rows
<1>2. Range(stored) \subseteq Rows
  BY <1>1, RangeOfSeq
<1> QED
  BY <1>2 DEF Stored, Rows

LEMMA UnsubscribeDoes ==
  ASSUME TypeOK, Unsubscribe
  PROVE  /\ win' \in Window /\ ~ win'.live /\ bus' = <<>> /\ Unheard(Numbers)
         /\ win'.user = win.user /\ win'.sending = win.sending
         /\ win'.draft = win.draft /\ win'.settled = win.settled
         /\ win'.cache = win.cache
         /\ \/ win'.shown = win.shown /\ win'.open = win.open
            \/ win'.shown = {} /\ ~ win'.open /\ win.sending = 0
<1> DEFINE lost == [win EXCEPT !.live = FALSE]
           left == [win EXCEPT !.live = FALSE, !.open = FALSE, !.shown = {}]
<1>1. win \in Window
  BY DEF TypeOK
<1>2. /\ lost \in Window /\ ~ lost.live /\ lost.shown = win.shown
      /\ lost.open = win.open /\ lost.user = win.user /\ lost.sending = win.sending
      /\ lost.draft = win.draft /\ lost.settled = win.settled /\ lost.cache = win.cache
  BY <1>1 DEF Window
<1>3. /\ left \in Window /\ ~ left.live /\ left.shown = {}
      /\ ~ left.open /\ left.user = win.user /\ left.sending = win.sending
      /\ left.draft = win.draft /\ left.settled = win.settled /\ left.cache = win.cache
  BY <1>1 DEF Window
<1>4. /\ bus' = <<>> /\ Unheard(Numbers)
      /\ win' = lost \/ (win' = left /\ win.sending = 0)
  BY DEF Unsubscribe
<1> HIDE DEF lost, left
<1> QED
  BY <1>2, <1>3, <1>4

LEMMA SubscribeDoes ==
  ASSUME TypeOK, Subscribe
  PROVE  /\ win' \in Window /\ win'.live /\ win.open /\ win'.open
         /\ win'.user = win.user /\ win'.sending = win.sending
         /\ win'.draft = win.draft /\ win'.settled = win.settled
         /\ win'.cache = win.cache /\ win'.shown = win.shown
<1> DEFINE new == [win EXCEPT !.live = TRUE]
<1>1. win \in Window
  BY DEF TypeOK
<1>2. /\ new \in Window /\ new.live /\ new.shown = win.shown
      /\ new.open = win.open /\ new.user = win.user /\ new.sending = win.sending
      /\ new.draft = win.draft /\ new.settled = win.settled /\ new.cache = win.cache
  BY <1>1 DEF Window
<1>3. win' = new /\ win.open
  BY DEF Subscribe
<1> HIDE DEF new
<1> QED
  BY <1>2, <1>3

LEMMA StepKeepsTypes ==
  ASSUME ChatInv, [Next]_vars
  PROVE  ChatTypes'
<1>1. ChatTypes /\ TypeOK /\ win \in Window /\ bus \in Seq(Events) /\ stream \in Seq(Events)
  BY DEF ChatInv, ChatTypes, TypeOK
<1>2. ASSUME NEW t \in Numbers, Serve(t) PROVE ChatTypes'
  BY <1>1, <1>2, ServeKeepsTypes
<1>3. CASE Elsewhere
  <2>1. PICK rec : Fresh(rec) /\ turns' = Append(turns, rec)
    <3>1. /\ \A user \in Users, text \in Texts : Fresh(NewTurn(user, FALSE, text))
          /\ Fresh(NewTurn("system", FALSE, Notice))
      BY NewTurnFresh DEF AllTexts
    <3> QED
      BY <1>3, <3>1 DEF Elsewhere
  <2>2. Len(turns) < MaxTurns /\ UNCHANGED <<stored, holder, clock, win, bus, stream>>
    BY <1>3 DEF Elsewhere
  <2> QED
    BY <1>1, <2>1, <2>2, AddedTypes
<1>4. CASE Open
  BY <1>1, <1>4, OpenDoes, StoredTyped, WindowTypes DEF Open
<1>5. CASE Subscribe
  BY <1>1, <1>5, SubscribeDoes, WindowTypes DEF Subscribe
<1>6. CASE Unsubscribe
  <2>1. bus' \in Seq(Events)
    BY <1>1, <1>6, UnsubscribeDoes, EmptySeq
  <2> QED
    BY <1>1, <1>6, <2>1, UnsubscribeDoes, WindowTypes DEF Unsubscribe
<1>7. CASE Send
  <2>1. PICK rec : Fresh(rec) /\ turns' = Append(turns, rec)
    BY <1>1, <1>7, SendDoes
  <2>2. Len(turns) < MaxTurns /\ win' \in Window
    BY <1>1, <1>7, SendDoes
  <2>3. UNCHANGED <<stored, holder, clock, bus, stream>>
    BY <1>7 DEF Send
  <2> QED
    BY <1>1, <2>1, <2>2, <2>3, AddedTypes
<1>8. CASE Hear
  <2>1. bus' \in Seq(Events)
    <3>1. bus # <<>> /\ bus' = Tail(bus)
      BY <1>8 DEF Hear
    <3> QED
      BY <1>1, <3>1, Consumed
  <2>2. win' \in Window /\ (turns' = turns \/ \E missed : Unheard(missed))
    BY <1>8, HearDoes
  <2>3. UNCHANGED <<stored, holder, clock, stream>>
    BY <1>8 DEF Hear
  <2> QED
    BY <1>1, <2>1, <2>2, <2>3, WindowTypes
<1>9. CASE Read
  <2>1. stream' \in Seq(Events)
    BY <1>1, <1>9, Consumed DEF Read
  <2>2. win' \in Window
    BY <1>9, ReadDoes
  <2> QED
    BY <1>1, <1>9, <2>1, <2>2, WindowTypes DEF Read
<1>10. CASE UNCHANGED vars
  BY <1>1, <1>10 DEF vars, ChatTypes, TypeOK, Begun, Numbers
<1> QED
  BY <1>2, <1>3, <1>4, <1>5, <1>6, <1>7, <1>8, <1>9, <1>10 DEF Next
-----------------------------------------------------------------------------
(* Requests *)

\* The steps that neither store nor answer.
Path(from, to) ==
  \/ from = "posted" /\ to \in {"loaded", "refused"}
  \/ from = "asked" /\ to \in {"ending", "streaming"}
  \/ from = "persisted" /\ to = "announced"
  \/ from = "announced" /\ to = "ending"
  \/ from \in Streaming /\ to = "cut"
  \/ from \in Held \union {"loaded"} /\ to = "dead"

Plain(t) ==
  /\ Path(turns[t].pc, turns'[t].pc)
  /\ turns'[t].flushed = turns[t].flushed /\ turns'[t].answer = turns[t].answer
  /\ stored' = stored /\ turns'[t].heard = turns[t].heard

LEMMA ServeDoes ==
  ASSUME ChatTypes, NEW t \in Numbers, Serve(t)
  PROVE  /\ Rewrites(t) /\ win' = win
         /\ AppendQuestion(t) \/ Persist(t) \/ Commit(t) \/ Plain(t)
<1> USE DEF PCs, Held, Streaming
<1>1. /\ TypeOK
      /\ turns[t].pc \notin {"posted", "refused"} => turns[t].at \in 1 .. MaxTurns
  BY DEF ChatTypes, TypeOK, Begun
<1>2. CASE Load(t)
  <2>1. clock' \in 0 .. MaxTurns
    <3>1. t \in Numbers \ Begun /\ clock' = clock + 1 /\ clock \in Nat
      BY <1>1, <1>2 DEF Load, TypeOK, Begun
    <3>2. clock + 1 <= MaxTurns
      BY <3>1, ClockRuns
    <3> QED
      BY <3>1, <3>2
  <2>2. /\ Becomes(t, "loaded", clock', turns[t].flushed, turns[t].answer)
        /\ turns'[t].heard = turns[t].heard
    BY <1>1, <1>2, <2>1, LoadDoes
  <2>3. turns[t].pc = "posted" /\ UNCHANGED <<stored, win>>
    BY <1>2 DEF Load
  <2> QED
    BY <2>2, <2>3 DEF Plain, Path, Becomes
<1>3. CASE AppendQuestion(t)
  <2>1. Rewrites(t)
    BY <1>1, <1>3, AppendDoes DEF AppendQuestion, Becomes
  <2> QED
    BY <1>3, <2>1 DEF AppendQuestion
<1>4. CASE Persist(t)
  <2>1. Rewrites(t)
    BY <1>1, <1>4, PersistDoes DEF Persist, Becomes
  <2> QED
    BY <1>4, <2>1 DEF Persist
<1>5. CASE Commit(t)
  <2>1. Rewrites(t)
    BY <1>1, <1>5, Moved DEF Commit, Move, Becomes
  <2> QED
    BY <1>5, <2>1 DEF Commit
<1>6. ASSUME NEW from, NEW to \in PCs, turns[t].pc = from, Path(from, to),
             turns' = [turns EXCEPT ![t].pc = to], stored' = stored, win' = win
      PROVE  Rewrites(t) /\ win' = win /\ Plain(t)
  <2>1. /\ Becomes(t, to, turns[t].at, turns[t].flushed, turns[t].answer)
        /\ turns'[t].heard = turns[t].heard
    BY <1>1, <1>6, Moved
  <2> QED
    BY <1>6, <2>1 DEF Plain, Becomes
<1>7. CASE Refuse(t)
  <2>1. Path("posted", "refused")
    BY DEF Path
  <2> QED
    BY <1>6, <1>7, <2>1 DEF Refuse, Move
<1>8. CASE NoRun(t)
  <2>1. Path("asked", "ending")
    BY DEF Path
  <2> QED
    BY <1>6, <1>8, <2>1 DEF NoRun, Move
<1>9. CASE Token(t)
  <2>1. Path("asked", "streaming")
    BY DEF Path
  <2> QED
    BY <1>6, <1>9, <2>1 DEF Token, Move
<1>10. CASE Announce(t)
  <2>1. Path("persisted", "announced")
    BY DEF Path
  <2> QED
    BY <1>6, <1>10, <2>1 DEF Announce, Move
<1>11. CASE Finish(t)
  <2>1. Path("announced", "ending")
    BY DEF Path
  <2> QED
    BY <1>6, <1>11, <2>1 DEF Finish, Move
<1>12. CASE Cut(t)
  <2>1. Path(turns[t].pc, "cut")
    BY <1>12 DEF Path, Cut
  <2> QED
    BY <1>6, <1>12, <2>1 DEF Cut
<1>13. CASE Die(t)
  <2>1. Path(turns[t].pc, "dead")
    BY <1>13 DEF Path, Die
  <2> QED
    BY <1>6, <1>13, <2>1 DEF Die
<1> QED
  BY <1>2, <1>3, <1>4, <1>5, <1>7, <1>8, <1>9, <1>10, <1>11, <1>12, <1>13 DEF Serve

LEMMA RequestStays ==
  ASSUME NEW u \in Numbers, Request(u), Stored \subseteq Stored',
         turns'[u].by = turns[u].by, turns'[u].text = turns[u].text,
         turns'[u].pc = turns[u].pc, turns'[u].flushed = turns[u].flushed,
         turns'[u].answer = turns[u].answer
  PROVE  Request(u)'
<1>1. /\ Flushed(u)' = Flushed(u) /\ Kept(u)' = Kept(u) /\ Answers(u)' = Answers(u)
      /\ QuestionOf(u)' = QuestionOf(u)
  BY DEF Flushed, Kept, Answers, QuestionOf
<1> QED
  BY <1>1 DEF Request, Fingerprints

\* What a step of request t does to it, and that the messages of the ticket stay.
LEMMA ServeRequest ==
  ASSUME ChatTypes, RequestInv, NEW t \in Numbers, Serve(t)
  PROVE  /\ Request(t)' /\ Stored \subseteq Stored'
         /\ Stored' \subseteq Stored \union Flushed(t)
         /\ turns'[t].answer = turns[t].answer \/ turns[t].answer = NoText
         /\ turns[t].pc \in Broken => turns'[t].pc \in Broken
<1> USE DEF Held, Streaming, Broken
<1>1. /\ TypeOK /\ Request(t)
      /\ turns[t].pc \notin {"posted", "refused"} => turns[t].at \in 1 .. MaxTurns
  BY DEF ChatTypes, Begun, RequestInv
<1>2. Rewrites(t)
  BY ServeDoes
<1>3. QuestionOf(t)' = QuestionOf(t) /\ QuestionOf(t) \in Kept(t)'
  BY <1>2 DEF QuestionOf, Kept, Rewrites
<1>4. CASE AppendQuestion(t)
  <2>1. /\ turns'[t].flushed = <<Row(t, QuestionOf(t))>>
        /\ turns'[t].answer = turns[t].answer
        /\ turns'[t].pc \in {"asked", "ending"} /\ turns[t].pc = "loaded"
        /\ stored' = stored
    BY <1>1, <1>4, AppendDoes DEF AppendQuestion, Becomes
  <2>2. Range(<<Row(t, QuestionOf(t))>>) = {Row(t, QuestionOf(t))}
    BY DEF Range
  <2>3. Flushed(t)' = {QuestionOf(t)}
    BY <2>1, <2>2 DEF Flushed, Row
  <2>4. turns'[t].answer = NoText
    BY <1>1, <2>1 DEF Request
  <2>5. Stored' = Stored
    BY <2>1 DEF Stored
  <2> QED
    BY <1>3, <2>1, <2>3, <2>4, <2>5 DEF Request
<1>5. CASE Persist(t)
  <2>1. PICK text \in Texts, last \in Latest(t), flushed \in Seq(Rows) :
          /\ Becomes(t, "persisted", turns[t].at, flushed, text)
          /\ Row(t, Said(t, "answer", "assistant", text)) \in Rows
          /\ \/ /\ ShouldPersist(last, text)
                /\ flushed = Append(turns[t].flushed,
                                    Row(t, Said(t, "answer", "assistant", text)))
             \/ ~ ShouldPersist(last, text) /\ flushed = turns[t].flushed
    BY <1>1, <1>5, PersistDoes DEF Persist
  <2> DEFINE answer == Said(t, "answer", "assistant", text)
  <2>2. /\ turns[t].pc \in {"asked", "streaming"} /\ turns[t].answer = NoText
        /\ turns'[t].pc = "persisted" /\ turns'[t].answer = text
        /\ turns'[t].flushed = flushed
        /\ stored' = stored /\ text # NoText
    BY <1>1, <1>5, <2>1 DEF Persist, Request, Becomes, AllTexts
  <2>3. Stored' = Stored
    BY <2>2 DEF Stored
  <2>4. QuestionOf(t) \in Flushed(t) /\ Flushed(t) \subseteq {QuestionOf(t)}
    BY <1>1, <2>2 DEF Request, Kept
  <2>5. Kept(t)' = {QuestionOf(t), answer} /\ Answers(t)' = <<"agent", text>>
    BY <1>3, <2>2 DEF Kept, Answers
  <2>6. Fingerprint(answer) = <<"agent", text>>
    BY DEF Fingerprint, Family, Agents, Said
  <2>7. CASE ShouldPersist(last, text)
    <3>1. turns[t].flushed \in Seq(Rows)
      <4>1. turns[t] \in Turn
        BY <1>1 DEF TypeOK, Numbers
      <4> QED
        BY <4>1 DEF Turn, Rows
    <3>2. flushed = turns[t].flushed \o <<Row(t, answer)>> /\ <<Row(t, answer)>> \in Seq(Rows)
      <4>1. flushed = Append(turns[t].flushed, Row(t, answer)) /\ Row(t, answer) \in Rows
        BY <2>1, <2>7
      <4> HIDE DEF answer
      <4> QED
        BY <3>1, <4>1
    <3>3. Range(<<Row(t, answer)>>) = {Row(t, answer)}
      BY DEF Range
    <3>4. Range(flushed) = Range(turns[t].flushed) \union {Row(t, answer)}
      <4> DEFINE one == <<Row(t, answer)>>
      <4>1. one \in Seq(Rows) /\ flushed = turns[t].flushed \o one
            /\ Range(one) = {Row(t, answer)}
        BY <3>2, <3>3
      <4> HIDE DEF one, answer
      <4>2. Range(turns[t].flushed \o one) = Range(turns[t].flushed) \union Range(one)
        BY <3>1, <4>1, RangeConcatenation
      <4> QED
        BY <4>1, <4>2
    <3>5. Row(t, answer).bubble = answer
      BY DEF Row
    <3> HIDE DEF answer
    <3>6. Flushed(t)' = Flushed(t) \union {answer}
      BY <2>2, <3>4, <3>5 DEF Flushed
    <3> QED
      BY <1>3, <2>2, <2>3, <2>4, <2>5, <2>6, <3>6 DEF Request, Fingerprints
  <2>8. CASE ~ ShouldPersist(last, text)
    <3>1. Flushed(t)' = Flushed(t)
      BY <2>1, <2>2, <2>8 DEF Flushed
    <3>2. last \in Stored \union Flushed(t) /\ last.role \in Agents /\ last.text = text
      BY <1>1, <2>8, LatestBubbles DEF ShouldPersist
    <3>3. Fingerprint(last) = <<"agent", text>>
      BY <3>2 DEF Fingerprint, Family
    <3>4. <<"agent", text>> \in Fingerprints((Stored \union Flushed(t))')
      BY <2>3, <3>1, <3>2, <3>3 DEF Fingerprints
    <3> HIDE DEF answer
    <3> QED
      BY <1>3, <2>2, <2>3, <2>4, <2>5, <3>1, <3>4 DEF Request, Fingerprints
  <2> QED
    BY <2>7, <2>8
<1>6. CASE Commit(t)
  <2>1. /\ Stored' = Stored \union Flushed(t)
        /\ turns[t].pc \in {"ending", "cut"} /\ turns'[t].pc \in {"done", "half"}
        /\ turns'[t].flushed = turns[t].flushed /\ turns'[t].answer = turns[t].answer
        /\ turns[t].pc = "cut" => turns'[t].pc = "half"
    BY <1>1, <1>6, CommitStores, Moved DEF Commit, Move, Becomes, PCs
  <2>2. Flushed(t)' = Flushed(t) /\ Kept(t)' = Kept(t) /\ Answers(t)' = Answers(t)
    BY <1>3, <2>1 DEF Flushed, Kept, Answers
  <2> QED
    BY <1>1, <1>3, <2>1, <2>2 DEF Request, Fingerprints
<1>7. CASE Plain(t)
  <2>1. Stored' = Stored
    BY <1>7 DEF Stored, Plain
  <2>2. Flushed(t)' = Flushed(t) /\ Kept(t)' = Kept(t) /\ Answers(t)' = Answers(t)
    BY <1>3, <1>7 DEF Flushed, Kept, Answers, Plain
  <2> QED
    BY <1>1, <1>3, <1>7, <2>1, <2>2 DEF Request, Plain, Path
<1> QED
  BY <1>4, <1>5, <1>6, <1>7, ServeDoes

\* The steps of windows change only what they have heard.
StepKinds ==
  \/ \E t \in Numbers : Serve(t)
  \/ stored' = stored /\ \E rec : Fresh(rec) /\ turns' = Append(turns, rec)
  \/ stored' = stored /\ (turns' = turns \/ \E missed : Unheard(missed))

LEMMA StepsKnown ==
  ASSUME ChatTypes, [Next]_vars
  PROVE  StepKinds
<1>1. CASE Elsewhere
  <2>1. /\ \A user \in Users, text \in Texts : Fresh(NewTurn(user, FALSE, text))
        /\ Fresh(NewTurn("system", FALSE, Notice))
    BY NewTurnFresh DEF AllTexts
  <2>2. PICK rec : Fresh(rec) /\ turns' = Append(turns, rec)
    BY <1>1, <2>1 DEF Elsewhere
  <2> QED
    BY <1>1, <2>2 DEF Elsewhere, StepKinds
<1>2. CASE Send
  <2>1. PICK rec : Fresh(rec) /\ turns' = Append(turns, rec)
    BY <1>2, SendDoes
  <2> QED
    BY <1>2, <2>1 DEF Send, StepKinds
<1>3. CASE Hear
  <2>1. turns' = turns \/ \E missed : Unheard(missed)
    BY <1>3 DEF Hear
  <2> QED
    BY <1>3, <2>1 DEF Hear, StepKinds
<1>4. CASE Unsubscribe
  BY <1>4 DEF Unsubscribe, StepKinds
<1>5. CASE Open \/ Subscribe \/ Read \/ UNCHANGED vars
  BY <1>5 DEF Open, Subscribe, Read, vars, StepKinds
<1>6. CASE \E t \in Numbers : Serve(t)
  BY <1>6 DEF StepKinds
<1> QED
  BY <1>1, <1>2, <1>3, <1>4, <1>5, <1>6 DEF Next

LEMMA RequestStep ==
  ASSUME ChatTypes, RequestInv, StepKinds
  PROVE  Onward /\ Stored \subseteq Stored' /\ RequestInv'
<1>1. TypeOK
  BY DEF ChatTypes
<1>2. ASSUME NEW t \in Numbers, Serve(t)
      PROVE  Onward /\ Stored \subseteq Stored' /\ RequestInv'
  <2>1. /\ Numbers' = Numbers /\ Rewrites(t)
        /\ \A u \in Numbers \ {t} : turns'[u] = turns[u]
    BY <1>2, ServeDoes DEF Rewrites, Numbers
  <2>2. /\ Request(t)' /\ Stored \subseteq Stored'
        /\ Stored' \subseteq Stored \union Flushed(t)
        /\ turns'[t].answer = turns[t].answer \/ turns[t].answer = NoText
        /\ turns[t].pc \in Broken => turns'[t].pc \in Broken
    BY <1>2, ServeRequest
  <2>3. Onward
    <3> SUFFICES ASSUME NEW u \in Numbers
                 PROVE  /\ turns'[u].by = turns[u].by /\ turns'[u].own = turns[u].own
                        /\ turns'[u].text = turns[u].text
                        /\ turns'[u].answer = turns[u].answer \/ turns[u].answer = NoText
                        /\ turns[u].pc \in Broken => turns'[u].pc \in Broken
      BY <2>1 DEF Onward
    <3>1. CASE u = t
      BY <2>1, <2>2, <3>1 DEF Rewrites
    <3>2. CASE u # t
      BY <2>1, <3>2
    <3> QED
      BY <3>1, <3>2
  <2>4. \A u \in Numbers' : Request(u)'
    <3> TAKE u \in Numbers'
    <3>1. CASE u = t
      BY <2>2, <3>1
    <3>2. CASE u # t
      <4>1. u \in Numbers /\ Request(u) /\ turns'[u] = turns[u]
        BY <2>1, <3>2 DEF RequestInv
      <4> QED
        BY <2>2, <4>1, RequestStays
    <3> QED
      BY <3>1, <3>2
  <2>5. Stored' \subseteq AllKept'
    <3>1. Stored \subseteq AllKept /\ Flushed(t) \subseteq Kept(t)
      BY DEF RequestInv, Request
    <3>2. Kept(t) \subseteq AllKept
      BY DEF AllKept
    <3> QED
      BY <2>2, <2>3, <3>1, <3>2, BubblesStay
  <2> QED
    BY <2>2, <2>3, <2>4, <2>5 DEF RequestInv
<1>3. ASSUME Numbers \subseteq Numbers', stored' = stored,
             \A u \in Numbers :
               /\ turns'[u].by = turns[u].by /\ turns'[u].own = turns[u].own
               /\ turns'[u].text = turns[u].text
               /\ turns'[u].pc = turns[u].pc /\ turns'[u].flushed = turns[u].flushed
               /\ turns'[u].answer = turns[u].answer
      PROVE  /\ Onward /\ Stored' = Stored /\ Stored' \subseteq AllKept'
             /\ \A u \in Numbers : Request(u)'
  <2>1. Onward
    BY <1>3 DEF Onward
  <2>2. Stored' = Stored
    BY <1>3 DEF Stored
  <2>3. Stored' \subseteq AllKept'
    BY <2>1, <2>2, BubblesStay DEF RequestInv
  <2>4. ASSUME NEW u \in Numbers PROVE Request(u)'
    <3>1. Request(u) /\ Stored \subseteq Stored'
      BY <2>2 DEF RequestInv
    <3> QED
      BY <1>3, <3>1, RequestStays
  <2> QED
    BY <2>1, <2>2, <2>3, <2>4
<1>4. ASSUME NEW rec, Fresh(rec), turns' = Append(turns, rec), stored' = stored
      PROVE  Onward /\ Stored \subseteq Stored' /\ RequestInv'
  <2>1. PICK n : n = Len(turns) + 1
    OBVIOUS
  <2>2. /\ Numbers' = Numbers \union {n} /\ turns'[n] = rec
        /\ \A u \in Numbers : turns'[u] = turns[u]
    BY <1>4, <2>1, AddedDoes
  <2>3. /\ Onward /\ Stored' = Stored /\ Stored' \subseteq AllKept'
        /\ \A u \in Numbers : Request(u)'
    BY <1>3, <1>4, <2>2
  <2>4. Request(n)'
    <3>1. turns'[n].pc = "posted" /\ turns'[n].answer = NoText /\ turns'[n].flushed = <<>>
      BY <1>4, <2>2 DEF Fresh
    <3>2. Range(<<>>) = {}
      BY DEF Range
    <3>3. Flushed(n)' = {}
      BY <3>1, <3>2 DEF Flushed
    <3> QED
      BY <3>1, <3>3 DEF Request, Held, Streaming
  <2> QED
    BY <2>2, <2>3, <2>4 DEF RequestInv
<1>5. ASSUME stored' = stored, turns' = turns \/ \E missed : Unheard(missed)
      PROVE  Onward /\ Stored \subseteq Stored' /\ RequestInv'
  <2>1. /\ Numbers' = Numbers
        /\ \A u \in Numbers :
             /\ turns'[u].by = turns[u].by /\ turns'[u].own = turns[u].own
             /\ turns'[u].text = turns[u].text
             /\ turns'[u].pc = turns[u].pc /\ turns'[u].flushed = turns[u].flushed
             /\ turns'[u].answer = turns[u].answer
    <3>1. CASE turns' = turns
      BY <3>1 DEF Numbers
    <3>2. CASE \E missed : Unheard(missed)
      BY <1>1, <3>2, UnheardDoes
    <3> QED
      BY <1>5, <3>1, <3>2
  <2> QED
    BY <1>3, <1>5, <2>1 DEF RequestInv
<1> QED
  BY <1>2, <1>4, <1>5 DEF StepKinds
-----------------------------------------------------------------------------
(* The window forgets nothing *)

LEMMA ShowsKeeps ==
  ASSUME WindowInv, Onward, Stored \subseteq Stored', NEW b \in AllBubbles', Shows(b)
  PROVE  /\ win'.shown \subseteq AllBubbles' /\ win'.cache \subseteq AllBubbles'
         /\ Alike(win.shown)' /\ Alike(win.cache)'
         /\ Fingerprints(win.shown) \union {Fingerprint(b)} \subseteq Fingerprints(win'.shown)
         /\ win.open => Fingerprints(win.cache) \subseteq Fingerprints(win'.cache)
<1>1. win.shown \subseteq AllBubbles' /\ Alike(win.shown)
  BY BubblesStay DEF WindowInv
<1>2. \A c \in win.shown : c.id = b.id => c = b
  BY <1>1, SameIdAfter
<1>3. /\ win'.shown \subseteq win.shown \union {b}
      /\ Fingerprints(win.shown) \union {Fingerprint(b)} \subseteq Fingerprints(win'.shown)
      /\ \A c, d \in win'.shown :
           Fingerprint(c) = Fingerprint(d) /\ c # d => c \in win.shown /\ d \in win.shown
  BY <1>2, Upserting DEF Shows
<1>4. win'.cache = win'.shown
  BY DEF Shows
<1>5. Alike(win.shown)'
  BY <1>1, <1>3 DEF Alike
<1>6. Alike(win.cache)'
  BY <1>4, <1>5 DEF Alike
<1>7. win.open => Fingerprints(win.cache) \subseteq Fingerprints(win'.cache)
  BY <1>3, <1>4 DEF WindowInv, Fingerprints
<1> QED
  BY <1>1, <1>3, <1>4, <1>5, <1>6, <1>7

\* What the window puts together when the page is opened.
LEMMA Merging ==
  ASSUME WindowInv, RequestInv, TypeOK
  PROVE  /\ win.cache \subseteq Merged(win.cache, Stored)
         /\ Merged(win.cache, Stored) \subseteq AllBubbles
         /\ Alike(Merged(win.cache, Stored))
<1> DEFINE merged == Merged(win.cache, Stored)
<1>1. win.cache \subseteq merged /\ merged \subseteq win.cache \union Stored
  BY DEF Merged
<1>2. merged \subseteq AllBubbles
  BY <1>1, AllTyped DEF WindowInv, RequestInv
<1>3. ASSUME NEW b \in merged, NEW c \in merged, Fingerprint(b) = Fingerprint(c), b # c
      PROVE  {b, c} \subseteq Stored
  <2>1. CASE b \in win.cache /\ c \in win.cache
    BY <1>3, <2>1 DEF WindowInv, Alike
  <2>2. CASE b \notin win.cache /\ c \notin win.cache
    BY <1>1, <2>2
  <2>3. \A d \in merged \ win.cache : Fingerprint(d) \notin Fingerprints(win.cache)
    BY DEF Merged
  <2> QED
    BY <1>3, <2>1, <2>2, <2>3 DEF Fingerprints
<1> QED
  BY <1>1, <1>2, <1>3 DEF Alike

LEMMA WindowKeeps ==
  ASSUME WindowInv, Onward, Stored \subseteq Stored', win'.user = win.user,
         win'.live \/ win'.sending # 0 => win'.open, win'.open => win.open,
         ShowsNothing \/ (win.open /\ \E b \in AllBubbles' : Shows(b)),
         \A t \in Numbers' \ Numbers : turns'[t].own =>
           turns'[t].by = win.user /\ Asks(t)' \in Fingerprints(win'.cache)
  PROVE  WindowInv'
<1>1. /\ win'.shown \subseteq AllBubbles' /\ win'.cache \subseteq AllBubbles'
      /\ Alike(win.shown)' /\ Alike(win.cache)'
      /\ Fingerprints(win.cache) \subseteq Fingerprints(win'.cache)
      /\ win'.open => win'.cache \subseteq win'.shown
  <2>1. CASE ShowsNothing
    <3>1. win'.shown = win.shown /\ win'.cache = win.cache
      BY <2>1 DEF ShowsNothing
    <3>2. win.shown \subseteq AllBubbles' /\ win.cache \subseteq AllBubbles'
      BY BubblesStay DEF WindowInv
    <3>3. Alike(win.shown)' /\ Alike(win.cache)'
      BY <3>1 DEF WindowInv, Alike
    <3> QED
      BY <3>1, <3>2, <3>3 DEF WindowInv
  <2>2. CASE win.open /\ \E b \in AllBubbles' : Shows(b)
    BY <2>2, ShowsKeeps DEF Shows
  <2> QED
    BY <2>1, <2>2
<1>2. ASSUME NEW t \in Numbers', turns'[t].own
      PROVE  turns'[t].by = win'.user /\ Asks(t)' \in Fingerprints(win'.cache)
  <2>1. CASE t \in Numbers
    BY <1>1, <1>2, <2>1, BubblesStay DEF Onward, WindowInv
  <2> QED
    BY <1>2, <2>1
<1> QED
  BY <1>1, <1>2 DEF WindowInv, Fingerprints

LEMMA ElsewhereAdds ==
  ASSUME Elsewhere
  PROVE  \E rec : Fresh(rec) /\ ~ rec.own /\ turns' = Append(turns, rec)
<1>1. \A user \in Users, text \in Texts :
        Fresh(NewTurn(user, FALSE, text)) /\ ~ NewTurn(user, FALSE, text).own
  BY NewTurnFresh DEF AllTexts
<1>2. Fresh(NewTurn("system", FALSE, Notice)) /\ ~ NewTurn("system", FALSE, Notice).own
  BY NewTurnFresh DEF AllTexts
<1> QED
  BY <1>1, <1>2 DEF Elsewhere

\* The request that a window makes, and the bubble it shows of it.
LEMMA SendAdds ==
  ASSUME ChatTypes, Send
  PROVE  \E n \in Nat \ {0} : \E b :
           /\ n \notin Numbers /\ Numbers' = Numbers \union {n} /\ win'.sending = n
           /\ \A u \in Numbers : turns'[u] = turns[u]
           /\ turns'[n].own /\ turns'[n].by = win.user /\ turns'[n].pc = "posted"
           /\ ~ turns'[n].heard
           /\ b \in AllBubbles' /\ Shows(b) /\ Fingerprint(b) = Asks(n)'
<1>1. PICK text, rec :
        /\ text \in Texts
        /\ turns' = Append(turns, rec) /\ Fresh(rec)
        /\ rec.own /\ rec.by = win.user /\ rec.text = text
        /\ Shows(Said(Len(turns) + 1, "local", win.user, text))
  BY SendDoes
<1>2. PICK n : n = Len(turns) + 1
  OBVIOUS
<1>3. /\ n \notin Numbers /\ Numbers' = Numbers \union {n} /\ turns'[n] = rec
      /\ \A u \in Numbers : turns'[u] = turns[u]
      /\ n \in Nat \ {0}
  <2>1. /\ n \notin Numbers /\ Numbers' = Numbers \union {n} /\ turns'[n] = rec
        /\ \A u \in Numbers : turns'[u] = turns[u]
    BY <1>1, <1>2, AddedDoes
  <2>2. Len(turns) \in Nat
    BY DEF ChatTypes, TypeOK
  <2> QED
    BY <1>2, <2>1, <2>2
<1>4. win'.sending = n
  BY <1>2, SendDoes
<1> DEFINE b == Said(n, "local", win.user, text)
<1>5. b \in Bubbles(n)' /\ Fingerprint(b) = Asks(n)'
  BY <1>1, <1>3 DEF Bubbles, Asks, QuestionOf, Said, Fingerprint
<1>6. b \in AllBubbles'
  BY <1>3, <1>5 DEF AllBubbles
<1>7. Shows(b)
  BY <1>1, <1>2
<1> HIDE DEF b
<1> QED
  BY <1>1, <1>3, <1>4, <1>5, <1>6, <1>7 DEF Fresh

LEMMA WindowStep ==
  ASSUME ChatInv, [Next]_vars, Onward, Stored \subseteq Stored', RequestInv', ChatTypes'
  PROVE  WindowInv'
<1>1. ChatTypes /\ TypeOK /\ RequestInv /\ WindowInv /\ AllBubbles \subseteq AllBubbles'
  BY BubblesStay DEF ChatInv, ChatTypes
<1>2. CASE UNCHANGED win /\ \A t \in Numbers' \ Numbers : ~ turns'[t].own
  BY <1>1, <1>2, WindowKeeps DEF ShowsNothing, WindowInv
<1>3. ASSUME NEW t \in Numbers, Serve(t) PROVE WindowInv'
  <2>1. win' = win /\ Numbers' = Numbers
    BY <1>1, <1>3, ServeDoes DEF Rewrites, Numbers
  <2> QED
    BY <1>2, <2>1
<1>4. CASE Elsewhere
  <2>1. PICK rec : Fresh(rec) /\ ~ rec.own /\ turns' = Append(turns, rec)
    BY <1>4, ElsewhereAdds
  <2>2. PICK n : n = Len(turns) + 1
    OBVIOUS
  <2>3. Numbers' = Numbers \union {n} /\ turns'[n] = rec
    BY <1>1, <2>1, <2>2, AddedDoes
  <2>4. UNCHANGED win
    BY <1>4 DEF Elsewhere
  <2> QED
    BY <1>2, <2>1, <2>3, <2>4
<1>5. CASE Open
  <2>1. /\ win'.open /\ win'.user = win.user /\ win'.cache = win.cache
        /\ win'.shown = IF win.cache = {} THEN Stored ELSE Merged(win.cache, Stored)
        /\ UNCHANGED <<stored, turns>>
    BY <1>1, <1>5, OpenDoes, StoredTyped DEF Open
  <2>2. Stored' = Stored /\ Numbers' = Numbers /\ \A t \in Numbers : Asks(t)' = Asks(t)
    BY <2>1, BubblesStay DEF Stored, Numbers
  <2>3. /\ win.cache \subseteq win'.shown /\ win'.shown \subseteq AllBubbles
        /\ Alike(win'.shown)
    <3>1. Stored \subseteq AllBubbles
      BY <1>1, AllTyped DEF RequestInv
    <3>2. Alike(Stored)
      BY DEF Alike
    <3> QED
      BY <1>1, <2>1, <3>1, <3>2, Merging
  <2>4. Alike(win.shown)' /\ Alike(win.cache)'
    BY <1>1, <2>1, <2>2, <2>3 DEF Alike, WindowInv
  <2> QED
    BY <1>1, <2>1, <2>2, <2>3, <2>4 DEF WindowInv, Fingerprints
<1>6. CASE Subscribe
  <2>1. /\ win'.open /\ win.open /\ win'.user = win.user
        /\ win'.cache = win.cache /\ win'.shown = win.shown
    BY <1>1, <1>6, SubscribeDoes
  <2>2. Numbers' = Numbers
    BY <1>6 DEF Subscribe, Numbers
  <2> QED
    BY <1>1, <2>1, <2>2, WindowKeeps DEF ShowsNothing
<1>7. CASE Unsubscribe
  <2>1. /\ ~ win'.live /\ win'.user = win.user /\ win'.sending = win.sending
        /\ win'.cache = win.cache
        /\ \/ win'.shown = win.shown /\ win'.open = win.open
           \/ win'.shown = {} /\ ~ win'.open /\ win.sending = 0
    BY <1>1, <1>7, UnsubscribeDoes
  <2>2. Numbers' = Numbers
    BY <1>1, <1>7, UnheardDoes DEF Unsubscribe
  <2>3. CASE win'.shown = win.shown /\ win'.open = win.open
    <3>1. win'.live \/ win'.sending # 0 => win'.open
      BY <1>1, <2>1, <2>3 DEF WindowInv
    <3> QED
      BY <1>1, <2>1, <2>2, <2>3, <3>1, WindowKeeps DEF ShowsNothing
  <2>4. CASE win'.shown = {} /\ ~ win'.open /\ win.sending = 0
    <3>1. Alike(win.shown)' /\ Alike(win.cache)'
      BY <1>1, <2>1, <2>4 DEF Alike, WindowInv
    <3>2. \A t \in Numbers : turns'[t].own = turns[t].own /\ turns'[t].by = turns[t].by
                             /\ Asks(t)' = Asks(t)
      BY BubblesStay DEF Onward
    <3> QED
      BY <1>1, <2>1, <2>2, <2>4, <3>1, <3>2 DEF WindowInv, Fingerprints
  <2> QED
    BY <2>1, <2>3, <2>4
<1>8. CASE Send
  <2>1. win.open /\ win'.user = win.user /\ win'.open = win.open
    BY <1>1, <1>8, SendDoes
  <2>2. PICK n, b :
          /\ n \in Nat \ {0}
          /\ Numbers' = Numbers \union {n} /\ turns'[n].by = win.user
          /\ b \in AllBubbles' /\ Shows(b) /\ Fingerprint(b) = Asks(n)'
    BY <1>1, <1>8, SendAdds
  <2>3. Asks(n)' \in Fingerprints(win'.cache)
    BY <1>1, <2>2, ShowsKeeps DEF Shows
  <2>4. \A t \in Numbers' \ Numbers : turns'[t].own =>
          turns'[t].by = win.user /\ Asks(t)' \in Fingerprints(win'.cache)
    BY <2>2, <2>3
  <2> QED
    BY <1>1, <2>1, <2>2, <2>4, WindowKeeps
<1>9. CASE Hear
  <2>1. /\ win'.user = win.user /\ win'.open = win.open /\ win'.live = win.live
        /\ win'.sending = win.sending
        /\ \/ ShowsNothing
           \/ Head(bus).bubble \in AllBubbles /\ Shows(Head(bus).bubble)
    BY <1>9, HearDoes
  <2>2. Numbers' = Numbers
    <3>1. turns' = turns \/ \E missed : Unheard(missed)
      BY <1>9, HearDoes
    <3> QED
      BY <1>1, <3>1, UnheardDoes DEF Numbers
  <2>3. win.open
    BY <1>9, HearDoes DEF ChatInv, BusInv, WindowInv
  <2> QED
    BY <1>1, <2>1, <2>2, <2>3, WindowKeeps
<1>10. CASE Read
  <2>1. /\ win.sending \in Numbers
        /\ win'.user = win.user /\ win'.open = win.open /\ win'.live = win.live
        /\ ShowsNothing \/ \E b \in AllBubbles : Shows(b)
    BY <1>10, ReadDoes
  <2>2. Numbers' = Numbers
    BY <1>10 DEF Read, Numbers
  <2>3. win.sending # 0 /\ win.open
    BY <1>1, <2>1 DEF Numbers, WindowInv
  <2> QED
    BY <1>1, <2>1, <2>2, <2>3, WindowKeeps
<1>11. CASE UNCHANGED vars
  BY <1>2, <1>11 DEF vars, Numbers
<1> QED
  BY <1>3, <1>4, <1>5, <1>6, <1>7, <1>8, <1>9, <1>10, <1>11 DEF Next
-----------------------------------------------------------------------------
(* The stream *)

LEMMA AnswersLook ==
  \A t : Fingerprint(AnswerOf(t)) = Answers(t)
BY DEF Fingerprint, AnswerOf, Answers, Family, Agents, Said

\* Nothing is sent, and the window's own requests at most reach their end.
LEMMA StreamStays ==
  ASSUME ChatTypes, StreamInv, Onward, stream' = stream,
         win'.sending = win.sending, win'.draft = win.draft, win'.settled = win.settled,
         Fingerprints(win.cache) \subseteq Fingerprints(win'.cache),
         \A t \in Numbers : turns[t].own =>
           /\ turns'[t].answer = turns[t].answer
           /\ \/ turns'[t].pc = turns[t].pc
              \/ turns[t].pc = "ending" /\ turns'[t].pc \in {"done", "dead"}
              \/ turns[t].pc = "cut" /\ turns'[t].pc \in {"half", "dead"},
         \A t \in Numbers' \ Numbers : ~ turns'[t].own
  PROVE  StreamInv'
<1> USE DEF Over, Broken
<1>1. /\ Numbers \subseteq Numbers'
      /\ \A t \in Numbers : turns'[t].own = turns[t].own /\ turns'[t].by = turns[t].by
      /\ AllBubbles \subseteq AllBubbles'
  BY BubblesStay DEF Onward
<1>2. DoneComes' <=> DoneComes
  BY DEF DoneComes
<1>3. Undrafted' <=> Undrafted
  BY DEF Undrafted
<1>4. ASSUME NEW i \in 1 .. Len(stream')
      PROVE  /\ Coming(stream[i], win.sending)'
             /\ stream'[i].kind \in {"end", "broken"} => i = Len(stream')
             /\ stream'[i].kind = "done" /\ turns'[win'.sending].answer = NoText => Undrafted'
             /\ stream'[i].kind = "end" =>
                  turns'[win'.sending].pc \in Broken \/ win'.settled \/ DoneComes'
  <2>1. /\ i \in 1 .. Len(stream) /\ win.sending \in Numbers /\ turns[win.sending].own
        /\ Coming(stream[i], win.sending)
        /\ stream[i].kind \in {"end", "broken"} => i = Len(stream)
        /\ stream[i].kind = "done" /\ turns[win.sending].answer = NoText => Undrafted
        /\ stream[i].kind = "end" =>
             turns[win.sending].pc \in Broken \/ win.settled \/ DoneComes
    <3>1. i \in 1 .. Len(stream)
      OBVIOUS
    <3>2. stream # <<>>
      BY <3>1
    <3> QED
      BY <3>1, <3>2 DEF StreamInv
  <2> PICK s : s = win.sending
    OBVIOUS
  <2>2. /\ turns'[s].answer = turns[s].answer
        /\ turns[s].pc \in {"ending", "done", "dead"} =>
             turns'[s].pc \in {"ending", "done", "dead"}
        /\ turns[s].pc \in Over => turns'[s].pc \in Over
        /\ turns[s].pc \in Broken => turns'[s].pc \in Broken
    BY <2>1
  <2>3. AnswerOf(s)' = AnswerOf(s)
    BY <2>2 DEF AnswerOf
  <2>4. Coming(stream[i], win.sending)'
    BY <1>1, <2>1, <2>2, <2>3 DEF Coming
  <2> QED
    BY <1>2, <1>3, <2>1, <2>2, <2>4
<1>5. win'.sending # 0 =>
        /\ win'.sending \in Numbers' /\ turns'[win'.sending].own
        /\ turns'[win'.sending].pc \in {"posted", "loaded", "asked"} => Undrafted'
        /\ turns'[win'.sending].pc \in Over =>
             stream' # <<>> /\ stream'[Len(stream')].kind \in {"end", "broken"}
  BY <1>1, <1>3 DEF StreamInv
<1>6. \A t \in Numbers' \ {win'.sending} : turns'[t].own => turns'[t].pc \in Over
  BY <1>1 DEF StreamInv
<1>7. ASSUME NEW t \in Numbers', turns'[t].own, turns'[t].by = "customer",
             turns'[t].pc \in {"ending", "done"}, turns'[t].answer # NoText
      PROVE  Answers(t)' \in Fingerprints(win'.cache) \/ (t = win'.sending /\ DoneComes')
  <2>1. /\ t \in Numbers /\ turns[t].own /\ turns[t].by = "customer"
        /\ turns[t].pc \in {"ending", "done"} /\ turns'[t].answer = turns[t].answer
    BY <1>1, <1>7
  <2>2. Answers(t)' = Answers(t)
    BY <2>1 DEF Answers
  <2> QED
    BY <1>2, <1>7, <2>1, <2>2 DEF StreamInv
<1>8. win'.sending = 0 => stream' = <<>>
  BY DEF StreamInv
<1> QED
  BY <1>4, <1>5, <1>6, <1>7, <1>8 DEF StreamInv, Fingerprints

\* The window's request t, not yet at its end, sends a part of its response.
LEMMA Responds ==
  ASSUME ChatTypes, StreamInv, Onward, NEW t \in Numbers, Rewrites(t), win' = win,
         t = win.sending, turns[t].pc \notin Over, turns[t].own,
         NEW resp \in Seq(Events), stream' = stream \o resp,
         \A i \in 1 .. Len(resp) :
           /\ Coming(resp[i], t)'
           /\ resp[i].kind \in {"end", "broken"} => i = Len(resp)
           /\ resp[i].kind = "end" =>
                turns'[t].pc \in Broken \/ \E k \in 1 .. Len(resp) : resp[k].kind = "done"
           /\ resp[i].kind = "done" /\ turns'[t].answer = NoText => turns[t].pc = "asked"
           /\ resp[i].kind = "token" => turns'[t].pc = "streaming",
         turns'[t].pc \in {"posted", "loaded", "asked"} =>
           turns[t].pc \in {"posted", "loaded", "asked"},
         turns'[t].pc \in Over =>
           resp # <<>> /\ resp[Len(resp)].kind \in {"end", "broken"},
         turns'[t].pc \in {"ending", "done"} /\ turns'[t].answer # NoText =>
           \E k \in 1 .. Len(resp) : resp[k].kind = "done"
  PROVE  StreamInv'
<1>1. /\ Numbers' = Numbers /\ turns'[t].own
      /\ \A u \in Numbers \ {t} : turns'[u] = turns[u]
      /\ AllBubbles \subseteq AllBubbles' /\ t # 0
  BY BubblesStay DEF Rewrites, Numbers
<1>2. /\ Len(stream) \in Nat /\ Len(resp) \in Nat
      /\ Len(stream') = Len(stream) + Len(resp)
      /\ \A i \in 1 .. Len(stream) : stream'[i] = stream[i]
      /\ \A i \in 1 .. Len(resp) : stream'[Len(stream) + i] = resp[i]
      /\ \A i \in 1 .. Len(stream') :
           i \in 1 .. Len(stream) \/ \E j \in 1 .. Len(resp) : i = Len(stream) + j
  <2>1. stream \in Seq(Events)
    BY DEF ChatTypes
  <2>2. /\ Len(stream) \in Nat /\ Len(resp) \in Nat
        /\ Len(stream \o resp) = Len(stream) + Len(resp)
        /\ \A i \in 1 .. Len(stream) : (stream \o resp)[i] = stream[i]
        /\ \A i \in 1 .. Len(resp) : (stream \o resp)[Len(stream) + i] = resp[i]
        /\ \A i \in 1 .. Len(stream \o resp) :
             i \in 1 .. Len(stream) \/ \E j \in 1 .. Len(resp) : i = Len(stream) + j
    BY <2>1, Joined
  <2> QED
    BY <2>2
<1>3. ASSUME NEW i \in 1 .. Len(stream)
      PROVE  /\ stream[i].kind = "message" => stream[i].bubble \in AllBubbles
             /\ stream[i].kind \notin {"done", "end", "broken"}
  BY DEF StreamInv, Coming, Over
<1>4. ASSUME NEW k \in 1 .. Len(resp), resp[k].kind = "done" PROVE DoneComes'
  <2>1. Len(stream) + k \in 1 .. Len(stream') /\ stream'[Len(stream) + k] = resp[k]
    BY <1>2
  <2> QED
    BY <1>4, <2>1 DEF DoneComes
<1>5. ASSUME turns[t].pc \in {"posted", "loaded", "asked"}, turns'[t].pc # "streaming"
      PROVE  Undrafted'
  <2>1. Undrafted
    BY <1>1, <1>5 DEF StreamInv
  <2>2. ASSUME NEW i \in 1 .. Len(stream') PROVE stream'[i].kind # "token"
    <3>1. CASE i \in 1 .. Len(stream)
      BY <1>2, <2>1, <3>1 DEF Undrafted
    <3>2. ASSUME NEW j \in 1 .. Len(resp), i = Len(stream) + j
          PROVE  stream'[i].kind # "token"
      BY <1>2, <1>5, <3>2
    <3> QED
      BY <1>2, <3>1, <3>2
  <2> QED
    BY <2>1, <2>2 DEF Undrafted
<1>6. ASSUME NEW i \in 1 .. Len(stream')
      PROVE  /\ Coming(stream[i], win.sending)'
             /\ stream'[i].kind \in {"end", "broken"} => i = Len(stream')
             /\ stream'[i].kind = "done" /\ turns'[win'.sending].answer = NoText => Undrafted'
             /\ stream'[i].kind = "end" =>
                  turns'[win'.sending].pc \in Broken \/ win'.settled \/ DoneComes'
  <2>1. CASE i \in 1 .. Len(stream)
    <3>1. /\ stream'[i] = stream[i] /\ stream[i].kind \notin {"done", "end", "broken"}
          /\ stream[i].kind = "message" => stream[i].bubble \in AllBubbles'
      BY <1>1, <1>2, <1>3, <2>1
    <3> QED
      BY <3>1 DEF Coming
  <2>2. ASSUME NEW j \in 1 .. Len(resp), i = Len(stream) + j
        PROVE  /\ Coming(stream[i], win.sending)'
               /\ stream'[i].kind \in {"end", "broken"} => i = Len(stream')
               /\ stream'[i].kind = "done" /\ turns'[win'.sending].answer = NoText => Undrafted'
               /\ stream'[i].kind = "end" =>
                    turns'[win'.sending].pc \in Broken \/ win'.settled \/ DoneComes'
    <3>1. stream'[i] = resp[j] /\ win'.sending = t
      BY <1>2, <2>2
    <3>2. /\ Coming(resp[j], t)'
          /\ resp[j].kind \in {"end", "broken"} => j = Len(resp)
          /\ resp[j].kind = "end" => turns'[t].pc \in Broken \/ DoneComes'
      BY <1>4
    <3>3. Coming(stream[i], win.sending)'
      BY <3>1, <3>2 DEF Coming
    <3>4. resp[j].kind = "done" => turns'[t].pc # "streaming"
      BY <3>2 DEF Coming
    <3>5. resp[j].kind = "done" /\ turns'[t].answer = NoText => Undrafted'
      BY <1>5, <3>4
    <3> QED
      BY <1>2, <2>2, <3>1, <3>2, <3>3, <3>5
  <2> QED
    BY <1>2, <2>1, <2>2
<1>7. /\ turns'[t].pc \in {"posted", "loaded", "asked"} => Undrafted'
      /\ turns'[t].pc \in Over =>
           stream' # <<>> /\ stream'[Len(stream')].kind \in {"end", "broken"}
  <2>1. turns'[t].pc \in Over =>
          stream' # <<>> /\ stream'[Len(stream')].kind \in {"end", "broken"}
    <3> SUFFICES ASSUME turns'[t].pc \in Over
                 PROVE  stream' # <<>> /\ stream'[Len(stream')].kind \in {"end", "broken"}
      OBVIOUS
    <3>1. resp # <<>> /\ resp[Len(resp)].kind \in {"end", "broken"}
      OBVIOUS
    <3>2. Len(resp) \in 1 .. Len(resp)
      BY <1>2, <3>1, EmptySeq
    <3>3. stream'[Len(stream')] = resp[Len(resp)] /\ Len(stream') # 0
      BY <1>2, <3>2
    <3> QED
      BY <3>1, <3>3
  <2> QED
    BY <1>5, <2>1
<1>8. \A u \in Numbers' \ {win'.sending} : turns'[u].own => turns'[u].pc \in Over
  BY <1>1 DEF StreamInv
<1>9. ASSUME NEW u \in Numbers', turns'[u].own, turns'[u].by = "customer",
             turns'[u].pc \in {"ending", "done"}, turns'[u].answer # NoText
      PROVE  Answers(u)' \in Fingerprints(win'.cache) \/ (u = win'.sending /\ DoneComes')
  <2>1. CASE u = t
    BY <1>4, <1>9, <2>1
  <2>2. CASE u # t
    <3>1. turns'[u] = turns[u] /\ u \in Numbers
      BY <1>1, <2>2
    <3>2. Answers(u)' = Answers(u)
      BY <3>1 DEF Answers
    <3> QED
      BY <1>9, <2>2, <3>1, <3>2 DEF StreamInv
  <2> QED
    BY <2>1, <2>2
<1> QED
  BY <1>1, <1>6, <1>7, <1>8, <1>9 DEF StreamInv

\* The same with nothing, one event, or the last two.
LEMMA RespondsNot ==
  ASSUME ChatTypes, StreamInv, Onward, NEW t \in Numbers, Rewrites(t), win' = win,
         t = win.sending, turns[t].pc \notin Over, turns[t].own,
         stream' = stream, turns'[t].pc \notin Over,
         turns'[t].pc \in {"posted", "loaded", "asked"} =>
           turns[t].pc \in {"posted", "loaded", "asked"}
  PROVE  StreamInv'
<1> DEFINE resp == <<>>
<1>1. resp \in Seq(Events) /\ stream' = stream \o resp /\ Len(resp) = 0
  BY DEF ChatTypes
<1> HIDE DEF resp
<1>2. /\ \A i \in 1 .. Len(resp) : FALSE
      /\ turns'[t].pc \notin {"ending", "done"}
  BY <1>1 DEF Over
<1> QED
  BY <1>1, <1>2, Responds

LEMMA RespondsOnce ==
  ASSUME ChatTypes, StreamInv, Onward, NEW t \in Numbers, Rewrites(t), win' = win,
         t = win.sending, turns[t].pc \notin Over, turns[t].own,
         NEW e \in Events, stream' = stream \o <<e>>,
         Coming(e, t)', e.kind # "done",
         e.kind = "end" => turns'[t].pc \in Broken,
         e.kind = "token" => turns'[t].pc = "streaming",
         turns'[t].pc \in {"posted", "loaded", "asked"} =>
           turns[t].pc \in {"posted", "loaded", "asked"},
         turns'[t].pc \in Over => e.kind \in {"end", "broken"},
         turns'[t].pc \notin {"ending", "done"}
  PROVE  StreamInv'
<1> DEFINE resp == <<e>>
<1>1. /\ resp \in Seq(Events) /\ stream' = stream \o resp /\ Len(resp) = 1 /\ resp # <<>>
      /\ resp[1] = e
  OBVIOUS
<1> HIDE DEF resp
<1>2. \A i \in 1 .. Len(resp) :
        /\ Coming(resp[i], t)'
        /\ resp[i].kind \in {"end", "broken"} => i = Len(resp)
        /\ resp[i].kind = "end" =>
             turns'[t].pc \in Broken \/ \E k \in 1 .. Len(resp) : resp[k].kind = "done"
        /\ resp[i].kind = "done" /\ turns'[t].answer = NoText => turns[t].pc = "asked"
        /\ resp[i].kind = "token" => turns'[t].pc = "streaming"
  BY <1>1 DEF Coming
<1>3. turns'[t].pc \in Over =>
        resp # <<>> /\ resp[Len(resp)].kind \in {"end", "broken"}
  BY <1>1
<1> QED
  BY <1>1, <1>2, <1>3, Responds

LEMMA RespondsDone ==
  ASSUME ChatTypes, StreamInv, Onward, NEW t \in Numbers, Rewrites(t), win' = win,
         t = win.sending, turns[t].pc \notin Over, turns[t].own,
         NEW d \in Events, NEW e \in Events, stream' = stream \o <<d, e>>,
         d.kind = "done", d.bubble = AnswerOf(t)', e.kind = "end",
         turns'[t].answer = NoText => turns[t].pc = "asked",
         turns'[t].pc = "ending"
  PROVE  StreamInv'
<1> DEFINE resp == <<d, e>>
<1>1. /\ resp \in Seq(Events) /\ stream' = stream \o resp /\ Len(resp) = 2 /\ resp # <<>>
      /\ resp[1] = d /\ resp[2] = e
  OBVIOUS
<1> HIDE DEF resp
<1>2. 1 \in 1 .. Len(resp) /\ \A i \in 1 .. Len(resp) : i = 1 \/ i = 2
  BY <1>1
<1>3. \E k \in 1 .. Len(resp) : resp[k].kind = "done"
  BY <1>1, <1>2
<1>4. Coming(d, t)' /\ Coming(e, t)'
  BY DEF Coming, Over
<1>5. \A i \in 1 .. Len(resp) :
        /\ Coming(resp[i], t)'
        /\ resp[i].kind \in {"end", "broken"} => i = Len(resp)
        /\ resp[i].kind = "end" =>
             turns'[t].pc \in Broken \/ \E k \in 1 .. Len(resp) : resp[k].kind = "done"
        /\ resp[i].kind = "done" /\ turns'[t].answer = NoText => turns[t].pc = "asked"
        /\ resp[i].kind = "token" => turns'[t].pc = "streaming"
  BY <1>1, <1>2, <1>3, <1>4 DEF Coming
<1> QED
  BY <1>1, <1>3, <1>5, Responds

LEMMA ServeStream ==
  ASSUME ChatInv, NEW t \in Numbers, Serve(t), Onward, AllBubbles \subseteq AllBubbles'
  PROVE  StreamInv'
<1> USE DEF PCs, Streaming, Over, Broken
<1>1. /\ ChatTypes /\ TypeOK /\ StreamInv /\ RequestInv /\ Request(t) /\ WindowInv
      /\ turns[t].pc \notin {"posted", "refused"} => turns[t].at \in 1 .. MaxTurns
  BY DEF ChatInv, ChatTypes, Begun, RequestInv
<1>2. /\ Rewrites(t) /\ win' = win /\ Numbers' = Numbers
      /\ \A u \in Numbers \ {t} : turns'[u] = turns[u]
  BY <1>1, ServeDoes DEF Rewrites, Numbers
<1>3. CASE ~ turns[t].own
  <2>1. stream' = stream
    BY <1>3 DEF Serve, Load, Refuse, AppendQuestion, NoRun, Token, Persist, Announce,
                Finish, Cut, Commit, Die, Sent
  <2>2. \A u \in Numbers : turns[u].own =>
          turns'[u].answer = turns[u].answer /\ turns'[u].pc = turns[u].pc
    BY <1>2, <1>3
  <2> QED
    BY <1>1, <1>2, <2>1, <2>2, StreamStays
<1>4. CASE turns[t].own /\ turns[t].pc \in Over
  <2>1. Commit(t) \/ Die(t)
    BY <1>4 DEF Serve, Load, Refuse, AppendQuestion, NoRun, Token, Persist, Announce,
                Finish, Cut, Move
  <2>2. stream' = stream /\ turns[t].pc \in {"ending", "cut"}
    BY <1>4, <2>1 DEF Commit, Die, Move
  <2>3. /\ turns'[t].answer = turns[t].answer
        /\ \/ turns[t].pc = "ending" /\ turns'[t].pc \in {"done", "dead"}
           \/ turns[t].pc = "cut" /\ turns'[t].pc \in {"half", "dead"}
    BY <1>1, <2>1, <2>2, Moved DEF Commit, Die, Move, Becomes
  <2>4. \A u \in Numbers : turns[u].own =>
          /\ turns'[u].answer = turns[u].answer
          /\ \/ turns'[u].pc = turns[u].pc
             \/ turns[u].pc = "ending" /\ turns'[u].pc \in {"done", "dead"}
             \/ turns[u].pc = "cut" /\ turns'[u].pc \in {"half", "dead"}
    BY <1>2, <2>3
  <2> QED
    BY <1>1, <1>2, <2>2, <2>4, StreamStays
<1>5. ASSUME turns[t].own, turns[t].pc \notin Over
      PROVE  StreamInv'
  <2>1. t = win.sending /\ turns[t].by # "system"
    <3>1. win.user \in Users
      BY <1>1 DEF TypeOK, Window
    <3> QED
      BY <1>1, <1>5, <3>1 DEF StreamInv, WindowInv, Users
  <2>2. \A events : Sent(t, events) => stream' = stream \o events
    BY <1>5 DEF Sent
  <2>3. \A kind \in {"end", "broken"} : Last(t, kind) \in Events /\ Last(t, kind).kind = kind
    BY <1>1, EventsTyped DEF Last, Event
  <2>4. ASSUME NEW kind \in {"end", "broken"}, turns'[t].pc \in Over PROVE Coming(Last(t, kind), t)'
    BY <2>4 DEF Coming, Last, Event
  <2>5. ASSUME NEW pc \in PCs, turns' = [turns EXCEPT ![t].pc = pc]
        PROVE  turns'[t].pc = pc /\ turns'[t].answer = turns[t].answer
    BY <1>1, <2>5, Moved DEF Becomes
  <2>6. ASSUME NEW b \in AllBubbles PROVE Event("message", b) \in Events
    BY <1>1, AllTyped, EventsTyped
  <2>7. CASE Load(t)
    <3>1. stream' = stream /\ turns[t].pc = "posted" /\ turns'[t].pc = "loaded"
      BY <1>1, <2>7 DEF Load, TypeOK, Numbers
    <3> QED
      BY <1>1, <1>2, <1>5, <2>1, <3>1, RespondsNot
  <2>8. CASE Refuse(t)
    <3>1. stream' = stream \o <<Last(t, "broken")>> /\ turns'[t].pc = "refused"
      BY <2>2, <2>5, <2>8 DEF Refuse, Move
    <3> QED
      BY <1>1, <1>2, <1>5, <2>1, <2>3, <2>4, <3>1, RespondsOnce
  <2>9. CASE AppendQuestion(t)
    <3>1. stream' = stream \o <<Event("message", QuestionOf(t))>> /\ turns[t].pc = "loaded"
      BY <2>2, <2>9 DEF AppendQuestion
    <3>2. turns'[t].pc = "asked"
      BY <1>1, <2>1, <2>9, <3>1, AppendDoes DEF Becomes
    <3>3. QuestionOf(t) \in AllBubbles
      BY <1>1, BubblesTyped, AllTyped
    <3> DEFINE e == Event("message", QuestionOf(t))
    <3>4. e \in Events /\ e.kind = "message" /\ e.bubble = QuestionOf(t)
      BY <2>6, <3>3 DEF Event
    <3>5. PICK f : f = e
      OBVIOUS
    <3> HIDE DEF e
    <3>6. Coming(f, t)'
      BY <3>3, <3>4, <3>5 DEF Coming
    <3> QED
      BY <1>1, <1>2, <1>5, <2>1, <3>1, <3>2, <3>4, <3>5, <3>6, RespondsOnce DEF e
  <2>10. CASE NoRun(t)
    <3>1. /\ stream' = stream \o <<Done(t, NoText), Last(t, "end")>>
          /\ turns[t].pc = "asked" /\ turns'[t].pc = "ending"
          /\ turns'[t].answer = turns[t].answer
      BY <2>2, <2>5, <2>10 DEF NoRun, Move
    <3>2. turns'[t].answer = NoText
      BY <1>1, <3>1 DEF Request
    <3>3. Done(t, NoText) \in Events
      BY <1>1, EventsTyped
    <3>4. Done(t, NoText).kind = "done" /\ Done(t, NoText).bubble = AnswerOf(t)'
      BY <3>2 DEF Done, Event, AnswerOf
    <3> QED
      BY <1>1, <1>2, <1>5, <2>1, <2>3, <3>1, <3>3, <3>4, RespondsDone
  <2>11. CASE Token(t)
    <3> DEFINE e == Event("token", Said(t, "draft", "assistant", Streamed))
    <3>1. stream' = stream \o <<e>> /\ turns[t].pc = "asked" /\ turns'[t].pc = "streaming"
      BY <2>2, <2>5, <2>11 DEF Token, Move
    <3>2. e \in Events /\ e.kind = "token"
      BY <1>1, EventsTyped DEF Event
    <3>3. PICK f : f = e
      OBVIOUS
    <3> HIDE DEF e
    <3>4. Coming(f, t)'
      BY <3>2, <3>3 DEF Coming
    <3> QED
      BY <1>1, <1>2, <1>5, <2>1, <3>1, <3>2, <3>3, <3>4, RespondsOnce
  <2>12. CASE Persist(t)
    <3>1. stream' = stream /\ turns'[t].pc = "persisted"
      BY <1>1, <2>12, PersistDoes DEF Persist, Becomes
    <3> QED
      BY <1>1, <1>2, <1>5, <2>1, <3>1, RespondsNot
  <2>13. CASE Announce(t)
    <3>1. turns[t].pc = "persisted" /\ turns'[t].pc = "announced"
      BY <2>5, <2>13 DEF Announce, Move
    <3>2. PICK last \in Latest(t) :
            LET events == IF last.role = "assistant" THEN <<Event("message", last)>> ELSE <<>>
            IN Sent(t, events)
      BY <2>13 DEF Announce
    <3> DEFINE events == IF last.role = "assistant" THEN <<Event("message", last)>> ELSE <<>>
    <3>3. stream' = stream \o events
      <4>1. Sent(t, events)
        BY <3>2
      <4> HIDE DEF events
      <4> QED
        BY <2>2, <4>1
    <3>4. last \in AllBubbles
      <4>1. last \in Stored \union Flushed(t)
        BY <1>1, LatestBubbles
      <4> QED
        BY <1>1, <4>1, AllTyped, BubblesTyped DEF RequestInv, Request
    <3> DEFINE e == Event("message", last)
    <3>5. e \in Events /\ e.kind = "message" /\ e.bubble = last
      BY <2>6, <3>4 DEF Event
    <3>6. PICK f : f = e
      OBVIOUS
    <3>7. CASE last.role # "assistant"
      <4>1. stream' = stream
        BY <1>1, <3>3, <3>7 DEF ChatTypes
      <4> QED
        BY <1>1, <1>2, <1>5, <2>1, <3>1, <4>1, RespondsNot
    <3>8. CASE last.role = "assistant"
      <4>1. stream' = stream \o <<f>>
        BY <3>3, <3>6, <3>8
      <4> HIDE DEF e
      <4>2. Coming(f, t)'
        BY <3>4, <3>5, <3>6 DEF Coming
      <4> QED
        BY <1>1, <1>2, <1>5, <2>1, <3>1, <3>5, <3>6, <4>1, <4>2, RespondsOnce
    <3> QED
      BY <3>7, <3>8
  <2>14. CASE Finish(t)
    <3>1. /\ stream' = stream \o <<Done(t, turns[t].answer), Last(t, "end")>>
          /\ turns[t].pc = "announced" /\ turns'[t].pc = "ending"
          /\ turns'[t].answer = turns[t].answer
      BY <2>2, <2>5, <2>14 DEF Finish, Move
    <3>2. turns[t].answer \in AllTexts /\ turns[t].answer # NoText
      <4>1. turns[t] \in Turn
        BY <1>1 DEF TypeOK, Numbers
      <4> QED
        BY <1>1, <3>1, <4>1 DEF Turn, AllTexts, Request
    <3>3. Done(t, turns[t].answer) \in Events
      BY <1>1, <3>2, EventsTyped
    <3> DEFINE d == Done(t, turns[t].answer)
    <3>4. PICK f : f = d
      OBVIOUS
    <3>5. f.kind = "done" /\ f.bubble = AnswerOf(t)'
      BY <3>1, <3>4 DEF Done, Event, AnswerOf
    <3> HIDE DEF d
    <3>6. f \in Events /\ stream' = stream \o <<f, Last(t, "end")>>
      BY <3>1, <3>3, <3>4 DEF d
    <3> QED
      BY <1>1, <1>2, <1>5, <2>1, <2>3, <3>1, <3>2, <3>5, <3>6, RespondsDone
  <2>15. CASE Cut(t)
    <3>1. PICK kind \in {"end", "broken"} : stream' = stream \o <<Last(t, kind)>>
      BY <2>2, <2>15 DEF Cut
    <3>2. turns'[t].pc = "cut"
      BY <2>5, <2>15 DEF Cut
    <3> QED
      BY <1>1, <1>2, <1>5, <2>1, <2>3, <2>4, <3>1, <3>2, RespondsOnce
  <2>16. CASE Die(t)
    <3>1. stream' = stream \o <<Last(t, "broken")>> /\ turns'[t].pc = "dead"
      BY <1>5, <2>2, <2>5, <2>16 DEF Die
    <3> QED
      BY <1>1, <1>2, <1>5, <2>1, <2>3, <2>4, <3>1, RespondsOnce
  <2>17. ~ Commit(t)
    BY <1>5 DEF Commit, Move
  <2> QED
    BY <2>7, <2>8, <2>9, <2>10, <2>11, <2>12, <2>13, <2>14, <2>15, <2>16, <2>17 DEF Serve
<1> QED
  BY <1>3, <1>4, <1>5

\* Sending starts with nothing to read.
LEMMA SendStream ==
  ASSUME ChatInv, Send, Onward, Stored \subseteq Stored'
  PROVE  StreamInv'
<1>1. /\ ChatTypes /\ StreamInv /\ WindowInv /\ win.open /\ win.sending = 0
      /\ win'.draft = NoText /\ stream' = stream /\ 0 \notin Numbers
  <2>1. ChatTypes /\ StreamInv /\ WindowInv
    BY DEF ChatInv
  <2>2. win.open /\ win.sending = 0 /\ win'.draft = NoText
    BY <2>1, SendDoes
  <2>3. stream' = stream /\ 0 \notin Numbers
    BY DEF Send, Numbers
  <2> QED
    BY <2>1, <2>2, <2>3
<1>2. PICK n, b :
        /\ n \in Nat \ {0}
        /\ n \notin Numbers /\ Numbers' = Numbers \union {n} /\ win'.sending = n
        /\ \A u \in Numbers : turns'[u] = turns[u]
        /\ turns'[n].own /\ turns'[n].pc = "posted"
        /\ b \in AllBubbles' /\ Shows(b)
  BY <1>1, SendAdds
<1>3. stream' = <<>> /\ \A i \in 1 .. Len(stream') : FALSE
  BY <1>1 DEF StreamInv
<1>4. Undrafted'
  BY <1>1, <1>3 DEF Undrafted
<1>5. Fingerprints(win.cache) \subseteq Fingerprints(win'.cache)
  BY <1>1, <1>2, ShowsKeeps
<1>6. \A t \in Numbers' \ {win'.sending} : turns'[t].own => turns'[t].pc \in Over
  BY <1>1, <1>2 DEF StreamInv
<1>7. ASSUME NEW t \in Numbers', turns'[t].own, turns'[t].by = "customer",
             turns'[t].pc \in {"ending", "done"}, turns'[t].answer # NoText
      PROVE  Answers(t)' \in Fingerprints(win'.cache)
  <2>1. t \in Numbers /\ turns'[t] = turns[t] /\ t # win.sending
    BY <1>1, <1>2, <1>7
  <2>2. Answers(t)' = Answers(t)
    BY <2>1 DEF Answers
  <2> QED
    BY <1>1, <1>5, <1>7, <2>1, <2>2 DEF StreamInv
<1> QED
  BY <1>2, <1>3, <1>4, <1>6, <1>7 DEF StreamInv, Over

LEMMA ReadStream ==
  ASSUME ChatInv, Read, Onward, Stored \subseteq Stored'
  PROVE  StreamInv'
<1> PICK s, e : s = win.sending /\ e = Head(stream)
  OBVIOUS
<1>1. /\ ChatTypes /\ StreamInv /\ WindowInv /\ stream \in Seq(Events)
      /\ stream # <<>> /\ stream' = Tail(stream) /\ turns' = turns
  BY DEF ChatInv, ChatTypes, Read
<1>2. /\ s \in Numbers /\ s # 0 /\ turns[s].own /\ win.open
      /\ ShowsNothing \/ \E b \in AllBubbles : Shows(b)
      /\ IF e.kind \in {"end", "broken"} THEN win'.sending = 0 ELSE win'.sending = s
      /\ e.kind = "done" /\ turns[s].by = "customer" /\ turns[s].answer # NoText =>
           Shows(AnswerOf(s))
      /\ win.settled \/ e.kind = "done" => win'.settled
      /\ e.kind # "token" /\ win.draft = NoText => win'.draft = NoText
  <2>1. s \in Numbers /\ s # 0
    BY ReadDoes DEF Numbers
  <2> QED
    BY <1>1, <2>1, ReadDoes DEF WindowInv
<1>3. /\ e = stream[1] /\ Len(stream) \in Nat \ {0} /\ Len(stream') = Len(stream) - 1
      /\ stream' \in Seq(Events)
      /\ \A i \in 1 .. Len(stream') : stream'[i] = stream[i + 1]
      /\ \A i \in 1 .. Len(stream) : i = 1 \/ \E j \in 1 .. Len(stream') : i = j + 1
  BY <1>1, Consumed
<1>4. Numbers' = Numbers /\ AllBubbles \subseteq AllBubbles' /\ Bubbles(s) \subseteq AllBubbles
  BY <1>1, <1>2, BubblesStay, AllTyped DEF Numbers, ChatTypes
<1>5. Fingerprints(win.cache) \subseteq Fingerprints(win'.cache)
  BY <1>1, <1>2, <1>4, ShowsKeeps DEF ShowsNothing
<1>6. ASSUME DoneComes
      PROVE  e.kind = "done" \/ DoneComes'
  <2>1. PICK i \in 1 .. Len(stream) : stream[i].kind = "done"
    BY <1>6 DEF DoneComes
  <2> QED
    BY <1>3, <2>1 DEF DoneComes
<1>7. Undrafted => Undrafted'
  <2> SUFFICES ASSUME Undrafted PROVE Undrafted'
    OBVIOUS
  <2>1. win'.draft = NoText
    BY <1>2, <1>3 DEF Undrafted
  <2>2. ASSUME NEW i \in 1 .. Len(stream') PROVE stream'[i].kind # "token"
    <3>1. i + 1 \in 1 .. Len(stream) /\ stream'[i] = stream[i + 1]
      BY <1>3
    <3> QED
      BY <3>1 DEF Undrafted
  <2> QED
    BY <2>1, <2>2 DEF Undrafted
<1>8. /\ Coming(e, s)
      /\ e.kind \in {"end", "broken"} => Len(stream) = 1
  <2>1. 1 \in 1 .. Len(stream)
    BY <1>3
  <2> QED
    BY <1>1, <1>2, <1>3, <2>1 DEF StreamInv
<1>9. ASSUME NEW t \in Numbers, turns[t].own, turns[t].by = "customer",
             turns[t].pc \in {"ending", "done"}, turns[t].answer # NoText
      PROVE  \/ Answers(t) \in Fingerprints(win'.cache)
             \/ t = s /\ DoneComes'
  <2>1. CASE Answers(t) \in Fingerprints(win.cache)
    BY <1>5, <2>1
  <2>2. CASE t = s /\ e.kind = "done"
    <3>1. Shows(AnswerOf(s)) /\ AnswerOf(s) \in AllBubbles
      BY <1>2, <1>4, <1>9, <2>2 DEF Bubbles
    <3>2. Fingerprint(AnswerOf(s)) \in Fingerprints(win'.cache)
      BY <1>1, <1>4, <3>1, ShowsKeeps DEF Shows
    <3> QED
      BY <2>2, <3>2, AnswersLook
  <2> QED
    BY <1>1, <1>6, <1>9, <2>1, <2>2 DEF StreamInv
<1>10. CASE e.kind \in {"end", "broken"}
  <2>1. win'.sending = 0 /\ stream' = <<>> /\ \A i \in 1 .. Len(stream') : FALSE
    <3>1. Len(stream') = 0
      BY <1>3, <1>8, <1>10
    <3>2. stream' = <<>>
      BY <1>3, <3>1, EmptySeq
    <3> QED
      BY <1>2, <1>10, <3>1, <3>2
  <2>2. \A t \in Numbers : turns[t].own => turns[t].pc \in Over
    BY <1>1, <1>8, <1>10 DEF StreamInv, Coming
  <2>3. ~ DoneComes'
    BY <2>1 DEF DoneComes
  <2> QED
    BY <1>1, <1>4, <1>9, <2>1, <2>2, <2>3 DEF StreamInv, Answers, Fingerprints
<1>11. CASE e.kind \notin {"end", "broken"}
  <2>1. win'.sending = s
    BY <1>2, <1>11
  <2>2. ASSUME NEW i \in 1 .. Len(stream')
        PROVE  /\ Coming(stream[i], win.sending)'
               /\ stream'[i].kind \in {"end", "broken"} => i = Len(stream')
               /\ stream'[i].kind = "done" /\ turns'[win'.sending].answer = NoText => Undrafted'
               /\ stream'[i].kind = "end" =>
                    turns'[win'.sending].pc \in Broken \/ win'.settled \/ DoneComes'
    <3>1. PICK j : j = i + 1
      OBVIOUS
    <3>2. j \in 1 .. Len(stream) /\ stream'[i] = stream[j] /\ (j = Len(stream) => i = Len(stream'))
      BY <1>3, <3>1
    <3>3. /\ Coming(stream[j], s)
          /\ stream[j].kind \in {"end", "broken"} => j = Len(stream)
          /\ stream[j].kind = "done" /\ turns[s].answer = NoText => Undrafted
          /\ stream[j].kind = "end" => turns[s].pc \in Broken \/ win.settled \/ DoneComes
      BY <1>1, <3>2 DEF StreamInv
    <3>4. Coming(stream[i], win.sending)'
      <4>1. AnswerOf(s)' = AnswerOf(s)
        BY <1>1 DEF AnswerOf
      <4> QED
        BY <1>1, <1>4, <2>1, <3>2, <3>3, <4>1 DEF Coming
    <3> QED
      BY <1>1, <1>2, <1>6, <1>7, <2>1, <3>2, <3>3, <3>4
  <2>3. /\ turns[s].pc \in {"posted", "loaded", "asked"} => Undrafted'
        /\ turns[s].pc \in Over =>
             stream' # <<>> /\ stream'[Len(stream')].kind \in {"end", "broken"}
    <3>1. turns[s].pc \in {"posted", "loaded", "asked"} => Undrafted
      BY <1>1, <1>2 DEF StreamInv
    <3>2. ASSUME turns[s].pc \in Over
          PROVE  stream' # <<>> /\ stream'[Len(stream')].kind \in {"end", "broken"}
      <4>1. stream[Len(stream)].kind \in {"end", "broken"}
        BY <1>1, <1>2, <3>2 DEF StreamInv
      <4>2. Len(stream) # 1
        BY <1>3, <1>11, <4>1
      <4>3. Len(stream') \in 1 .. Len(stream') /\ Len(stream') + 1 = Len(stream)
        BY <1>3, <4>2
      <4>4. stream'[Len(stream')] = stream[Len(stream)]
        BY <1>3, <4>3
      <4> QED
        BY <4>1, <4>3, <4>4
    <3> QED
      BY <1>7, <3>1, <3>2
  <2>4. \A t \in Numbers \ {s} : turns[t].own => turns[t].pc \in Over
    BY <1>1 DEF StreamInv
  <2> QED
    BY <1>1, <1>2, <1>4, <1>9, <2>1, <2>2, <2>3, <2>4 DEF StreamInv, Answers, Fingerprints
<1> QED
  BY <1>10, <1>11

LEMMA StreamStep ==
  ASSUME ChatInv, [Next]_vars, Onward, Stored \subseteq Stored'
  PROVE  StreamInv'
<1>1. /\ ChatTypes /\ TypeOK /\ StreamInv /\ WindowInv
      /\ AllBubbles \subseteq AllBubbles'
  BY BubblesStay DEF ChatInv, ChatTypes
<1>2. ASSUME stream' = stream, win'.sending = win.sending, win'.draft = win.draft,
             win'.settled = win.settled,
             Fingerprints(win.cache) \subseteq Fingerprints(win'.cache),
             \A t \in Numbers :
               turns'[t].pc = turns[t].pc /\ turns'[t].answer = turns[t].answer,
             \A t \in Numbers' \ Numbers : ~ turns'[t].own
      PROVE  StreamInv'
  BY <1>1, <1>2, StreamStays
<1>3. ASSUME NEW missed, Unheard(missed)
      PROVE  /\ Numbers' = Numbers
             /\ \A t \in Numbers :
                  turns'[t].pc = turns[t].pc /\ turns'[t].answer = turns[t].answer
  BY <1>1, <1>3, UnheardDoes
<1>4. ASSUME NEW t \in Numbers, Serve(t) PROVE StreamInv'
  BY <1>1, <1>4, ServeStream
<1>5. CASE Elsewhere
  <2>1. PICK rec : Fresh(rec) /\ ~ rec.own /\ turns' = Append(turns, rec)
    BY <1>5, ElsewhereAdds
  <2>2. PICK n : n = Len(turns) + 1
    OBVIOUS
  <2>3. /\ Numbers' = Numbers \union {n} /\ turns'[n] = rec
        /\ \A u \in Numbers : turns'[u] = turns[u]
    BY <1>1, <2>1, <2>2, AddedDoes
  <2> QED
    BY <1>2, <1>5, <2>1, <2>3 DEF Elsewhere
<1>6. CASE Open
  <2>1. /\ win'.sending = win.sending /\ win'.draft = win.draft
        /\ win'.settled = win.settled /\ win'.cache = win.cache
    BY <1>1, <1>6, OpenDoes, StoredTyped
  <2> QED
    BY <1>2, <1>6, <2>1 DEF Open, Numbers
<1>7. CASE Subscribe
  <2>1. /\ win'.sending = win.sending /\ win'.draft = win.draft
        /\ win'.settled = win.settled /\ win'.cache = win.cache
    BY <1>1, <1>7, SubscribeDoes
  <2> QED
    BY <1>2, <1>7, <2>1 DEF Subscribe, Numbers
<1>8. CASE Unsubscribe
  <2>1. /\ win'.sending = win.sending /\ win'.draft = win.draft
        /\ win'.settled = win.settled /\ win'.cache = win.cache
        /\ Unheard(Numbers)
    BY <1>1, <1>8, UnsubscribeDoes
  <2>2. stream' = stream
    BY <1>8 DEF Unsubscribe
  <2> QED
    BY <1>2, <1>3, <2>1, <2>2
<1>9. CASE Send
  BY <1>9, SendStream
<1>10. CASE Hear
  <2>1. /\ win'.sending = win.sending /\ win'.draft = win.draft
        /\ win'.settled = win.settled
        /\ ShowsNothing \/ \E b \in AllBubbles : Shows(b)
        /\ turns' = turns \/ \E missed : Unheard(missed)
    BY <1>10, HearDoes
  <2>2. win.open
    BY <1>10, HearDoes DEF ChatInv, BusInv, WindowInv
  <2>3. Fingerprints(win.cache) \subseteq Fingerprints(win'.cache)
    BY <1>1, <2>1, <2>2, ShowsKeeps DEF ShowsNothing
  <2>4. /\ Numbers' = Numbers
        /\ \A t \in Numbers :
             turns'[t].pc = turns[t].pc /\ turns'[t].answer = turns[t].answer
    BY <1>3, <2>1 DEF Numbers
  <2>5. stream' = stream
    BY <1>10 DEF Hear
  <2> QED
    BY <1>2, <2>1, <2>3, <2>4, <2>5
<1>11. CASE Read
  BY <1>11, ReadStream
<1>12. CASE UNCHANGED vars
  BY <1>2, <1>12 DEF vars, Numbers
<1> QED
  BY <1>4, <1>5, <1>6, <1>7, <1>8, <1>9, <1>10, <1>11, <1>12 DEF Next
-----------------------------------------------------------------------------
(* The bus *)

\* After a step that leaves nothing to hear, and no one to have heard it.
LEMMA BusEmpty ==
  ASSUME bus' = <<>>, \A t \in Numbers' : ~ turns'[t].heard
  PROVE  BusInv'
<1>1. \A i \in 1 .. Len(bus') : FALSE
  OBVIOUS
<1> QED
  BY <1>1 DEF BusInv

LEMMA BusStays ==
  ASSUME BusInv, Onward, win'.live = win.live, bus' = bus,
         Fingerprints(win.shown) \subseteq Fingerprints(win'.shown),
         \A t \in Numbers :
           /\ turns'[t].heard => turns[t].heard
           /\ turns'[t].pc \in {"ending", "done"} /\ turns'[t].answer # NoText =>
                turns[t].pc \in {"ending", "done"} /\ turns'[t].answer = turns[t].answer,
         \A t \in Numbers' \ Numbers : ~ turns'[t].heard
  PROVE  BusInv'
<1>1. /\ AllBubbles \subseteq AllBubbles'
      /\ \A t \in Numbers : Asks(t)' = Asks(t) /\ QuestionOf(t)' = QuestionOf(t)
  BY BubblesStay
<1>2. ASSUME NEW t \in Numbers', turns'[t].heard
      PROVE  /\ win'.live
             /\ Asks(t)' \in Fingerprints(win'.shown) \/ Awaits(QuestionOf(t))'
             /\ turns'[t].pc \in {"ending", "done"} /\ turns'[t].answer # NoText =>
                  Answers(t)' \in Fingerprints(win'.shown) \/ Awaits(AnswerOf(t))'
  <2>1. t \in Numbers /\ turns[t].heard
    BY <1>2
  <2>2. Asks(t)' \in Fingerprints(win'.shown) \/ Awaits(QuestionOf(t))'
    <3>1. Asks(t) \in Fingerprints(win.shown) \/ Awaits(QuestionOf(t))
      BY <2>1 DEF BusInv
    <3> QED
      BY <1>1, <2>1, <3>1 DEF Awaits
  <2>3. ASSUME turns'[t].pc \in {"ending", "done"}, turns'[t].answer # NoText
        PROVE  Answers(t)' \in Fingerprints(win'.shown) \/ Awaits(AnswerOf(t))'
    <3>1. turns[t].pc \in {"ending", "done"} /\ turns'[t].answer = turns[t].answer
      BY <2>1, <2>3
    <3>2. Answers(t) \in Fingerprints(win.shown) \/ Awaits(AnswerOf(t))
      BY <2>1, <2>3, <3>1 DEF BusInv
    <3>3. Answers(t)' = Answers(t) /\ AnswerOf(t)' = AnswerOf(t)
      BY <3>1 DEF Answers, AnswerOf
    <3> QED
      BY <3>2, <3>3 DEF Awaits
  <2> QED
    BY <2>1, <2>2, <2>3 DEF BusInv
<1>3. \A i \in 1 .. Len(bus') : bus'[i].bubble \in AllBubbles' \/ bus'[i].bubble.text = NoText
  BY <1>1 DEF BusInv
<1> QED
  BY <1>2, <1>3 DEF BusInv, Fingerprints

\* Request t publishes: to a subscribed window its question, then its answer.
LEMMA BusGrows ==
  ASSUME ChatTypes, BusInv, Onward, NEW t \in Numbers, Rewrites(t), win' = win,
         NEW events \in Seq(Events), Published(events),
         \A i \in 1 .. Len(events) :
           events[i].bubble \in AllBubbles' \/ events[i].bubble.text = NoText,
         \/ turns'[t].heard = turns[t].heard
         \/ /\ turns'[t].heard = win.live
            /\ \E k \in 1 .. Len(events) : events[k].bubble = QuestionOf(t),
         turns'[t].pc \in {"ending", "done"} /\ turns'[t].answer # NoText =>
           \E k \in 1 .. Len(events) : events[k].bubble = AnswerOf(t)'
  PROVE  BusInv'
<1>1. /\ AllBubbles \subseteq AllBubbles' /\ Numbers' = Numbers
      /\ \A u \in Numbers : Asks(u)' = Asks(u) /\ QuestionOf(u)' = QuestionOf(u)
      /\ \A u \in Numbers \ {t} : turns'[u] = turns[u]
  BY BubblesStay DEF Rewrites, Numbers
<1>2. CASE ~ win.live
  <2>1. bus' = <<>> /\ \A u \in Numbers : ~ turns[u].heard
    BY <1>2 DEF BusInv, Published
  <2>2. \A u \in Numbers' : ~ turns'[u].heard
    BY <1>1, <1>2, <2>1
  <2> QED
    BY <2>1, <2>2, BusEmpty
<1>3. CASE win.live
  <2>1. bus' = bus \o events /\ bus \in Seq(Events)
    BY <1>3 DEF Published, ChatTypes
  <2>2. /\ Len(bus) \in Nat /\ Len(events) \in Nat
        /\ Len(bus') = Len(bus) + Len(events)
        /\ \A i \in 1 .. Len(bus) : bus'[i] = bus[i]
        /\ \A i \in 1 .. Len(events) : bus'[Len(bus) + i] = events[i]
        /\ \A i \in 1 .. Len(bus') :
             i \in 1 .. Len(bus) \/ \E j \in 1 .. Len(events) : i = Len(bus) + j
    <3>1. /\ Len(bus) \in Nat /\ Len(events) \in Nat
          /\ Len(bus \o events) = Len(bus) + Len(events)
          /\ \A i \in 1 .. Len(bus) : (bus \o events)[i] = bus[i]
          /\ \A i \in 1 .. Len(events) : (bus \o events)[Len(bus) + i] = events[i]
          /\ \A i \in 1 .. Len(bus \o events) :
               i \in 1 .. Len(bus) \/ \E j \in 1 .. Len(events) : i = Len(bus) + j
      BY <2>1, Joined
    <3> QED
      BY <2>1, <3>1
  <2>3. \A i \in 1 .. Len(bus') : bus'[i].bubble \in AllBubbles' \/ bus'[i].bubble.text = NoText
    <3> TAKE i \in 1 .. Len(bus')
    <3>1. CASE i \in 1 .. Len(bus)
      BY <1>1, <2>2, <3>1 DEF BusInv
    <3>2. ASSUME NEW j \in 1 .. Len(events), i = Len(bus) + j
          PROVE  bus'[i].bubble \in AllBubbles' \/ bus'[i].bubble.text = NoText
      BY <2>2, <3>2
    <3> QED
      BY <2>2, <3>1, <3>2
  <2>4. ASSUME NEW i \in 1 .. Len(bus) PROVE i \in 1 .. Len(bus') /\ bus'[i] = bus[i]
    BY <2>2
  <2>5. ASSUME NEW k \in 1 .. Len(events)
        PROVE  \E i \in 1 .. Len(bus') : bus'[i] = events[k]
    <3>1. Len(bus) + k \in 1 .. Len(bus') /\ bus'[Len(bus) + k] = events[k]
      BY <2>2
    <3> QED
      BY <3>1
  <2>6. ASSUME NEW u \in Numbers', turns'[u].heard
        PROVE  Asks(u)' \in Fingerprints(win'.shown) \/ Awaits(QuestionOf(u))'
    <3>1. CASE turns[u].heard
      <4>1. Asks(u) \in Fingerprints(win.shown) \/ Awaits(QuestionOf(u))
        BY <1>1, <3>1 DEF BusInv
      <4> QED
        BY <1>1, <2>4, <4>1 DEF Awaits
    <3>2. CASE ~ turns[u].heard
      <4>1. u = t /\ \E k \in 1 .. Len(events) : events[k].bubble = QuestionOf(t)
        BY <1>1, <2>6, <3>2
      <4> QED
        BY <1>1, <2>5, <4>1 DEF Awaits
    <3> QED
      BY <3>1, <3>2
  <2>7. ASSUME NEW u \in Numbers', turns'[u].heard,
               turns'[u].pc \in {"ending", "done"}, turns'[u].answer # NoText
        PROVE  Answers(u)' \in Fingerprints(win'.shown) \/ Awaits(AnswerOf(u))'
    <3>1. CASE u = t
      BY <2>5, <2>7, <3>1 DEF Awaits
    <3>2. CASE u # t
      <4>1. turns'[u] = turns[u] /\ u \in Numbers
        BY <1>1, <3>2
      <4>2. Answers(u) \in Fingerprints(win.shown) \/ Awaits(AnswerOf(u))
        BY <2>7, <4>1 DEF BusInv
      <4>3. Answers(u)' = Answers(u) /\ AnswerOf(u)' = AnswerOf(u)
        BY <4>1 DEF Answers, AnswerOf
      <4> QED
        BY <2>4, <4>2, <4>3 DEF Awaits
    <3> QED
      BY <3>1, <3>2
  <2> QED
    BY <1>3, <2>3, <2>6, <2>7 DEF BusInv, Fingerprints
<1> QED
  BY <1>2, <1>3

LEMMA PublishedOnce ==
  ASSUME ChatTypes, BusInv, Onward, NEW t \in Numbers, Rewrites(t), win' = win,
         NEW e \in Events, Published(<<e>>),
         e.bubble \in AllBubbles' \/ e.bubble.text = NoText,
         \/ turns'[t].heard = turns[t].heard
         \/ turns'[t].heard = win.live /\ e.bubble = QuestionOf(t),
         turns'[t].pc \in {"ending", "done"} /\ turns'[t].answer # NoText =>
           e.bubble = AnswerOf(t)'
  PROVE  BusInv'
<1> DEFINE events == <<e>>
<1>1. /\ events \in Seq(Events) /\ Published(events)
      /\ Len(events) = 1 /\ events[1] = e
  OBVIOUS
<1> HIDE DEF events
<1>2. 1 \in 1 .. Len(events) /\ \A i \in 1 .. Len(events) : events[i] = e
  BY <1>1
<1> QED
  BY <1>1, <1>2, BusGrows

LEMMA ServeBus ==
  ASSUME ChatInv, NEW t \in Numbers, Serve(t), Onward
  PROVE  BusInv'
<1> USE DEF PCs, Streaming
<1>1. /\ ChatTypes /\ TypeOK /\ BusInv /\ RequestInv /\ Request(t)
      /\ turns[t].pc \notin {"posted", "refused"} => turns[t].at \in 1 .. MaxTurns
      /\ AllBubbles \subseteq AllBubbles'
  BY BubblesStay DEF ChatInv, ChatTypes, Begun, RequestInv
<1>2. /\ Rewrites(t) /\ win' = win /\ Numbers' = Numbers
      /\ \A u \in Numbers \ {t} : turns'[u] = turns[u]
  BY <1>1, ServeDoes DEF Rewrites, Numbers
<1>3. ASSUME bus' = bus, turns'[t].heard = turns[t].heard,
             turns'[t].pc \in {"ending", "done"} /\ turns'[t].answer # NoText =>
               turns[t].pc \in {"ending", "done"} /\ turns'[t].answer = turns[t].answer
      PROVE  BusInv'
  <2>1. \A u \in Numbers :
          /\ turns'[u].heard => turns[u].heard
          /\ turns'[u].pc \in {"ending", "done"} /\ turns'[u].answer # NoText =>
               turns[u].pc \in {"ending", "done"} /\ turns'[u].answer = turns[u].answer
    BY <1>2, <1>3
  <2> QED
    BY <1>1, <1>2, <1>3, <2>1, BusStays
<1>4. ASSUME NEW pc \in PCs, turns' = [turns EXCEPT ![t].pc = pc]
      PROVE  /\ turns'[t].pc = pc /\ turns'[t].answer = turns[t].answer
             /\ turns'[t].heard = turns[t].heard
  BY <1>1, <1>4, Moved DEF Becomes
<1>5. CASE Load(t)
  <2>1. turns[t].pc = "posted" /\ bus' = bus
    BY <1>5 DEF Load
  <2>2. Plain(t)
    BY <1>1, <2>1, ServeDoes DEF AppendQuestion, Persist, Commit, Move
  <2>3. turns'[t].pc \in {"loaded", "refused"} /\ turns'[t].heard = turns[t].heard
    BY <2>1, <2>2 DEF Plain, Path, Held
  <2> QED
    BY <1>3, <2>1, <2>3
<1>6. CASE AppendQuestion(t)
  <2> DEFINE e == Event("message", QuestionOf(t))
  <2>1. Published(<<e>>) /\ turns[t].pc = "loaded"
    BY <1>6 DEF AppendQuestion
  <2>2. turns'[t].heard = win.live /\ turns'[t].answer = NoText
    BY <1>1, <1>6, <2>1, AppendDoes DEF Becomes, Request
  <2>3. QuestionOf(t) \in AllBubbles
    BY <1>1, BubblesTyped, AllTyped
  <2>4. e \in Events /\ e.bubble = QuestionOf(t)
    BY <1>1, <2>3, AllTyped, EventsTyped DEF Event
  <2>5. PICK f : f = e
    OBVIOUS
  <2> HIDE DEF e
  <2> QED
    BY <1>1, <1>2, <2>1, <2>2, <2>3, <2>4, <2>5, PublishedOnce
<1>7. CASE NoRun(t)
  <2>1. /\ Published(<<Done(t, NoText)>>) /\ turns[t].pc = "asked"
        /\ turns'[t].answer = turns[t].answer /\ turns'[t].heard = turns[t].heard
    BY <1>4, <1>7 DEF NoRun, Move
  <2>2. turns'[t].answer = NoText
    BY <1>1, <2>1 DEF Request
  <2>3. Done(t, NoText) \in Events /\ Done(t, NoText).bubble.text = NoText
    BY <1>1, EventsTyped DEF Done, Event, Said
  <2> QED
    BY <1>1, <1>2, <2>1, <2>2, <2>3, PublishedOnce
<1>8. CASE Announce(t)
  <2>1. turns'[t].pc = "announced" /\ turns'[t].heard = turns[t].heard
    BY <1>4, <1>8 DEF Announce, Move
  <2>2. PICK last \in Latest(t) :
          LET events == IF last.role = "assistant" THEN <<Event("message", last)>> ELSE <<>>
          IN Published(events)
    BY <1>8 DEF Announce
  <2> DEFINE events == IF last.role = "assistant" THEN <<Event("message", last)>> ELSE <<>>
             e == Event("message", last)
  <2>3. Published(events)
    BY <2>2
  <2>4. last \in AllBubbles
    <3>1. last \in Stored \union Flushed(t)
      BY <1>1, LatestBubbles
    <3> QED
      BY <1>1, <3>1, AllTyped, BubblesTyped DEF RequestInv, Request
  <2>5. e \in Events /\ e.bubble = last
    BY <1>1, <2>4, AllTyped, EventsTyped DEF Event
  <2>6. PICK f : f = e
    OBVIOUS
  <2>7. CASE last.role # "assistant"
    <3>1. Published(<<>>)
      BY <2>3, <2>7
    <3>2. bus' = bus
      BY <1>1, <3>1 DEF Published, ChatTypes
    <3> QED
      BY <1>3, <2>1, <3>2
  <2>8. CASE last.role = "assistant"
    <3>1. Published(<<f>>)
      BY <2>3, <2>6, <2>8
    <3> HIDE DEF e, events
    <3> QED
      BY <1>1, <1>2, <2>1, <2>4, <2>5, <2>6, <3>1, PublishedOnce
  <2> QED
    BY <2>7, <2>8
<1>9. CASE Finish(t)
  <2>1. /\ Published(<<Done(t, turns[t].answer)>>) /\ turns[t].pc = "announced"
        /\ turns'[t].answer = turns[t].answer /\ turns'[t].heard = turns[t].heard
    BY <1>4, <1>9 DEF Finish, Move
  <2>2. turns[t].answer \in AllTexts /\ turns[t].answer # NoText
    <3>1. turns[t] \in Turn
      BY <1>1 DEF TypeOK, Numbers
    <3> QED
      BY <1>1, <2>1, <3>1 DEF Turn, AllTexts, Request
  <2> DEFINE d == Done(t, turns[t].answer)
  <2>3. d \in Events /\ d.bubble = AnswerOf(t)
    BY <1>1, <2>2, EventsTyped DEF Done, Event, AnswerOf
  <2>4. AnswerOf(t) \in AllBubbles /\ AnswerOf(t)' = AnswerOf(t)
    BY <1>1, <2>1, <2>2, AllTyped DEF Bubbles, AnswerOf
  <2>5. PICK f : f = d
    OBVIOUS
  <2>6. Published(<<f>>)
    BY <2>1, <2>5
  <2> HIDE DEF d
  <2> QED
    BY <1>1, <1>2, <2>1, <2>3, <2>4, <2>5, <2>6, PublishedOnce
<1>10. CASE Refuse(t)
  BY <1>3, <1>4, <1>10 DEF Refuse, Move
<1>11. CASE Token(t)
  BY <1>3, <1>4, <1>11 DEF Token, Move
<1>12. CASE Persist(t)
  <2>1. turns'[t].pc = "persisted" /\ turns'[t].heard = turns[t].heard
    BY <1>1, <1>12, PersistDoes DEF Persist, Becomes
  <2> QED
    BY <1>3, <1>12, <2>1 DEF Persist
<1>13. CASE Cut(t)
  BY <1>3, <1>4, <1>13 DEF Cut
<1>14. CASE Commit(t)
  BY <1>3, <1>4, <1>14 DEF Commit, Move
<1>15. CASE Die(t)
  BY <1>3, <1>4, <1>15 DEF Die
<1> QED
  BY <1>5, <1>6, <1>7, <1>8, <1>9, <1>10, <1>11, <1>12, <1>13, <1>14, <1>15 DEF Serve

\* The event that is handled has been shown, or its request has been missed.
LEMMA HearBus ==
  ASSUME ChatInv, Hear, Onward, Stored \subseteq Stored'
  PROVE  BusInv'
<1> PICK e : e = Head(bus)
  OBVIOUS
<1>1. /\ ChatTypes /\ TypeOK /\ BusInv /\ WindowInv /\ bus \in Seq(Events)
      /\ AllBubbles \subseteq AllBubbles'
      /\ \A t \in Numbers : Asks(t)' = Asks(t) /\ QuestionOf(t)' = QuestionOf(t)
  BY BubblesStay DEF ChatInv, ChatTypes
<1>2. /\ bus # <<>> /\ bus' = Tail(bus) /\ win'.live = win.live
      /\ \/ ShowsNothing /\ Unheard({e.bubble.id[1]})
         \/ ShowsNothing /\ turns' = turns /\ e.bubble.text = NoText
         \/ e.bubble \in AllBubbles /\ Shows(e.bubble) /\ turns' = turns
  BY HearDoes
<1>3. /\ e = bus[1] /\ Len(bus) \in Nat \ {0} /\ Len(bus') = Len(bus) - 1
      /\ \A i \in 1 .. Len(bus') : bus'[i] = bus[i + 1]
      /\ \A i \in 1 .. Len(bus) : i = 1 \/ \E j \in 1 .. Len(bus') : i = j + 1
  BY <1>1, <1>2, Consumed
<1>4. win.live
  BY <1>1, <1>2 DEF BusInv
<1>5. /\ Fingerprints(win.shown) \subseteq Fingerprints(win'.shown)
      /\ Shows(e.bubble) => Fingerprint(e.bubble) \in Fingerprints(win'.shown)
                            \/ e.bubble \notin AllBubbles
  BY <1>1, <1>2, ShowsKeeps DEF ShowsNothing
<1>6. /\ Numbers' = Numbers
      /\ \A t \in Numbers :
           /\ turns'[t].pc = turns[t].pc /\ turns'[t].answer = turns[t].answer
           /\ turns'[t].heard => turns[t].heard
  BY <1>1, <1>2, UnheardDoes DEF Numbers
<1>7. ASSUME NEW b, Awaits(b), b # e.bubble
      PROVE  Awaits(b)'
  <2>1. PICK i \in 1 .. Len(bus) : bus[i].bubble = b
    BY <1>7 DEF Awaits
  <2> QED
    BY <1>3, <1>7, <2>1 DEF Awaits
<1>8. ASSUME NEW t \in Numbers, turns'[t].heard, NEW b \in Bubbles(t)
      PROVE  Fingerprint(b) \in Fingerprints(win'.shown) \/ b # e.bubble
  <2>1. b.id[1] = t /\ b.text # NoText
    <3>1. b \in Bubble
      BY <1>1, BubblesTyped
    <3>2. b.text \in AllTexts
      BY <3>1 DEF Bubble
    <3>3. b.id[1] = t
      BY Sayings DEF Said, QuestionOf, AnswerOf
    <3> QED
      BY <3>2, <3>3
  <2>2. b \in AllBubbles
    BY <1>1, AllTyped
  <2>3. CASE Unheard({e.bubble.id[1]})
    BY <1>1, <1>8, <2>1, <2>3, UnheardDoes
  <2>4. CASE e.bubble.text = NoText
    BY <2>1, <2>4
  <2>5. CASE Shows(e.bubble)
    BY <1>5, <2>2, <2>5
  <2> QED
    BY <1>2, <2>3, <2>4, <2>5
<1>9. ASSUME NEW t \in Numbers', turns'[t].heard
      PROVE  /\ win'.live
             /\ Asks(t)' \in Fingerprints(win'.shown) \/ Awaits(QuestionOf(t))'
             /\ turns'[t].pc \in {"ending", "done"} /\ turns'[t].answer # NoText =>
                  Answers(t)' \in Fingerprints(win'.shown) \/ Awaits(AnswerOf(t))'
  <2>1. /\ t \in Numbers /\ turns[t].heard
        /\ Asks(t) \in Fingerprints(win.shown) \/ Awaits(QuestionOf(t))
        /\ turns[t].pc \in {"ending", "done"} /\ turns[t].answer # NoText =>
             Answers(t) \in Fingerprints(win.shown) \/ Awaits(AnswerOf(t))
    BY <1>1, <1>6, <1>9 DEF BusInv
  <2>2. QuestionOf(t) \in Bubbles(t)
    BY <1>1, <2>1, BubblesTyped
  <2>3. turns[t].answer # NoText => AnswerOf(t) \in Bubbles(t)
    BY DEF Bubbles
  <2>4. Answers(t)' = Answers(t) /\ AnswerOf(t)' = AnswerOf(t) /\ QuestionOf(t)' = QuestionOf(t)
    BY <1>1, <1>6, <2>1 DEF Answers, AnswerOf
  <2>5. Asks(t) \in Fingerprints(win'.shown) \/ Awaits(QuestionOf(t))'
    <3>1. PICK q : q = QuestionOf(t)
      OBVIOUS
    <3>2. q \in Bubbles(t) /\ Fingerprint(q) = Asks(t)
      BY <2>2, <3>1 DEF Asks
    <3>3. Fingerprint(q) \in Fingerprints(win.shown) \/ Awaits(q)
      BY <2>1, <3>1, <3>2 DEF Awaits
    <3>4. Fingerprint(q) \in Fingerprints(win'.shown) \/ Awaits(q)'
      BY <1>5, <1>7, <1>8, <1>9, <2>1, <3>2, <3>3
    <3> QED
      BY <2>4, <3>1, <3>2, <3>4 DEF Awaits
  <2>6. ASSUME turns[t].pc \in {"ending", "done"}, turns[t].answer # NoText
        PROVE  Answers(t) \in Fingerprints(win'.shown) \/ Awaits(AnswerOf(t))'
    <3>1. PICK q : q = AnswerOf(t)
      OBVIOUS
    <3>2. q \in Bubbles(t) /\ Fingerprint(q) = Answers(t)
      BY <2>3, <2>6, <3>1, AnswersLook
    <3>3. Fingerprint(q) \in Fingerprints(win.shown) \/ Awaits(q)
      BY <2>1, <2>6, <3>1, <3>2 DEF Awaits
    <3>4. Fingerprint(q) \in Fingerprints(win'.shown) \/ Awaits(q)'
      BY <1>5, <1>7, <1>8, <1>9, <2>1, <3>2, <3>3
    <3> QED
      BY <2>4, <3>1, <3>2, <3>4 DEF Awaits
  <2> QED
    BY <1>1, <1>2, <1>4, <1>6, <2>1, <2>4, <2>5, <2>6 DEF Awaits
<1>10. ASSUME NEW i \in 1 .. Len(bus')
       PROVE  bus'[i].bubble \in AllBubbles' \/ bus'[i].bubble.text = NoText
  <2>1. PICK j : j = i + 1
    OBVIOUS
  <2>2. j \in 1 .. Len(bus) /\ bus'[i] = bus[j]
    BY <1>3, <2>1
  <2> QED
    BY <1>1, <2>2 DEF BusInv
<1> QED
  BY <1>2, <1>4, <1>9, <1>10 DEF BusInv, Fingerprints

LEMMA BusStep ==
  ASSUME ChatInv, [Next]_vars, Onward, Stored \subseteq Stored'
  PROVE  BusInv'
<1>1. /\ ChatTypes /\ TypeOK /\ BusInv /\ WindowInv
      /\ AllBubbles \subseteq AllBubbles'
  BY BubblesStay DEF ChatInv, ChatTypes
<1>2. ASSUME bus' = bus, win'.live = win.live,
             Fingerprints(win.shown) \subseteq Fingerprints(win'.shown),
             \A t \in Numbers : turns'[t] = turns[t],
             \A t \in Numbers' \ Numbers : ~ turns'[t].heard
      PROVE  BusInv'
  BY <1>1, <1>2, BusStays
<1>3. ASSUME bus = <<>>, bus' = bus, ~ win.live, turns' = turns
      PROVE  BusInv'
  <2>1. \A t \in Numbers : ~ turns[t].heard
    BY <1>1, <1>3 DEF BusInv
  <2>2. \A t \in Numbers' : ~ turns'[t].heard
    BY <1>3, <2>1 DEF Numbers
  <2> QED
    BY <1>3, <2>2, BusEmpty
<1>4. ASSUME NEW t \in Numbers, Serve(t) PROVE BusInv'
  BY <1>4, ServeBus
<1>5. CASE Elsewhere
  <2>1. PICK rec : Fresh(rec) /\ turns' = Append(turns, rec)
    BY <1>5, ElsewhereAdds
  <2>2. PICK n : n = Len(turns) + 1
    OBVIOUS
  <2>3. /\ Numbers' = Numbers \union {n} /\ turns'[n] = rec
        /\ \A u \in Numbers : turns'[u] = turns[u]
    BY <1>1, <2>1, <2>2, AddedDoes
  <2>4. \A t \in Numbers' \ Numbers : ~ turns'[t].heard
    BY <2>1, <2>3 DEF Fresh
  <2>5. bus' = bus /\ win' = win
    BY <1>5 DEF Elsewhere
  <2> QED
    BY <1>2, <2>3, <2>4, <2>5
<1>6. CASE Open
  <2>1. ~ win.live /\ bus = <<>>
    BY <1>1, <1>6 DEF Open, WindowInv, BusInv
  <2> QED
    BY <1>3, <1>6, <2>1 DEF Open
<1>7. CASE Subscribe
  <2>1. ~ win.live /\ bus = <<>>
    BY <1>1, <1>7 DEF Subscribe, BusInv
  <2> QED
    BY <1>3, <1>7, <2>1 DEF Subscribe
<1>8. CASE Unsubscribe
  <2>1. bus' = <<>> /\ Unheard(Numbers)
    BY <1>8 DEF Unsubscribe
  <2>2. \A t \in Numbers' : ~ turns'[t].heard
    BY <1>1, <2>1, UnheardDoes
  <2> QED
    BY <2>1, <2>2, BusEmpty
<1>9. CASE Send
  <2>1. win'.live = win.live /\ bus' = bus
    BY <1>1, <1>9, SendDoes DEF Send
  <2>2. PICK n, b :
          /\ n \in Nat \ {0}
          /\ n \notin Numbers /\ Numbers' = Numbers \union {n}
          /\ \A u \in Numbers : turns'[u] = turns[u]
          /\ ~ turns'[n].heard
          /\ b \in AllBubbles' /\ Shows(b)
    BY <1>1, <1>9, SendAdds
  <2>3. Fingerprints(win.shown) \subseteq Fingerprints(win'.shown)
    BY <1>1, <2>2, ShowsKeeps
  <2> QED
    BY <1>2, <2>1, <2>2, <2>3
<1>10. CASE Hear
  BY <1>10, HearBus
<1>11. CASE Read
  <2>1. win'.live = win.live /\ (ShowsNothing \/ \E b \in AllBubbles : Shows(b))
    BY <1>11, ReadDoes
  <2>2. Fingerprints(win.shown) \subseteq Fingerprints(win'.shown)
    BY <1>1, <2>1, ShowsKeeps DEF ShowsNothing
  <2>3. bus' = bus /\ turns' = turns
    BY <1>11 DEF Read
  <2> QED
    BY <1>2, <2>1, <2>2, <2>3 DEF Numbers
<1>12. CASE UNCHANGED vars
  BY <1>2, <1>12 DEF vars, Numbers
<1> QED
  BY <1>4, <1>5, <1>6, <1>7, <1>8, <1>9, <1>10, <1>11, <1>12 DEF Next
-----------------------------------------------------------------------------
(* The theorems *)

LEMMA InitChat ==
  Init => ChatInv
<1> SUFFICES ASSUME Init PROVE ChatInv
  OBVIOUS
<1>1. /\ stored = <<>> /\ turns = <<>> /\ holder = 0 /\ clock = 0
      /\ bus = <<>> /\ stream = <<>>
  BY DEF Init
<1>2. /\ win \in Window /\ ~ win.open /\ ~ win.live /\ win.shown = {} /\ win.cache = {}
      /\ win.sending = 0 /\ win.draft = NoText
  <2>1. PICK user \in Users :
          win = [user |-> user, open |-> FALSE, live |-> FALSE, shown |-> {},
                 cache |-> {}, sending |-> 0, draft |-> NoText, settled |-> FALSE]
    BY DEF Init
  <2> QED
    BY <2>1 DEF Window
<1>3. Len(turns) = 0 /\ Numbers = {} /\ Begun = {}
  <2>1. Len(turns) = 0
    BY <1>1
  <2> QED
    BY <2>1 DEF Numbers, Begun
<1>4. Stored = {}
  BY <1>1 DEF Stored, Range
<1>5. Cardinality(Begun) = 0
  BY <1>3, FS_EmptySet
<1>6. /\ \A i \in 1 .. Len(stream) : FALSE
      /\ \A i \in 1 .. Len(bus) : FALSE
  BY <1>1
<1>7. /\ stored \in Seq(Rows) /\ turns \in Seq(Turn)
      /\ bus \in Seq(Events) /\ stream \in Seq(Events)
  BY <1>1, EmptySeq
<1>8. TypeOK
  BY <1>1, <1>2, <1>3, <1>7 DEF TypeOK, Rows
<1>9. ChatTypes
  BY <1>1, <1>3, <1>5, <1>7, <1>8 DEF ChatTypes
<1>10. RequestInv
  BY <1>3, <1>4 DEF RequestInv
<1>11. WindowInv
  BY <1>2, <1>3 DEF WindowInv, Alike
<1>12. StreamInv
  BY <1>1, <1>2, <1>3, <1>6 DEF StreamInv
<1>13. BusInv
  BY <1>1, <1>3, <1>6 DEF BusInv
<1> QED
  BY <1>9, <1>10, <1>11, <1>12, <1>13 DEF ChatInv

LEMMA ChatStep ==
  ChatInv /\ [Next]_vars => ChatInv'
<1> SUFFICES ASSUME ChatInv, [Next]_vars PROVE ChatInv'
  OBVIOUS
<1>1. ChatTypes'
  BY StepKeepsTypes
<1>2. Onward /\ Stored \subseteq Stored' /\ RequestInv'
  BY StepsKnown, RequestStep DEF ChatInv
<1> QED
  BY <1>1, <1>2, WindowStep, StreamStep, BusStep DEF ChatInv

\* The invariant holds of every reachable state of the live view.
THEOREM ChatInvariant == Spec => []ChatInv
<1>1. Init => ChatInv
  BY InitChat
<1>2. ChatInv /\ [Next]_vars => ChatInv'
  BY ChatStep
<1> QED
  BY <1>1, <1>2, PTL DEF Spec

\* Every state is well typed, and the row lock belongs to the one request between
\* its append and its end.
THEOREM ChatTypeCorrect == Spec => []TypeOK
<1>1. ChatInv => TypeOK
  BY DEF ChatInv, ChatTypes
<1> QED
  BY <1>1, ChatInvariant, PTL

LEMMA StoredFinite ==
  ASSUME TypeOK
  PROVE  IsFiniteSet(Stored)
<1>1. Len(stored) \in Nat /\ DOMAIN stored = 1 .. Len(stored)
  BY DEF TypeOK
<1>2. IsFiniteSet(1 .. Len(stored))
  BY <1>1, FS_Interval
<1> DEFINE told == [i \in 1 .. Len(stored) |-> stored[i].bubble]
<1>3. Stored = {told[i] : i \in 1 .. Len(stored)}
  BY <1>1 DEF Stored, Range
<1>4. told \in Surjection(1 .. Len(stored), Stored)
  BY <1>3 DEF Surjection
<1> HIDE DEF told
<1> QED
  BY <1>2, <1>4, FS_Surjection

\* However a message reaches the window, by its optimistic copy, the stream, the
\* bus, the done event or the page's data, it is shown no more often than the
\* ticket has it.
THEOREM NoMessageTwice == Spec => []NoDoubles
<1>1. ChatInv => NoDoubles
  <2> SUFFICES ASSUME ChatInv, NEW b \in win.shown
               PROVE  LET like(bubbles) ==
                            Cardinality({c \in bubbles : Fingerprint(c) = Fingerprint(b)})
                      IN like(win.shown) > 1 => like(win.shown) <= like(Stored)
    BY DEF NoDoubles
  <2> DEFINE Like(bubbles) == {c \in bubbles : Fingerprint(c) = Fingerprint(b)}
  <2>1. SUFFICES ASSUME Cardinality(Like(win.shown)) > 1
                 PROVE  Cardinality(Like(win.shown)) <= Cardinality(Like(Stored))
    OBVIOUS
  <2>2. \E c \in Like(win.shown) : c # b
    <3> SUFFICES ASSUME Like(win.shown) \subseteq {b} PROVE FALSE
      OBVIOUS
    <3>1. Like(win.shown) = {b}
      OBVIOUS
    <3>2. Cardinality({b}) = 1
      BY FS_Singleton
    <3> HIDE DEF Like
    <3> QED
      BY <2>1, <3>1, <3>2
  <2>3. Like(win.shown) \subseteq Like(Stored)
    BY <2>2 DEF ChatInv, WindowInv, Alike
  <2>4. IsFiniteSet(Like(Stored))
    BY StoredFinite, FS_Subset DEF ChatInv, ChatTypes
  <2> HIDE DEF Like
  <2> QED
    BY <2>3, <2>4, FS_Subset
<1> QED
  BY <1>1, ChatInvariant, PTL

\* An answer that was announced and committed is in the transcript, also where its
\* message was not stored because the last one said the same.
THEOREM AnswersKept == Spec => []AnswersAreKept
<1>1. ChatInv => AnswersAreKept
  <2> SUFFICES ASSUME ChatInv, NEW t \in Numbers,
                      turns[t].pc = "done", turns[t].answer # NoText
               PROVE  Answers(t) \in Fingerprints(Stored)
    BY DEF AnswersAreKept, Answers
  <2>1. /\ Flushed(t) \subseteq Stored
        /\ Answers(t) \in Fingerprints(Stored \union Flushed(t))
    BY DEF ChatInv, RequestInv, Request
  <2>2. Stored \union Flushed(t) = Stored
    BY <2>1
  <2> QED
    BY <2>1, <2>2
<1> QED
  BY <1>1, ChatInvariant, PTL

\* Whoever sent a message that was answered sees it, and a customer the answer,
\* also when the page was left in between and opened again.
THEOREM SendersSee == Spec => []SendersSeeTheirTurn
<1>1. ChatInv => SendersSeeTheirTurn
  <2> SUFFICES ASSUME ChatInv, NEW t \in Numbers, turns[t].own,
                      turns[t].pc \in {"ending", "done"}, win.open, win.sending # t
               PROVE  /\ Asks(t) \in Fingerprints(win.shown)
                      /\ turns[t].by = "customer" /\ turns[t].answer # NoText =>
                           Answers(t) \in Fingerprints(win.shown)
    BY DEF SendersSeeTheirTurn, Asks, Answers
  <2>1. Fingerprints(win.cache) \subseteq Fingerprints(win.shown)
    BY DEF ChatInv, WindowInv, Fingerprints
  <2>2. Asks(t) \in Fingerprints(win.cache)
    BY DEF ChatInv, WindowInv
  <2>3. turns[t].by = "customer" /\ turns[t].answer # NoText =>
          Answers(t) \in Fingerprints(win.cache)
    BY DEF ChatInv, StreamInv
  <2> QED
    BY <2>1, <2>2, <2>3
<1> QED
  BY <1>1, ChatInvariant, PTL

\* A window that was subscribed when a request's message went out, and neither lost
\* the connection nor sent while its events came, shows all of it.
THEOREM WatchersSee == Spec => []WatchersMissNothing
<1>1. ChatInv => WatchersMissNothing
  <2> SUFFICES ASSUME ChatInv, NEW t \in Numbers, turns[t].heard,
                      turns[t].pc \in {"ending", "done"}, bus = <<>>
               PROVE  /\ Asks(t) \in Fingerprints(win.shown)
                      /\ turns[t].answer # NoText => Answers(t) \in Fingerprints(win.shown)
    BY DEF WatchersMissNothing, Asks, Answers
  <2>1. \A b : ~ Awaits(b)
    BY DEF Awaits
  <2> QED
    BY <2>1 DEF ChatInv, BusInv
<1> QED
  BY <1>1, ChatInvariant, PTL

\* Of a request that was served to its end a window shows only what is in the
\* ticket: no streamed draft outlives the answer.
THEOREM NoPhantomsShown == Spec => []NoPhantoms
<1>1. ChatInv => NoPhantoms
  <2> SUFFICES ASSUME ChatInv, NEW b \in win.shown, turns[b.id[1]].pc = "done"
               PROVE  Fingerprint(b) \in Fingerprints(Stored)
    BY DEF NoPhantoms
  <2>1. PICK t \in Numbers : b \in Bubbles(t)
    BY DEF ChatInv, WindowInv, AllBubbles
  <2>2. b.id[1] = t
    BY <2>1, Sayings DEF Said, QuestionOf, AnswerOf
  <2>3. /\ QuestionOf(t) \in Stored
        /\ turns[t].answer # NoText => Answers(t) \in Fingerprints(Stored)
    <3>1. Request(t) /\ turns[t].pc = "done"
      BY <2>2 DEF ChatInv, RequestInv
    <3>2. Stored \union Flushed(t) = Stored
      BY <3>1 DEF Request
    <3> QED
      BY <3>1, <3>2 DEF Request
  <2>4. CASE Fingerprint(b) = Asks(t)
    BY <2>3, <2>4 DEF Asks, Fingerprints
  <2>5. CASE Fingerprint(b) = Answers(t) /\ turns[t].answer # NoText
    BY <2>3, <2>5
  <2>6. \/ Fingerprint(b) = Asks(t)
        \/ Fingerprint(b) = Answers(t) /\ turns[t].answer # NoText
    <3>1. /\ Fingerprint(Said(t, "local", turns[t].by, turns[t].text)) = Asks(t)
          /\ Fingerprint(Said(t, "answer", "assistant", turns[t].answer)) = Answers(t)
      BY DEF Asks, Answers, QuestionOf, Fingerprint, Family, Agents, Said
    <3>2. turns[t].pc \notin Broken
      BY <2>2 DEF Broken
    <3> QED
      BY <2>1, <3>1, <3>2, Sayings, AnswersLook DEF Asks
  <2> QED
    BY <2>4, <2>5, <2>6
<1> QED
  BY <1>1, ChatInvariant, PTL
=============================================================================
