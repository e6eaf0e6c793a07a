-------------------------- MODULE RnshListener_proofs --------------------------
(***************************************************************************)
(* Proofs about RnshListener for any links, identities, commands, allow    *)
(* list and size of the event channel, honest peers or not: the types, the *)
(* gate of the allow list and the command a session executes.              *)
(***************************************************************************)
EXTENDS RnshListener, SequenceTheorems, TLAPS

--------------------------------------------------------------------------------
(* The inductive invariant.                                                *)

Kinds == {p[1] : p \in Payloads}
Args == {p[2] : p \in Payloads}
Events == [link : Link, kind : Kinds, arg : Args]

\* Nothing is in the channel that its link has not given rise to.
QueueSent ==
  \A k \in DOMAIN queue : <<queue[k].kind, queue[k].arg>> \in sent[queue[k].link]

Begins(k, l) == queue[k].kind = "activated" /\ queue[k].link = l

\* A link is activated once: its event is in the channel, or it has been taken, or it is
\* lost, but no two of these.
ActivatedOnce ==
  \A l \in Link :
    /\ l \in tried => <<"activated", None>> \in sent[l]
    /\ \A k \in DOMAIN queue : Begins(k, l) => l \notin tried
    /\ \A j, k \in DOMAIN queue : Begins(j, l) /\ Begins(k, l) => j = k

\* Only a link that was tried has a session or was refused; the one whose handshake is
\* under way neither has nor was.
Untouched ==
  /\ \A l \in Link : session[l] # None \/ l \in refused => l \in tried
  /\ current # NoLink =>
       current \in tried /\ session[current] = None /\ current \notin refused

\* What the handshake has noted was sent by its own link.
HandshakeTruth ==
  current # NoLink =>
    /\ hs.authed /\ AuthRequired => \E i \in Allowed : <<"identified", i>> \in sent[current]
    /\ hs.ver => current \in replied /\ <<"version", None>> \in sent[current]
    /\ hs.exec => <<"exec", hs.cmd>> \in sent[current]

ListenerInv ==
  /\ ListenerTypeOK
  /\ QueueSent
  /\ ActivatedOnce
  /\ Untouched
  /\ HandshakeTruth
  /\ AuthGate
  /\ OwnCommand

\* The part that is about the channel.
ChannelInv ==
  /\ queue \in Seq(Events) /\ Len(queue) <= Capacity
  /\ QueueSent
  /\ ActivatedOnce

--------------------------------------------------------------------------------
(* The channel.                                                            *)

\* What a payload is made of.
LEMMA PayloadParts ==
  /\ \A p \in Payloads : p[1] \in Kinds /\ p[2] \in Args /\ p = <<p[1], p[2]>>
  /\ \A c : <<"exec", c>> \in Payloads <=> c \in Cmd
  /\ <<"activated", None>> \in Payloads /\ <<"closed", None>> \in Payloads
BY DEF Payloads, Kinds, Args

\* An event that is published comes last; of those before it the oldest one may go.
LEMMA Published ==
  ASSUME ListenerTypeOK, NEW l \in Link, NEW k, NEW a, <<k, a>> \in Payloads, Publish(l, k, a)
  PROVE  /\ queue' \in Seq(Events) /\ Len(queue') <= Capacity /\ Len(queue') > 0
         /\ lagged' \in BOOLEAN
         /\ queue'[Len(queue')] = Ev(l, k, a)
         /\ \E d \in {0, 1} : \A j \in 1 .. (Len(queue') - 1) :
              j + d \in DOMAIN queue /\ queue'[j] = queue[j + d]
<1> DEFINE e == Ev(l, k, a)
           old == IF Len(queue) < Capacity THEN queue ELSE Tail(queue)
<1>1. queue \in Seq(Events) /\ Len(queue) <= Capacity /\ Capacity \in Nat \ {0} /\ Len(queue) \in Nat
  BY ListenerAssumption, LenProperties DEF ListenerTypeOK, Events, Kinds, Args
<1>2. e \in Events
  BY PayloadParts DEF Ev, Events
<1>3. queue' = Append(old, e) /\ lagged' \in BOOLEAN
  BY DEF Publish
<1>4. \E d \in {0, 1} :
        /\ old \in Seq(Events) /\ Len(old) = Len(queue) - d /\ Len(old) < Capacity
        /\ \A j \in 1 .. Len(old) : j + d \in DOMAIN queue /\ old[j] = queue[j + d]
  <2>1. CASE Len(queue) < Capacity
    BY <1>1, <2>1
  <2>2. CASE ~(Len(queue) < Capacity)
    <3>1. queue # <<>> /\ old = Tail(queue)
      BY <1>1, <2>2
    <3>2. /\ old \in Seq(Events) /\ Len(old) = Len(queue) - 1
          /\ \A j \in 1 .. Len(old) : old[j] = queue[j + 1]
      BY <1>1, <3>1, HeadTailProperties
    <3>3. \A j \in 1 .. Len(old) : j + 1 \in DOMAIN queue
      BY <1>1, <3>2
    <3>4. Len(queue) - 1 < Capacity
      BY <1>1
    <3>5. QED
      BY <3>2, <3>3, <3>4
  <2>3. QED
    BY <2>1, <2>2
<1> HIDE DEF e, old
<1>5. PICK d \in {0, 1} :
        /\ old \in Seq(Events) /\ Len(old) = Len(queue) - d /\ Len(old) < Capacity
        /\ \A j \in 1 .. Len(old) : j + d \in DOMAIN queue /\ old[j] = queue[j + d]
  BY <1>4
<1>6. /\ queue' \in Seq(Events) /\ Len(queue') = Len(old) + 1 /\ Len(old) \in Nat
      /\ queue'[Len(old) + 1] = e
      /\ \A j \in 1 .. Len(old) : queue'[j] = old[j]
  BY <1>2, <1>3, <1>5, AppendProperties, LenProperties
<1>7. 1 .. (Len(queue') - 1) = 1 .. Len(old)
  BY <1>6
<1>8. \A j \in 1 .. (Len(queue') - 1) : j + d \in DOMAIN queue /\ queue'[j] = queue[j + d]
  BY <1>5, <1>6, <1>7
<1>9. QED
  BY SMTT(20), <1>1, <1>3, <1>5, <1>6, <1>8 DEF e

\* An event of a link that is published keeps the channel as it should be.
LEMMA PublishedKeeps ==
  ASSUME ListenerInv, NEW l \in Link, NEW k, NEW a, <<k, a>> \in Payloads, Publish(l, k, a),
         k = "activated" => sent[l] = {}, tried' = tried
  PROVE  ChannelInv' /\ lagged' \in BOOLEAN
<1>1. /\ queue' \in Seq(Events) /\ Len(queue') <= Capacity /\ Len(queue') > 0
      /\ lagged' \in BOOLEAN
      /\ queue'[Len(queue')] = Ev(l, k, a)
  BY Published DEF ListenerInv
<1>2. PICK d \in {0, 1} : \A j \in 1 .. (Len(queue') - 1) :
              j + d \in DOMAIN queue /\ queue'[j] = queue[j + d]
  BY Published DEF ListenerInv
<1>3. sent \in [Link -> SUBSET Payloads] /\ sent' = [sent EXCEPT ![l] = @ \cup {<<k, a>>}]
  BY DEF ListenerInv, ListenerTypeOK, Publish
<1>4. /\ \A m \in Link : sent[m] \subseteq sent'[m]
      /\ <<k, a>> \in sent'[l]
      /\ DOMAIN queue' = 1 .. Len(queue')
      /\ \A j \in DOMAIN queue : queue[j].link \in Link
  <2>1. \A j \in DOMAIN queue : queue[j] \in Events
    <3>1. queue \in Seq(Events)
      BY DEF ListenerInv, ListenerTypeOK, Events, Kinds, Args
    <3>2. QED
      BY <3>1, ElementOfSeq, LenProperties
  <2>2. QED
    BY <1>1, <1>3, <2>1, LenProperties DEF Events
<1>5. Ev(l, k, a).link = l /\ Ev(l, k, a).kind = k /\ Ev(l, k, a).arg = a
  BY DEF Ev
<1>6. QueueSent'
  <2>1. ASSUME NEW j \in DOMAIN queue' PROVE <<queue'[j].kind, queue'[j].arg>> \in sent'[queue'[j].link]
    <3>1. CASE j = Len(queue')
      BY <1>1, <1>4, <1>5, <3>1
    <3>2. CASE j # Len(queue')
      <4>1. j \in 1 .. (Len(queue') - 1)
        BY <1>1, <1>4, <3>2
      <4>2. j + d \in DOMAIN queue /\ queue'[j] = queue[j + d]
        BY <1>2, <4>1
      <4>3. QED
        BY <1>4, <4>2 DEF ListenerInv, QueueSent
    <3>3. QED
      BY <3>1, <3>2
  <2>2. QED
    BY <2>1 DEF QueueSent
<1>7. ActivatedOnce'
  <2>1. ASSUME NEW m \in Link, m \in tried' PROVE <<"activated", None>> \in sent'[m]
    BY <1>4, <2>1 DEF ListenerInv, ActivatedOnce
  <2>2. ASSUME NEW m \in Link, NEW j \in DOMAIN queue', Begins(j, m)'
        PROVE  \/ j = Len(queue') /\ m = l /\ k = "activated"
               \/ j \in 1 .. (Len(queue') - 1) /\ j + d \in DOMAIN queue /\ Begins(j + d, m)
    <3>1. CASE j = Len(queue')
      BY <1>1, <1>5, <2>2, <3>1 DEF Begins
    <3>2. CASE j # Len(queue')
      <4>1. j \in 1 .. (Len(queue') - 1)
        BY <1>1, <1>4, <3>2
      <4>2. QED
        BY <1>2, <2>2, <4>1 DEF Begins
    <3>3. QED
      BY <3>1, <3>2
  <2>3. ASSUME k = "activated" PROVE l \notin tried /\ \A j \in DOMAIN queue : ~Begins(j, l)
    BY <2>3 DEF ListenerInv, ActivatedOnce, QueueSent, Begins
  <2>4. ASSUME NEW m \in Link, NEW j \in DOMAIN queue', Begins(j, m)' PROVE m \notin tried'
    BY <2>2, <2>3, <2>4 DEF ListenerInv, ActivatedOnce
  <2>5. ASSUME NEW m \in Link, NEW i \in DOMAIN queue', NEW j \in DOMAIN queue',
               Begins(i, m)', Begins(j, m)'
        PROVE  i = j
    <3>1. CASE i = Len(queue') /\ j = Len(queue')
      BY <3>1
    <3>2. CASE i # Len(queue') /\ j # Len(queue')
      <4>1. i + d = j + d
        BY <2>2, <2>5, <3>2 DEF ListenerInv, ActivatedOnce
      <4>2. QED
        BY <1>1, <1>4, <4>1
    <3>3. CASE (i = Len(queue')) # (j = Len(queue'))
      BY <2>2, <2>3, <2>5, <3>3
    <3>4. QED
      BY <3>1, <3>2, <3>3
  <2>6. QED
    BY <2>1, <2>4, <2>5 DEF ActivatedOnce
<1>8. QED
  BY <1>1, <1>6, <1>7 DEF ChannelInv

\* Taking an event leaves the others; the one that is taken was sent by its link.
LEMMA Taken ==
  ASSUME ListenerInv, Take
  PROVE  /\ Head(queue) \in Events
         /\ 1 \in DOMAIN queue /\ Head(queue) = queue[1]
         /\ <<Head(queue).kind, Head(queue).arg>> \in sent[Head(queue).link]
         /\ queue' \in Seq(Events) /\ Len(queue') <= Capacity
         /\ \A j \in DOMAIN queue' : j + 1 \in DOMAIN queue /\ queue'[j] = queue[j + 1] /\ j + 1 # 1
<1>1. queue \in Seq(Events) /\ Len(queue) <= Capacity /\ Capacity \in Nat /\ Len(queue) \in Nat
      /\ DOMAIN queue = 1 .. Len(queue)
  BY ListenerAssumption, LenProperties DEF ListenerInv, ListenerTypeOK, Events, Kinds, Args
<1>2. queue # <<>> /\ queue' = Tail(queue)
  BY DEF Take
<1>3. /\ Head(queue) \in Events /\ queue' \in Seq(Events) /\ Len(queue') = Len(queue) - 1
      /\ \A j \in 1 .. Len(queue') : queue'[j] = queue[j + 1]
  BY <1>1, <1>2, HeadTailProperties
<1>4. DOMAIN queue' = 1 .. Len(queue') /\ Len(queue') \in Nat
  BY <1>3, LenProperties
<1>5. 1 \in DOMAIN queue /\ Head(queue) = queue[1]
  BY <1>1, <1>2, <1>3, <1>4
<1>6. <<Head(queue).kind, Head(queue).arg>> \in sent[Head(queue).link]
  BY <1>5 DEF ListenerInv, QueueSent
<1>7. QED
  BY <1>1, <1>3, <1>4, <1>5, <1>6

\* No link that was begun before is begun by the event that is taken.
LEMMA TakenKeeps ==
  ASSUME ListenerInv, Take, sent' = sent,
         \/ tried' = tried
         \/ Head(queue).kind = "activated" /\ tried' = tried \cup {Head(queue).link}
  PROVE  ChannelInv'
<1>1. /\ 1 \in DOMAIN queue /\ Head(queue) = queue[1]
      /\ Head(queue) \in Events
      /\ <<Head(queue).kind, Head(queue).arg>> \in sent[Head(queue).link]
      /\ queue' \in Seq(Events) /\ Len(queue') <= Capacity
      /\ \A j \in DOMAIN queue' : j + 1 \in DOMAIN queue /\ queue'[j] = queue[j + 1] /\ j + 1 # 1
  BY Taken
<1>2. QueueSent'
  BY <1>1 DEF ListenerInv, QueueSent
<1>3. \A l \in Link, j \in DOMAIN queue' : Begins(j, l)' => Begins(j + 1, l)
  BY <1>1 DEF Begins
<1>4. ASSUME NEW l \in Link, l \in tried' PROVE <<"activated", None>> \in sent'[l]
  <2>1. CASE l \in tried
    BY <2>1 DEF ListenerInv, ActivatedOnce
  <2>2. CASE l \notin tried
    <3>1. Head(queue).kind = "activated" /\ l = Head(queue).link
      BY <1>4, <2>2
    <3>2. <<"activated", Head(queue).arg>> \in sent[l] /\ sent[l] \subseteq Payloads
      BY <1>1, <3>1 DEF ListenerInv, ListenerTypeOK
    <3>3. Head(queue).arg = None
      BY <3>2 DEF Payloads
    <3>4. QED
      BY <3>2, <3>3
  <2>3. QED
    BY <2>1, <2>2
<1>5. ASSUME NEW l \in Link, NEW j \in DOMAIN queue', Begins(j, l)' PROVE l \notin tried'
  <2>1. l \notin tried /\ (Begins(1, l) => j + 1 = 1)
    BY <1>1, <1>3, <1>5 DEF ListenerInv, ActivatedOnce
  <2>2. QED
    BY <1>1, <2>1 DEF Begins
<1>6. ASSUME NEW l \in Link, NEW i \in DOMAIN queue', NEW j \in DOMAIN queue',
             Begins(i, l)', Begins(j, l)'
      PROVE  i = j
  <2>1. i + 1 = j + 1
    BY <1>1, <1>3, <1>6 DEF ListenerInv, ActivatedOnce
  <2>2. i \in Int /\ j \in Int
    BY <1>1, LenProperties
  <2>3. QED
    BY <2>1, <2>2
<1>7. QED
  BY <1>1, <1>2, <1>4, <1>5, <1>6 DEF ChannelInv, ActivatedOnce

\* A step that leaves the channel alone.
LEMMA ChannelStays ==
  ASSUME ListenerInv, UNCHANGED <<queue, sent, tried>>
  PROVE  ChannelInv'
<1>1. queue \in Seq(Events) /\ Len(queue) <= Capacity
  BY DEF ListenerInv, ListenerTypeOK, Events, Kinds, Args
<1>2. QueueSent' /\ ActivatedOnce'
  BY DEF ListenerInv, QueueSent, ActivatedOnce, Begins
<1>3. QED
  BY <1>1, <1>2 DEF ChannelInv

--------------------------------------------------------------------------------
(* The handshake.                                                          *)

\* What the invariant says of a link that no handshake is under way for stays true when
\* only more is known: of what was sent, tried, answered and refused.
LEMMA SessionsStay ==
  ASSUME ListenerInv, session' = session, refused' = refused,
         \A l \in Link : sent[l] \subseteq sent'[l], replied \subseteq replied'
  PROVE  AuthGate' /\ OwnCommand'
BY DEF ListenerInv, AuthGate, OwnCommand, AuthRequired

\* An event of a peer changes nothing but the channel.
LEMMA PeerHolds ==
  ASSUME ListenerInv, NEW l \in Link, NEW k, NEW a, <<k, a>> \in Payloads, Publish(l, k, a),
         k = "activated" => sent[l] = {},
         linkUp' \subseteq Link, UNCHANGED <<pc, current, hs, expired, session, replied, refused, tried>>
  PROVE  ListenerInv'
<1>1. ChannelInv' /\ lagged' \in BOOLEAN
  BY PublishedKeeps
<1>2. /\ sent' \in [Link -> SUBSET Payloads]
      /\ \A m \in Link : sent[m] \subseteq sent'[m]
  BY DEF ListenerInv, ListenerTypeOK, Publish
<1>3. ListenerTypeOK'
  BY <1>1, <1>2 DEF ListenerInv, ListenerTypeOK, ChannelInv, Events, Kinds, Args
<1>4. Untouched'
  BY DEF ListenerInv, Untouched
<1>5. HandshakeTruth'
  BY <1>2 DEF ListenerInv, ListenerTypeOK, HandshakeTruth, NoLink, AuthRequired
<1>6. AuthGate' /\ OwnCommand'
  BY <1>2, SessionsStay
<1>7. QED
  BY <1>1, <1>3, <1>4, <1>5, <1>6 DEF ListenerInv, ChannelInv

\* A handshake ends, and may end with a refusal: the link has no session and gets none.
LEMMA AbandonHolds ==
  ASSUME ListenerInv, pc = "handshake", ChannelInv', lagged' \in BOOLEAN, Abandon,
         refused' = refused \/ Refuse,
         replied \subseteq replied', replied' \subseteq replied \cup {current},
         UNCHANGED <<linkUp, sent, tried>>
  PROVE  ListenerInv'
<1>1. ListenerTypeOK /\ current \in Link /\ current \in tried /\ session[current] = None
  BY DEF ListenerInv, ListenerTypeOK, Untouched
<1>2. pc' = "accept" /\ current' = NoLink /\ hs' = Fresh /\ expired' = FALSE /\ session' = session
  BY DEF Abandon
<1>3. refused \subseteq refused' /\ refused' \subseteq refused \cup {current}
  BY DEF Refuse
<1>4. Fresh \in [ver : BOOLEAN, exec : BOOLEAN, authed : BOOLEAN, cmd : Cmd]
  BY ListenerAssumption DEF Fresh, AuthRequired
<1>5. ListenerTypeOK'
  BY <1>1, <1>2, <1>3, <1>4 DEF ListenerTypeOK, ChannelInv, Events, Kinds, Args
<1>6. Untouched' /\ HandshakeTruth'
  BY <1>1, <1>2, <1>3 DEF ListenerInv, Untouched, HandshakeTruth
<1>7. AuthGate' /\ OwnCommand'
  BY <1>1, <1>2, <1>3 DEF ListenerInv, AuthGate, OwnCommand, AuthRequired
<1>8. QED
  BY <1>5, <1>6, <1>7 DEF ListenerInv, ChannelInv

\* The handshake goes on with what its own link has sent, or is complete and makes the
\* session of it.
LEMMA ContinueHolds ==
  ASSUME ListenerInv, pc = "handshake", ChannelInv', lagged' \in BOOLEAN,
         NEW h \in [ver : BOOLEAN, exec : BOOLEAN, authed : BOOLEAN, cmd : Cmd], Continue(h),
         h.authed /\ AuthRequired => \E i \in Allowed : <<"identified", i>> \in sent[current],
         h.ver => current \in replied' /\ <<"version", None>> \in sent[current],
         h.exec => <<"exec", h.cmd>> \in sent[current],
         replied \subseteq replied', replied' \subseteq replied \cup {current},
         UNCHANGED <<refused, linkUp, sent, tried>>
  PROVE  ListenerInv'
<1>1. /\ ListenerTypeOK /\ current \in Link /\ current # NoLink
      /\ current \in tried /\ session[current] = None /\ current \notin refused
  BY DEF ListenerInv, ListenerTypeOK, Untouched
<1>2. CASE ~Complete(h) /\ ~expired
  <2>1. hs' = h /\ pc' = pc /\ current' = current /\ expired' = expired /\ session' = session
    BY <1>2 DEF Continue
  <2>2. ListenerTypeOK'
    BY <1>1, <2>1 DEF ListenerTypeOK, ChannelInv, Events, Kinds, Args
  <2>3. Untouched' /\ HandshakeTruth'
    BY <1>1, <2>1 DEF ListenerInv, Untouched, HandshakeTruth, AuthRequired
  <2>4. AuthGate' /\ OwnCommand'
    BY <2>1, SessionsStay
  <2>5. QED
    BY <2>2, <2>3, <2>4 DEF ListenerInv, ChannelInv
<1>3. CASE Complete(h)
  <2>1. /\ session' = [session EXCEPT ![current] = Chosen(h.cmd)]
        /\ pc' = "accept" /\ current' = NoLink /\ hs' = Fresh /\ expired' = FALSE
    BY <1>3 DEF Continue
  <2>2. h.ver /\ h.exec /\ h.authed
    BY <1>3 DEF Complete
  <2>3. Chosen(h.cmd) \in Cmd \cup {Shell}
    BY ListenerAssumption DEF Chosen
  <2>4. Fresh \in [ver : BOOLEAN, exec : BOOLEAN, authed : BOOLEAN, cmd : Cmd]
    BY ListenerAssumption DEF Fresh, AuthRequired
  <2>5. session' \in [Link -> Cmd \cup {Shell, None}]
    BY <1>1, <2>1, <2>3 DEF ListenerTypeOK
  <2>6. ListenerTypeOK'
    BY <1>1, <2>1, <2>4, <2>5 DEF ListenerTypeOK, ChannelInv, Events, Kinds, Args
  <2>7. /\ session'[current] = Chosen(h.cmd)
        /\ \A l \in Link \ {current} : session'[l] = session[l]
    BY <1>1, <2>1 DEF ListenerTypeOK
  <2>8. Untouched' /\ HandshakeTruth'
    BY <1>1, <2>1, <2>7 DEF ListenerInv, Untouched, HandshakeTruth
  <2>9. AuthGate'
    BY <1>1, <2>2, <2>7 DEF ListenerInv, AuthGate, AuthRequired
  <2>10. OwnCommand'
    <3>1. ASSUME NEW l \in Link, session'[l] # None
          PROVE  /\ l \in replied' /\ <<"version", None>> \in sent'[l]
                 /\ \E c \in Cmd : <<"exec", c>> \in sent'[l] /\ session'[l] = Chosen(c)
      <4>1. CASE l = current
        <5>1. h.cmd \in Cmd
          OBVIOUS
        <5>2. QED
          BY <2>2, <2>7, <4>1, <5>1
      <4>2. CASE l # current
        BY <2>7, <3>1, <4>2 DEF ListenerInv, OwnCommand
      <4>3. QED
        BY <4>1, <4>2
    <3>2. QED
      BY <3>1 DEF OwnCommand
  <2>11. QED
    BY <2>6, <2>8, <2>9, <2>10 DEF ListenerInv, ChannelInv
<1>4. CASE ~Complete(h) /\ expired
  <2>1. Abandon
    BY <1>4 DEF Continue
  <2>2. QED
    BY <2>1, AbandonHolds
<1>5. QED
  BY <1>2, <1>3, <1>4

\* An event the listener has no use for.
LEMMA SkipHolds ==
  ASSUME ListenerInv, ChannelInv', lagged' \in BOOLEAN,
         \/ pc' = pc
         \/ pc = "accept" /\ pc' = "ended",
         UNCHANGED <<current, hs, expired, session, replied, refused, linkUp, sent, tried>>
  PROVE  ListenerInv'
<1>1. ListenerTypeOK'
  BY DEF ListenerInv, ListenerTypeOK, ChannelInv, Events, Kinds, Args
<1>2. Untouched' /\ HandshakeTruth' /\ AuthGate' /\ OwnCommand'
  BY DEF ListenerInv, Untouched, HandshakeTruth, AuthGate, OwnCommand, AuthRequired
<1>3. QED
  BY <1>1, <1>2 DEF ListenerInv, ChannelInv

--------------------------------------------------------------------------------
(* One lemma per kind of step of the listener.                             *)

\* A handshake is begun for a link no handshake was begun for.
LEMMA AcceptHolds == ASSUME ListenerInv, Accept PROVE ListenerInv'
<1> DEFINE l == Head(queue).link
<1>1. /\ pc = "accept" /\ Take /\ Head(queue).kind = "activated"
      /\ tried' = tried \cup {l} /\ expired' = FALSE
      /\ UNCHANGED <<session, replied, refused, linkUp, sent>>
      /\ \/ pc' = "handshake" /\ current' = l /\ hs' = Fresh
         \/ UNCHANGED <<pc, current, hs>>
  BY DEF Accept
<1>2. ChannelInv'
  BY <1>1, TakenKeeps
<1>3. l \in Link /\ 1 \in DOMAIN queue /\ Begins(1, l)
  BY <1>1, Taken DEF Events, Begins
<1>4. l \notin tried
  BY <1>3 DEF ListenerInv, ActivatedOnce
<1>5. session[l] = None /\ l \notin refused
  BY <1>3, <1>4 DEF ListenerInv, Untouched
<1>6. lagged' \in BOOLEAN /\ ListenerTypeOK /\ current = NoLink /\ l # NoLink
  BY <1>1, <1>3, ListenerAssumption DEF Take, ListenerInv, ListenerTypeOK, NoLink
<1>7. Fresh \in [ver : BOOLEAN, exec : BOOLEAN, authed : BOOLEAN, cmd : Cmd]
  BY ListenerAssumption DEF Fresh, AuthRequired
<1> HIDE DEF l
<1>8. ListenerTypeOK'
  BY <1>1, <1>2, <1>3, <1>6, <1>7 DEF ListenerTypeOK, ChannelInv, Events, Kinds, Args
<1>9. Untouched'
  BY <1>1, <1>5, <1>6 DEF ListenerInv, Untouched
<1>10. HandshakeTruth'
  <2>1. ~Fresh.ver /\ ~Fresh.exec /\ ~(Fresh.authed /\ AuthRequired)
    BY DEF Fresh, AuthRequired
  <2>2. QED
    BY <1>1, <1>6, <2>1 DEF HandshakeTruth, AuthRequired
<1>11. AuthGate' /\ OwnCommand'
  BY <1>1, SessionsStay
<1>12. QED
  BY <1>2, <1>8, <1>9, <1>10, <1>11 DEF ListenerInv, ChannelInv

\* What the handshake takes was sent by the link it is about.
LEMMA Own ==
  ASSUME ListenerInv, NEW k, Mine(k), UNCHANGED <<sent, tried>>
  PROVE  /\ pc = "handshake" /\ current \in Link /\ current # NoLink
         /\ <<k, Head(queue).arg>> \in sent[current]
         /\ <<k, Head(queue).arg>> \in Payloads
         /\ hs \in [ver : BOOLEAN, exec : BOOLEAN, authed : BOOLEAN, cmd : Cmd]
         /\ HandshakeTruth
         /\ ChannelInv' /\ lagged' \in BOOLEAN
<1>1. Take /\ pc = "handshake" /\ Head(queue).kind = k /\ Head(queue).link = current
  BY DEF Mine
<1>2. <<Head(queue).kind, Head(queue).arg>> \in sent[Head(queue).link]
  BY <1>1, Taken
<1>3. current \in Link /\ current # NoLink /\ sent[current] \subseteq Payloads
  BY <1>1 DEF ListenerInv, ListenerTypeOK
<1>4. ChannelInv'
  BY <1>1, TakenKeeps
<1>5. /\ lagged' \in BOOLEAN /\ HandshakeTruth
      /\ hs \in [ver : BOOLEAN, exec : BOOLEAN, authed : BOOLEAN, cmd : Cmd]
  BY <1>1 DEF Take, ListenerInv, ListenerTypeOK
<1>6. QED
  BY <1>1, <1>2, <1>3, <1>4, <1>5

LEMMA IdentifiedHolds == ASSUME ListenerInv, Identified PROVE ListenerInv'
<1> DEFINE i == Head(queue).arg
           h == [hs EXCEPT !.authed = TRUE]
<1>1. /\ Mine("identified") /\ UNCHANGED <<replied, linkUp, sent, tried>>
      /\ \/ Refuse /\ Abandon
         \/ (AuthRequired => i \in Allowed) /\ Continue(h) /\ UNCHANGED refused
  BY DEF Identified
<1>2. /\ pc = "handshake" /\ current # NoLink
      /\ <<"identified", i>> \in sent[current]
      /\ hs \in [ver : BOOLEAN, exec : BOOLEAN, authed : BOOLEAN, cmd : Cmd]
      /\ HandshakeTruth
      /\ ChannelInv' /\ lagged' \in BOOLEAN
  BY <1>1, Own
<1>3. CASE Refuse /\ Abandon
  BY <1>1, <1>2, <1>3, AbandonHolds
<1>4. CASE (AuthRequired => i \in Allowed) /\ Continue(h) /\ UNCHANGED refused
  <2>1. /\ h \in [ver : BOOLEAN, exec : BOOLEAN, authed : BOOLEAN, cmd : Cmd]
        /\ h.ver = hs.ver /\ h.exec = hs.exec /\ h.cmd = hs.cmd
    BY <1>2
  <2>2. /\ hs.ver => current \in replied /\ <<"version", None>> \in sent[current]
        /\ hs.exec => <<"exec", hs.cmd>> \in sent[current]
    BY <1>2 DEF HandshakeTruth
  <2>3. AuthRequired => \E j \in Allowed : <<"identified", j>> \in sent[current]
    BY <1>2, <1>4
  <2> HIDE DEF h
  <2>4. QED
    BY <1>1, <1>2, <1>4, <2>1, <2>2, <2>3, ContinueHolds
<1>5. QED
  BY <1>1, <1>3, <1>4

LEMMA VersionHolds == ASSUME ListenerInv, Version PROVE ListenerInv'
<1> DEFINE h == [hs EXCEPT !.ver = TRUE]
<1>1. /\ Mine("version") /\ UNCHANGED <<refused, linkUp, sent, tried>>
      /\ \/ Continue(h) /\ replied' = replied \cup {current}
         \/ Abandon /\ UNCHANGED replied
  BY DEF Version
<1>2. /\ pc = "handshake" /\ current # NoLink
      /\ <<"version", Head(queue).arg>> \in sent[current]
      /\ <<"version", Head(queue).arg>> \in Payloads
      /\ hs \in [ver : BOOLEAN, exec : BOOLEAN, authed : BOOLEAN, cmd : Cmd]
      /\ HandshakeTruth
      /\ ChannelInv' /\ lagged' \in BOOLEAN
  BY <1>1, Own
<1>3. CASE Abandon /\ UNCHANGED replied
  BY <1>1, <1>2, <1>3, AbandonHolds
<1>4. CASE Continue(h) /\ replied' = replied \cup {current}
  <2>1. /\ h \in [ver : BOOLEAN, exec : BOOLEAN, authed : BOOLEAN, cmd : Cmd]
        /\ h.authed = hs.authed /\ h.exec = hs.exec /\ h.cmd = hs.cmd
    BY <1>2
  <2>2. /\ hs.authed /\ AuthRequired => \E j \in Allowed : <<"identified", j>> \in sent[current]
        /\ hs.exec => <<"exec", hs.cmd>> \in sent[current]
    BY <1>2 DEF HandshakeTruth
  <2>3. Head(queue).arg = None
    BY <1>2 DEF Payloads
  <2> HIDE DEF h
  <2>4. QED
    BY <1>1, <1>2, <1>4, <2>1, <2>2, <2>3, ContinueHolds
<1>5. QED
  BY <1>1, <1>3, <1>4

LEMMA ExecHolds == ASSUME ListenerInv, Exec PROVE ListenerInv'
<1> DEFINE c == Head(queue).arg
           h == [hs EXCEPT !.exec = TRUE, !.cmd = c]
<1>1. Mine("exec") /\ Continue(h) /\ UNCHANGED <<replied, refused, linkUp, sent, tried>>
  BY DEF Exec
<1>2. /\ pc = "handshake" /\ current # NoLink
      /\ <<"exec", c>> \in sent[current] /\ <<"exec", c>> \in Payloads
      /\ hs \in [ver : BOOLEAN, exec : BOOLEAN, authed : BOOLEAN, cmd : Cmd]
      /\ HandshakeTruth
      /\ ChannelInv' /\ lagged' \in BOOLEAN
  BY <1>1, Own
<1>3. c \in Cmd
  BY <1>2, PayloadParts
<1> HIDE DEF c
<1>4. /\ h \in [ver : BOOLEAN, exec : BOOLEAN, authed : BOOLEAN, cmd : Cmd]
      /\ h.authed = hs.authed /\ h.ver = hs.ver /\ h.cmd = c
  BY <1>2, <1>3
<1>5. /\ hs.authed /\ AuthRequired => \E j \in Allowed : <<"identified", j>> \in sent[current]
      /\ hs.ver => current \in replied /\ <<"version", None>> \in sent[current]
  BY <1>2 DEF HandshakeTruth
<1> HIDE DEF h
<1>6. QED
  BY <1>1, <1>2, <1>4, <1>5, ContinueHolds

\* The other ways a handshake ends.
LEMMA EndHolds ==
  ASSUME ListenerInv, OtherVersion \/ Broken \/ HandshakeLagged
  PROVE  ListenerInv'
<1>1. CASE OtherVersion \/ Broken
  <2>1. PICK k : Mine(k) /\ Abandon /\ (refused' = refused \/ Refuse)
                 /\ UNCHANGED <<replied, linkUp, sent, tried>>
    BY <1>1 DEF OtherVersion, Broken
  <2>2. pc = "handshake" /\ ChannelInv' /\ lagged' \in BOOLEAN
    BY <2>1, Own
  <2>3. QED
    BY <2>1, <2>2, AbandonHolds
<1>2. CASE HandshakeLagged
  <2>1. /\ pc = "handshake" /\ queue' = queue /\ lagged' \in BOOLEAN /\ Abandon
        /\ UNCHANGED <<replied, refused, linkUp, sent, tried>>
    BY <1>2 DEF HandshakeLagged, TakeLag, ListenerInv, ListenerTypeOK
  <2>2. ChannelInv'
    BY <2>1, ChannelStays
  <2>3. QED
    BY <2>1, <2>2, AbandonHolds
<1>3. QED
  BY <1>1, <1>2

\* An iteration of the handshake that learns nothing: it took another link's event, or
\* none.
LEMMA IterationHolds ==
  ASSUME ListenerInv, Discard \/ Tick
  PROVE  ListenerInv'
<1>1. /\ pc = "handshake" /\ Continue(hs)
      /\ UNCHANGED <<replied, refused, linkUp, sent, tried>>
  BY DEF Discard, Tick
<1>2. ChannelInv' /\ lagged' \in BOOLEAN
  <2>1. CASE Discard
    BY <2>1, TakenKeeps DEF Discard, Take, ListenerInv, ListenerTypeOK
  <2>2. CASE Tick
    BY <2>2, ChannelStays DEF Tick, ListenerInv, ListenerTypeOK
  <2>3. QED
    BY <2>1, <2>2
<1>3. /\ hs \in [ver : BOOLEAN, exec : BOOLEAN, authed : BOOLEAN, cmd : Cmd]
      /\ hs.authed /\ AuthRequired => \E i \in Allowed : <<"identified", i>> \in sent[current]
      /\ hs.ver => current \in replied' /\ <<"version", None>> \in sent[current]
      /\ hs.exec => <<"exec", hs.cmd>> \in sent[current]
  BY <1>1 DEF ListenerInv, ListenerTypeOK, HandshakeTruth
<1>4. QED
  BY <1>1, <1>2, <1>3, ContinueHolds

\* Time changes nothing that a peer could gain by.
LEMMA ExpireHolds == ASSUME ListenerInv, Expire PROVE ListenerInv'
<1>1. /\ pc = "handshake" /\ expired' = TRUE
      /\ UNCHANGED <<pc, queue, lagged, current, hs, session, replied, refused, linkUp, sent, tried>>
  BY DEF Expire
<1>2. ChannelInv'
  BY <1>1, ChannelStays
<1>3. ListenerTypeOK'
  BY <1>1 DEF ListenerInv, ListenerTypeOK
<1>4. Untouched' /\ HandshakeTruth' /\ AuthGate' /\ OwnCommand'
  BY <1>1 DEF ListenerInv, Untouched, HandshakeTruth, AuthGate, OwnCommand, AuthRequired
<1>5. QED
  BY <1>2, <1>3, <1>4 DEF ListenerInv, ChannelInv

\* Events that are passed over, and the lag that ends the accept loop.
LEMMA PassHolds ==
  ASSUME ListenerInv, AcceptLagged \/ AcceptSkips
  PROVE  ListenerInv'
<1>1. CASE AcceptSkips
  <2>1. Take /\ UNCHANGED <<pc, current, hs, expired, session, replied, refused, linkUp, sent, tried>>
    BY <1>1 DEF AcceptSkips
  <2>2. ChannelInv' /\ lagged' \in BOOLEAN
    BY <2>1, TakenKeeps DEF Take, ListenerInv, ListenerTypeOK
  <2>3. QED
    BY <2>1, <2>2, SkipHolds
<1>2. CASE AcceptLagged
  <2>1. /\ pc = "accept" /\ pc' = "ended" /\ queue' = queue /\ lagged' \in BOOLEAN
        /\ UNCHANGED <<current, hs, expired, session, replied, refused, linkUp, sent, tried>>
    BY <1>2 DEF AcceptLagged, TakeLag
  <2>2. ChannelInv'
    BY <2>1, ChannelStays
  <2>3. QED
    BY <2>1, <2>2, SkipHolds
<1>3. QED
  BY <1>1, <1>2

LEMMA ListenerInitHolds == ListenerInit => ListenerInv
<1>1. SUFFICES ASSUME ListenerInit PROVE ListenerInv
  OBVIOUS
<1>2. queue \in Seq(Events) /\ Len(queue) = 0 /\ DOMAIN queue = {}
  BY <1>1 DEF ListenerInit
<1>3. Fresh \in [ver : BOOLEAN, exec : BOOLEAN, authed : BOOLEAN, cmd : Cmd]
  BY ListenerAssumption DEF Fresh, AuthRequired
<1>4. ListenerTypeOK
  <2>1. Len(queue) <= Capacity
    <3>1. Len(queue) = 0
      BY <1>2
    <3>2. Capacity \in Nat
      BY ListenerAssumption
    <3>3. QED
      BY <3>1, <3>2
  <2>2. session \in [Link -> Cmd \cup {Shell, None}] /\ sent \in [Link -> SUBSET Payloads]
    BY <1>1 DEF ListenerInit
  <2>3. QED
    BY <1>1, <1>2, <1>3, <2>1, <2>2 DEF ListenerInit, ListenerTypeOK, Events, Kinds, Args
<1>5. QueueSent /\ ActivatedOnce /\ Untouched /\ HandshakeTruth /\ AuthGate /\ OwnCommand
  BY <1>1, <1>2 DEF ListenerInit, QueueSent, ActivatedOnce, Untouched, HandshakeTruth, AuthGate, OwnCommand
<1>6. QED
  BY <1>4, <1>5 DEF ListenerInv

LEMMA ListenerStep == ListenerInv /\ [ListenerNext]_listenerVars => ListenerInv'
<1>1. SUFFICES ASSUME ListenerInv, [ListenerNext]_listenerVars PROVE ListenerInv'
  OBVIOUS
<1>2. ASSUME NEW l \in Link, Activate(l) \/ Close(l) PROVE ListenerInv'
  <2>1. PICK k \in {"activated", "closed"} :
          /\ Publish(l, k, None) /\ (k = "activated" => sent[l] = {})
          /\ linkUp' \subseteq linkUp \cup {l}
          /\ UNCHANGED <<pc, current, hs, expired, session, replied, refused, tried>>
    BY <1>2 DEF Activate, Close
  <2>2. <<k, None>> \in Payloads /\ linkUp' \subseteq Link
    BY <1>1, <2>1, PayloadParts DEF ListenerInv, ListenerTypeOK
  <2>3. QED
    BY <1>1, <2>1, <2>2, PeerHolds
<1>3. ASSUME NEW l \in Link, NEW p \in Payloads, Send(l, p[1], p[2]) PROVE ListenerInv'
  <2>1. /\ <<p[1], p[2]>> \in Payloads /\ p[1] # "activated" /\ Publish(l, p[1], p[2])
        /\ UNCHANGED <<pc, current, hs, expired, session, replied, refused, linkUp, tried>>
    BY <1>3 DEF Send
  <2>2. linkUp' \subseteq Link
    BY <1>1, <2>1 DEF ListenerInv, ListenerTypeOK
  <2>3. QED
    BY <1>1, <2>1, <2>2, PeerHolds
<1>4. CASE Listen
  BY <1>1, <1>4, AcceptHolds, IdentifiedHolds, VersionHolds, ExecHolds, EndHolds, IterationHolds,
     PassHolds DEF Listen
<1>5. CASE UNCHANGED listenerVars
  <2>1. ChannelInv' /\ lagged' \in BOOLEAN
    BY <1>1, <1>5, ChannelStays DEF listenerVars, ListenerInv, ListenerTypeOK
  <2>2. QED
    BY <1>1, <1>5, <2>1, SkipHolds DEF listenerVars
<1>6. CASE Expire
  BY <1>1, <1>6, ExpireHolds
<1>7. QED
  BY <1>1, <1>2, <1>3, <1>4, <1>5, <1>6 DEF ListenerNext

--------------------------------------------------------------------------------
(* The theorems.                                                           *)

\* The listener's variables keep their types (ListenerTypeOK): the channel stays within
\* its slots and a handshake is under way exactly when there is a link it is about.
THEOREM ListenerTyped == ListenerSpec => []ListenerTypeOK
<1>1. ListenerInv => ListenerTypeOK
  BY DEF ListenerInv
<1>2. QED
  BY ListenerInitHolds, ListenerStep, <1>1, PTL DEF ListenerSpec

\* No command runs for a link whose own peer did not prove an identity of the allow
\* list, or that was sent an Error (AuthGate): do_version_handshake() and auth_required().
THEOREM AllowListGates == ListenerSpec => []AuthGate
<1>1. ListenerInv => AuthGate
  BY DEF ListenerInv
<1>2. QED
  BY ListenerInitHolds, ListenerStep, <1>1, PTL DEF ListenerSpec

\* A session executes what its own peer asked for, after versions were exchanged on that
\* link (OwnCommand): handshake_complete() and the head of handle_link().
THEOREM SessionRunsOwnCommand == ListenerSpec => []OwnCommand
<1>1. ListenerInv => OwnCommand
  BY DEF ListenerInv
<1>2. QED
  BY ListenerInitHolds, ListenerStep, <1>1, PTL DEF ListenerSpec
================================================================================
