-------------------------- MODULE RngitTransfer_proofs --------------------------
(***************************************************************************)
(* Proofs about RngitTransfer for any number of requests, parts, retries   *)
(* and any window: whose answer request() returns, when the client lets go *)
(* of a request, and that on a network that keeps packets in order, lossy  *)
(* or not, a request is executed once.                                     *)
(***************************************************************************)
EXTENDS RngitTransfer, SequenceTheorems, FiniteSetTheorems, TLAPS

--------------------------------------------------------------------------------
(* The inductive invariant.                                                *)

\* Resources there are: requests, and responses of executions.
Asked == (1 .. made) \X {0}
Answers == {h \in (1 .. made) \X (Nat \ {0}) : h[2] <= executed[h[1]]}

PartNo == 1 .. Parts
Parcel == [type : {"request", "response", "adv", "ask", "part", "proof"},
           res : RequestId \X Nat, parts : SUBSET PartNo]

\* What the client sends, and what the server does. The server has had the whole of a
\* request that it proves.
ClientParcel ==
  {p \in Parcel : /\ p.type # "response"
                  /\ p.type \in {"request", "adv", "part"} => p.res \in Asked
                  /\ p.type \in {"ask", "proof"} => p.res \in Answers
                  /\ p.type = "part" => p.parts # {}}

ServerParcel ==
  {p \in Parcel : /\ p.type # "request"
                  /\ p.type \in {"response", "adv", "part"} => p.res \in Answers
                  /\ p.type \in {"ask", "proof"} => p.res \in Asked
                  /\ p.type = "proof" => HadWhole(p.res[1])
                  /\ p.type = "part" => p.parts # {}}

NetOK == c2s \in Seq(ClientParcel) /\ s2c \in Seq(ServerParcel)

StateOK ==
  /\ net \in Nets /\ made \in 0 .. MaxRequests /\ cur \in 0 .. made
  /\ answered \in [RequestId -> Nat] /\ failed \in [RequestId -> Failure]
  /\ executed \in [RequestId -> Nat]
  /\ routing \in 0 .. made /\ silent \in SUBSET RequestId
  /\ \A r \in RequestId : HadWhole(r) => r <= made

Offer(n) == [sent : BOOLEAN, retries : 0 .. n]
Partial == {in \in Inbounds : ~Done(in)}

OutOK(out, max) == IsFiniteSet(DOMAIN out) /\ out \in [DOMAIN out -> Offer(max)]
InOK(in) == in \in [DOMAIN in -> Partial]

MapsOK ==
  /\ DOMAIN cOut \subseteq Asked /\ OutOK(cOut, ClientAdvRetries)
  /\ DOMAIN sOut \subseteq Answers /\ OutOK(sOut, ServerAdvRetries)
  /\ DOMAIN cIn \subseteq Answers /\ InOK(cIn)
  /\ DOMAIN sIn \subseteq Asked /\ InOK(sIn)

ResponsesOK ==
  /\ DOMAIN responses \subseteq 1 .. made /\ responses \in [DOMAIN responses -> Nat \ {0}]
  /\ \A r \in DOMAIN responses : responses[r] <= executed[r]

\* A packet of type t for h is in flight; none of type u is behind one of type t.
Has(s, t, h) == \E k \in DOMAIN s : s[k].type = t /\ s[k].res = h
NoneAfter(s, t, u, h) ==
  \A k, l \in DOMAIN s : k < l /\ s[k].type = t /\ s[k].res = h => ~(s[l].type = u /\ s[l].res = h)

\* Where packets keep their order, a resource is not advertised any more when parts of it
\* are on their way, so that it does not come back when the server has it whole; and the
\* client keeps it while it may be asked for.
Once(r) ==
  LET h == <<r, 0>> IN
  /\ executed[r] <= 1 /\ failed[r] # "no outbound resource"
  /\ routing = r => executed[r] = 0
  /\ NoneAfter(c2s, "part", "adv", h) /\ NoneAfter(s2c, "proof", "ask", h)
  /\ NoneAfter(c2s, "request", "request", h)
  /\ Has(c2s, "part", h) \/ HadWhole(r) => h \notin DOMAIN cOut \/ cOut[h].sent
  /\ HadWhole(r) => ~Has(c2s, "adv", h) /\ ~Has(c2s, "request", h) /\ h \notin DOMAIN sIn
  /\ Has(c2s, "adv", h) \/ h \in DOMAIN sIn \/ Has(s2c, "ask", h) => h \in DOMAIN cOut
  /\ Has(c2s, "request", h) => h \notin DOMAIN cOut

TransferInv ==
  /\ StateOK /\ NetOK /\ MapsOK /\ ResponsesOK /\ AnswerIsMine
  /\ net # "unordered" => \A r \in RequestId : Once(r)

--------------------------------------------------------------------------------
(* Channels.                                                               *)

LEMMA ElementsOf ==
  ASSUME NEW S, NEW s \in Seq(S)
  PROVE  /\ Len(s) \in Nat /\ DOMAIN s = 1 .. Len(s) /\ \A k \in DOMAIN s : s[k] \in S
BY LenProperties, ElementOfSeq

LEMMA MinusIs ==
  ASSUME NEW S, NEW s \in Seq(S), NEW k \in DOMAIN s
  PROVE  /\ Minus(s, k) \in Seq(S) /\ Len(Minus(s, k)) = Len(s) - 1
         /\ \A i \in 1 .. Len(s) - 1 : Minus(s, k)[i] = IF i < k THEN s[i] ELSE s[i + 1]
<1>1. Len(s) \in Nat /\ k \in 1 .. Len(s) /\ \A i \in 1 .. Len(s) : s[i] \in S
  BY ElementsOf
<1> DEFINE a == SubSeq(s, 1, k - 1)
           b == SubSeq(s, k + 1, Len(s))
<1>2. a \in Seq(S) /\ Len(a) = k - 1 /\ \A i \in 1 .. k - 1 : a[i] = s[i]
  <2>1. \A i \in 1 .. k - 1 : s[i] \in S
    BY <1>1
  <2>2. a \in Seq(S) /\ Len(a) = (IF 1 <= k - 1 THEN k - 1 - 1 + 1 ELSE 0)
        /\ \A i \in 1 .. k - 1 - 1 + 1 : a[i] = s[1 + i - 1]
    BY <1>1, <2>1, SubSeqProperties
  <2> HIDE DEF a
  <2>3. QED
    BY <1>1, <2>2
<1>3. b \in Seq(S) /\ Len(b) = Len(s) - k /\ \A i \in 1 .. Len(s) - k : b[i] = s[k + i]
  <2>1. \A i \in k + 1 .. Len(s) : s[i] \in S
    BY <1>1
  <2>2. b \in Seq(S) /\ Len(b) = (IF k + 1 <= Len(s) THEN Len(s) - (k + 1) + 1 ELSE 0)
        /\ \A i \in 1 .. Len(s) - (k + 1) + 1 : b[i] = s[k + 1 + i - 1]
    BY <1>1, <2>1, SubSeqProperties
  <2> HIDE DEF b
  <2>3. QED
    BY <1>1, <2>2
<1>4. Minus(s, k) = a \o b
  BY DEF Minus
<1> HIDE DEF a, b
<1>5. /\ a \o b \in Seq(S) /\ Len(a \o b) = Len(a) + Len(b)
      /\ \A i \in 1 .. Len(a) + Len(b) : (a \o b)[i] = IF i <= Len(a) THEN a[i] ELSE b[i - Len(a)]
  BY <1>2, <1>3, ConcatProperties
<1>6. Len(a) + Len(b) = Len(s) - 1 /\ Len(a) = k - 1 /\ k \in Int /\ Len(s) \in Int
  BY <1>1, <1>2, <1>3
<1>7. ASSUME NEW i \in 1 .. Len(s) - 1 PROVE (a \o b)[i] = IF i < k THEN s[i] ELSE s[i + 1]
  <2>1. (a \o b)[i] = IF i <= k - 1 THEN a[i] ELSE b[i - (k - 1)]
    BY <1>5, <1>6
  <2>2. CASE i < k
    BY <1>2, <1>6, <2>1, <2>2
  <2>3. CASE ~(i < k)
    <3>1. PICK j \in 1 .. Len(s) - k : j = i - (k - 1)
      BY <1>6, <2>3
    <3>2. b[j] = s[k + j]
      BY <1>3
    <3>3. k + j = i + 1
      BY SMTT(20), <1>6, <3>1
    <3>4. (a \o b)[i] = b[j]
      BY <1>6, <2>1, <2>3, <3>1
    <3>5. QED
      BY <2>3, <3>2, <3>3, <3>4
  <2>4. QED
    BY <2>2, <2>3
<1>8. QED
  BY <1>4, <1>5, <1>6, <1>7

\* Losing or taking a packet.
LEMMA LessIs ==
  ASSUME NEW S, NEW s \in Seq(S), NEW k \in DOMAIN s, NEW t, NEW u, NEW h
  PROVE  /\ Has(Minus(s, k), t, h) => Has(s, t, h)
         /\ NoneAfter(s, t, u, h) => NoneAfter(Minus(s, k), t, u, h)
         /\ k = 1 /\ s[k].type = t /\ s[k].res = h /\ NoneAfter(s, t, u, h) => ~Has(Minus(s, k), u, h)
<1> DEFINE m == Minus(s, k)
           at(i) == IF i < k THEN i ELSE i + 1
<1>1. /\ Len(s) \in Nat /\ DOMAIN s = 1 .. Len(s) /\ k \in 1 .. Len(s)
      /\ DOMAIN m = 1 .. Len(s) - 1
      /\ \A i \in DOMAIN m : m[i] = s[at(i)] /\ at(i) \in DOMAIN s
  <2>1. Len(s) \in Nat /\ DOMAIN s = 1 .. Len(s) /\ k \in 1 .. Len(s)
    BY ElementsOf
  <2>2. m \in Seq(S) /\ Len(m) = Len(s) - 1
        /\ \A i \in 1 .. Len(s) - 1 : m[i] = IF i < k THEN s[i] ELSE s[i + 1]
    BY MinusIs
  <2>3. DOMAIN m = 1 .. Len(s) - 1
    BY <2>2, ElementsOf
  <2> HIDE DEF m
  <2>4. QED
    BY <2>1, <2>2, <2>3
<1>2. \A i, j \in DOMAIN m : i < j => at(i) < at(j)
  BY <1>1
<1>3. k = 1 => \A i \in DOMAIN m : at(i) > k
  BY <1>1
<1> HIDE DEF m, at
<1>4. Has(m, t, h) => Has(s, t, h)
  BY <1>1 DEF Has
<1>5. NoneAfter(s, t, u, h) => NoneAfter(m, t, u, h)
  BY <1>1, <1>2 DEF NoneAfter
<1>6. k = 1 /\ s[k].type = t /\ s[k].res = h /\ NoneAfter(s, t, u, h) => ~Has(m, u, h)
  BY <1>1, <1>3 DEF NoneAfter, Has
<1>7. QED
  BY <1>4, <1>5, <1>6 DEF m

\* Sending packets.
LEMMA MoreIs ==
  ASSUME NEW S, NEW s \in Seq(S), NEW q \in Seq(S), NEW t, NEW u, NEW h
  PROVE  /\ s \o q \in Seq(S)
         /\ Has(s \o q, t, h) <=> Has(s, t, h) \/ Has(q, t, h)
         /\ NoneAfter(s, t, u, h) /\ NoneAfter(q, t, u, h) /\ (Has(s, t, h) => ~Has(q, u, h))
              => NoneAfter(s \o q, t, u, h)
<1> DEFINE w == s \o q
<1>1. /\ Len(s) \in Nat /\ DOMAIN s = 1 .. Len(s) /\ Len(q) \in Nat /\ DOMAIN q = 1 .. Len(q)
  BY ElementsOf
<1>2. /\ w \in Seq(S) /\ Len(w) = Len(s) + Len(q)
      /\ \A i \in 1 .. Len(s) + Len(q) : w[i] = IF i <= Len(s) THEN s[i] ELSE q[i - Len(s)]
  BY ConcatProperties
<1>3. DOMAIN w = 1 .. Len(s) + Len(q)
  BY <1>2, ElementsOf
<1> HIDE DEF w
<1>4. \A i \in DOMAIN w : \/ i \in DOMAIN s /\ w[i] = s[i]
                          \/ i > Len(s) /\ i - Len(s) \in DOMAIN q /\ w[i] = q[i - Len(s)]
  BY <1>1, <1>2, <1>3
<1>5. /\ \A i \in DOMAIN s : i \in DOMAIN w /\ w[i] = s[i]
      /\ \A i \in DOMAIN q : i + Len(s) \in DOMAIN w /\ w[i + Len(s)] = q[i]
  BY <1>1, <1>2, <1>3
<1>6. Has(w, t, h) <=> Has(s, t, h) \/ Has(q, t, h)
  <2>1. Has(w, t, h) => Has(s, t, h) \/ Has(q, t, h)
    BY <1>4 DEF Has
  <2>2. Has(s, t, h) => Has(w, t, h)
    BY <1>5 DEF Has
  <2>3. Has(q, t, h) => Has(w, t, h)
    BY <1>5 DEF Has
  <2>4. QED
    BY <2>1, <2>2, <2>3
<1>7. ASSUME NoneAfter(s, t, u, h), NoneAfter(q, t, u, h), Has(s, t, h) => ~Has(q, u, h)
      PROVE  NoneAfter(w, t, u, h)
  <2>1. SUFFICES ASSUME NEW k \in DOMAIN w, NEW l \in DOMAIN w, k < l,
                        w[k].type = t, w[k].res = h, w[l].type = u, w[l].res = h
                 PROVE  FALSE
    BY DEF NoneAfter
  <2>2. CASE k \in DOMAIN s /\ l \in DOMAIN s
    BY <1>5, <1>7, <2>1, <2>2 DEF NoneAfter
  <2>3. CASE k \in DOMAIN s /\ l \notin DOMAIN s
    <3>1. l - Len(s) \in DOMAIN q /\ w[l] = q[l - Len(s)] /\ w[k] = s[k]
      BY <1>4, <1>5, <2>3
    <3>2. Has(s, t, h) /\ Has(q, u, h)
      BY <2>1, <2>3, <3>1 DEF Has
    <3>3. QED
      BY <1>7, <3>2
  <2>4. CASE k \notin DOMAIN s
    <3>1. l \notin DOMAIN s
      BY <1>1, <1>3, <2>1, <2>4
    <3>2. /\ k - Len(s) \in DOMAIN q /\ w[k] = q[k - Len(s)]
          /\ l - Len(s) \in DOMAIN q /\ w[l] = q[l - Len(s)]
      BY <1>4, <2>4, <3>1
    <3>3. k - Len(s) < l - Len(s)
      BY <1>1, <1>3, <2>1
    <3>4. QED
      BY <1>7, <2>1, <3>2, <3>3 DEF NoneAfter
  <2>5. QED
    BY <2>2, <2>3, <2>4
<1>8. QED
  BY <1>2, <1>6, <1>7 DEF w

LEMMA SingleIs ==
  ASSUME NEW S, NEW e \in S, NEW t, NEW u, NEW h
  PROVE  /\ <<e>> \in Seq(S) /\ \A s : s \in Seq(S) => Append(s, e) = s \o <<e>>
         /\ \A k \in DOMAIN <<e>> : <<e>>[k] = e
         /\ Has(<<e>>, t, h) <=> e.type = t /\ e.res = h
         /\ NoneAfter(<<e>>, t, u, h)
<1>1. <<e>> \in Seq(S) /\ DOMAIN <<e>> = {1} /\ <<e>>[1] = e
  OBVIOUS
<1>2. \A s : s \in Seq(S) => Append(s, e) = s \o <<e>>
  OBVIOUS
<1>3. QED
  BY <1>1, <1>2 DEF Has, NoneAfter

\* Packets of one type after each other.
LEMMA SameTypeIs ==
  ASSUME NEW S, NEW q \in Seq(S), NEW v, \A k \in DOMAIN q : q[k].type = v, NEW t, NEW u, NEW h
  PROVE  /\ Has(q, t, h) => t = v /\ \E k \in DOMAIN q : q[k].res = h
         /\ t # v \/ u # v => NoneAfter(q, t, u, h)
BY DEF Has, NoneAfter

--------------------------------------------------------------------------------
(* Parts, and the packets that carry them.                                 *)

LEMMA PartsFinite ==
  /\ Parts \in Nat /\ IsFiniteSet(PartNo)
  /\ \A p \in SUBSET PartNo : IsFiniteSet(p) /\ Cardinality(p) \in Nat
<1>1. Parts \in Nat /\ IsFiniteSet(PartNo)
  BY TransferAssumption, FS_Interval DEF PartNo
<1>2. ASSUME NEW p \in SUBSET PartNo PROVE IsFiniteSet(p) /\ Cardinality(p) \in Nat
  BY <1>1, FS_Subset, FS_CardinalityType
<1>3. QED
  BY <1>1, <1>2

\* Every place but the last has a part with that many before it.
LEMMA RankedParts ==
  ASSUME NEW p \in SUBSET PartNo, NEW k \in 1 .. Cardinality(p)
  PROVE  \E i \in p : Cardinality({j \in p : j < i}) = k - 1
<1> DEFINE below(i) == {j \in p : j < i}
           f == [i \in p |-> Cardinality(below(i))]
           T == 0 .. Cardinality(p) - 1
<1>1. IsFiniteSet(p) /\ Cardinality(p) \in Nat /\ p \subseteq Int
  BY PartsFinite DEF PartNo
<1>2. IsFiniteSet(T) /\ Cardinality(T) = Cardinality(p)
  <2>1. 0 \in Int /\ Cardinality(p) - 1 \in Int /\ Cardinality(p) >= 1
    BY <1>1
  <2>2. IsFiniteSet(T) /\ Cardinality(T) = IF 0 > Cardinality(p) - 1 THEN 0 ELSE Cardinality(p) - 1 - 0 + 1
    BY <2>1, FS_Interval
  <2> HIDE DEF T
  <2>3. QED
    BY <1>1, <2>1, <2>2
<1>3. ASSUME NEW i \in p PROVE f[i] \in T
  <2>1. below(i) \in SUBSET p /\ below(i) # p
    BY <1>1
  <2>2. IsFiniteSet(below(i)) /\ Cardinality(below(i)) <= Cardinality(p) /\ Cardinality(below(i)) # Cardinality(p)
    BY <1>1, <2>1, FS_Subset
  <2>3. Cardinality(below(i)) \in Nat
    BY <2>2, FS_CardinalityType
  <2>4. f[i] = Cardinality(below(i))
    OBVIOUS
  <2> HIDE DEF f, below
  <2>5. QED
    BY <1>1, <2>2, <2>3, <2>4
<1>4. ASSUME NEW i \in p, NEW j \in p, i < j PROVE f[i] # f[j]
  <2>1. below(i) \in SUBSET below(j) /\ below(i) # below(j)
    <3>1. i \in Int /\ j \in Int /\ \A m \in p : m \in Int
      BY <1>1
    <3>2. \A m \in below(i) : m \in below(j)
      BY <1>4, <3>1
    <3>3. i \in below(j) /\ i \notin below(i)
      BY <1>4, <3>1
    <3>4. QED
      BY <3>2, <3>3
  <2>2. below(j) \in SUBSET PartNo
    OBVIOUS
  <2>3. IsFiniteSet(below(j))
    BY <2>2, PartsFinite
  <2>4. Cardinality(below(i)) # Cardinality(below(j))
    BY <2>1, <2>3, FS_Subset
  <2>5. QED
    BY <2>4
<1>5. f \in [p -> T]
  BY <1>3
<1>6. \A i, j \in p : f[i] = f[j] => i = j
  BY <1>1, <1>4
<1> HIDE DEF f
<1>7. f \in Injection(p, T)
  BY <1>5, <1>6 DEF Injection, IsInjective
<1>8. f \in Surjection(p, T)
  BY <1>1, <1>2, <1>7, FS_Injection
<1>9. k - 1 \in T
  BY <1>1
<1>10. PICK i \in p : f[i] = k - 1
  BY <1>8, <1>9 DEF Surjection
<1>11. QED
  BY <1>10 DEF f

LEMMA PartPacketsAre ==
  ASSUME NEW h, NEW p \in SUBSET PartNo
  PROVE  /\ PartPackets(h, p) \in Seq({Packet("part", h, {i}) : i \in PartNo})
         /\ \A k \in DOMAIN PartPackets(h, p) : PartPackets(h, p)[k].type = "part" /\ PartPackets(h, p)[k].res = h
<1> DEFINE S == {Packet("part", h, {i}) : i \in PartNo}
           pick(k) == CHOOSE i \in p : Cardinality({j \in p : j < i}) = k - 1
           q == [k \in 1 .. Cardinality(p) |-> Packet("part", h, {pick(k)})]
<1>1. \A k \in 1 .. Cardinality(p) : pick(k) \in PartNo
  BY RankedParts
<1>2. Cardinality(p) \in Nat
  BY PartsFinite
<1> HIDE DEF pick
<1>3. q \in [1 .. Cardinality(p) -> S]
  BY <1>1
<1>4. q \in Seq(S)
  BY ZenonT(40), <1>2, <1>3, SeqDef
<1>5. \A k \in DOMAIN q : q[k].type = "part" /\ q[k].res = h
  BY DEF Packet
<1>6. PartPackets(h, p) = q
  BY DEF PartPackets, pick
<1>7. QED
  BY <1>4, <1>5, <1>6

LEMMA AdvsAre ==
  ASSUME NEW hs, IsFiniteSet(hs)
  PROVE  /\ Advs(hs) \in Seq({Packet("adv", h, {}) : h \in hs})
         /\ \A k \in DOMAIN Advs(hs) : Advs(hs)[k].type = "adv" /\ Advs(hs)[k].res \in hs
<1> DEFINE S == {Packet("adv", h, {}) : h \in hs}
           n == Cardinality(hs)
           P(s) == \A h \in hs : \E k \in DOMAIN s : s[k].res = h
<1>1. n \in Nat /\ ExistsBijection(1 .. n, hs)
  BY FS_CardinalityType
<1>2. \E s \in [1 .. n -> S] : P(s)
  <2>1. PICK f \in Bijection(1 .. n, hs) : TRUE
    BY <1>1 DEF ExistsBijection
  <2>2. f \in [1 .. n -> hs] /\ \A h \in hs : \E k \in 1 .. n : f[k] = h
    BY <2>1 DEF Bijection, Injection, Surjection
  <2> DEFINE s == [k \in 1 .. n |-> Packet("adv", f[k], {})]
  <2>3. s \in [1 .. n -> S]
    BY <2>2
  <2>4. \A k \in 1 .. n : s[k].res = f[k]
    BY DEF Packet
  <2>5. P(s)
    BY <2>2, <2>4
  <2>6. QED
    BY <2>3, <2>5
<1>3. Advs(hs) \in [1 .. n -> S]
  BY <1>2 DEF Advs
<1>4. Advs(hs) \in Seq(S)
  BY <1>1, <1>3, SeqDef
<1>5. \A e \in S : e.type = "adv" /\ e.res \in hs
  BY DEF Packet
<1>6. QED
  BY <1>3, <1>4, <1>5

--------------------------------------------------------------------------------
(* What there is only grows.                                               *)

LEMMA Bounds ==
  /\ MaxRequests \in Nat /\ Parts \in Nat \ {0} /\ ClientAdvRetries \in Nat /\ ServerAdvRetries \in Nat
  /\ StateOK => /\ made \in Nat /\ 1 .. made \subseteq RequestId
                /\ Asked \subseteq RequestId \X Nat /\ Answers \subseteq RequestId \X Nat
BY TransferAssumption DEF StateOK, RequestId, Asked, Answers

Grows == made <= made' /\ \A r \in RequestId : executed[r] <= executed'[r] /\ (HadWhole(r) => HadWhole(r)')

LEMMA Grown ==
  ASSUME StateOK, StateOK', Grows
  PROVE  /\ 1 .. made \subseteq 1 .. made' /\ Asked \subseteq Asked' /\ Answers \subseteq Answers'
         /\ ClientParcel \subseteq ClientParcel' /\ ServerParcel \subseteq ServerParcel'
<1>1. /\ made \in Nat /\ made' \in Nat /\ made <= made' /\ 1 .. made \subseteq RequestId
      /\ \A r \in RequestId : executed[r] \in Nat /\ executed'[r] \in Nat /\ executed[r] <= executed'[r]
  BY Bounds DEF StateOK, Grows
<1>2. 1 .. made \subseteq 1 .. made'
  BY <1>1
<1>3. Asked \subseteq Asked'
  BY <1>2 DEF Asked
<1>4. Answers \subseteq Answers'
  <2>1. SUFFICES ASSUME NEW h \in Answers PROVE h \in Answers'
    OBVIOUS
  <2>2. h \in (1 .. made) \X Nat /\ h[2] \in Nat /\ h[1] \in 1 .. made /\ h[2] <= executed[h[1]]
    BY DEF Answers
  <2>3. executed[h[1]] \in Nat /\ executed'[h[1]] \in Nat /\ executed[h[1]] <= executed'[h[1]]
    BY <1>1, <2>2
  <2>4. h[2] <= executed'[h[1]] /\ h \in (1 .. made') \X Nat
    BY <1>2, <2>2, <2>3
  <2>5. QED
    BY <2>4 DEF Answers
<1>5. ClientParcel \subseteq ClientParcel'
  BY <1>3, <1>4 DEF ClientParcel
<1>6. ServerParcel \subseteq ServerParcel'
  <2>1. ASSUME NEW p \in ServerParcel, p.type = "proof" PROVE HadWhole(p.res[1])'
    <3>1. p.res[1] \in RequestId /\ HadWhole(p.res[1])
      BY <2>1 DEF ServerParcel, Parcel
    <3>2. QED
      BY <3>1 DEF Grows
  <2>2. QED
    BY <1>3, <1>4, <2>1 DEF ServerParcel
<1>7. QED
  BY <1>2, <1>3, <1>4, <1>5, <1>6

LEMMA PacketIs ==
  ASSUME NEW t \in {"request", "response", "adv", "ask", "part", "proof"},
         NEW h \in RequestId \X Nat, NEW p \in SUBSET PartNo
  PROVE  /\ Packet(t, h, p) \in Parcel
         /\ Packet(t, h, p).type = t /\ Packet(t, h, p).res = h /\ Packet(t, h, p).parts = p
BY DEF Packet, Parcel

\* What the client may send, and the server.
LEMMA ClientSends ==
  ASSUME StateOK
  PROVE  /\ \A h \in Asked : /\ Packet("request", h, {}) \in ClientParcel /\ Packet("adv", h, {}) \in ClientParcel
                             /\ \A i \in PartNo : Packet("part", h, {i}) \in ClientParcel
         /\ \A h \in Answers : /\ Packet("proof", h, {}) \in ClientParcel
                               /\ \A p \in SUBSET PartNo : Packet("ask", h, p) \in ClientParcel
BY Bounds, PacketIs DEF ClientParcel

LEMMA ServerSends ==
  ASSUME StateOK
  PROVE  /\ \A h \in Answers : /\ Packet("response", h, {}) \in ServerParcel /\ Packet("adv", h, {}) \in ServerParcel
                               /\ \A i \in PartNo : Packet("part", h, {i}) \in ServerParcel
         /\ \A h \in Asked : /\ HadWhole(h[1]) => Packet("proof", h, {}) \in ServerParcel
                             /\ \A p \in SUBSET PartNo : Packet("ask", h, p) \in ServerParcel
BY Bounds, PacketIs DEF ServerParcel

--------------------------------------------------------------------------------
(* The maps.                                                               *)

LEMMA OutboundIs ==
  ASSUME NEW max \in Nat, NEW out, OutOK(out, max), NEW x
  PROVE  /\ Outbound \in Offer(max)
         /\ OutOK(With(out, x, Outbound), max) /\ OutOK(Without(out, x), max)
<1>1. Outbound \in Offer(max)
  BY DEF Outbound, Offer
<1>2. IsFiniteSet(DOMAIN out) /\ out \in [DOMAIN out -> Offer(max)]
  BY DEF OutOK
<1>3. IsFiniteSet(DOMAIN out \cup {x}) /\ IsFiniteSet(DOMAIN out \ {x})
  BY <1>2, FS_AddElement, FS_RemoveElement
<1>4. /\ DOMAIN With(out, x, Outbound) = DOMAIN out \cup {x}
      /\ With(out, x, Outbound) \in [DOMAIN With(out, x, Outbound) -> Offer(max)]
  BY <1>1, <1>2 DEF With
<1>5. /\ DOMAIN Without(out, x) = DOMAIN out \ {x}
      /\ Without(out, x) \in [DOMAIN Without(out, x) -> Offer(max)]
  BY <1>2 DEF Without
<1>6. QED
  BY <1>1, <1>3, <1>4, <1>5 DEF OutOK

LEMMA SentIs ==
  ASSUME NEW max \in Nat, NEW out, OutOK(out, max), NEW h \in DOMAIN out
  PROVE  LET new == [out EXCEPT ![h].sent = TRUE] IN
         /\ DOMAIN new = DOMAIN out /\ OutOK(new, max) /\ new[h].sent
         /\ \A g \in DOMAIN out : g # h => new[g] = out[g]
BY DEF OutOK, Offer

LEMMA RetriedIs ==
  ASSUME NEW max \in Nat, NEW out, OutOK(out, max)
  PROVE  LET due == Due(out, max)
             new == Retried(out, due) IN
         /\ due \subseteq DOMAIN out /\ IsFiniteSet(due) /\ \A h \in due : ~out[h].sent
         /\ DOMAIN new = DOMAIN out /\ OutOK(new, max)
         /\ \A h \in DOMAIN out : new[h].sent = out[h].sent
<1> DEFINE due == Due(out, max)
           new == Retried(out, due)
<1>1. /\ IsFiniteSet(DOMAIN out) /\ out \in [DOMAIN out -> Offer(max)]
      /\ \A h \in DOMAIN out : out[h] \in Offer(max)
  BY DEF OutOK
<1>2. due \subseteq DOMAIN out /\ \A h \in due : ~out[h].sent /\ out[h].retries < max
  BY DEF Due
<1>3. IsFiniteSet(due)
  BY <1>1, <1>2, FS_Subset
<1> HIDE DEF due
<1>4. DOMAIN new = DOMAIN out
  BY DEF Retried
<1>5. ASSUME NEW h \in DOMAIN out PROVE new[h] \in Offer(max) /\ new[h].sent = out[h].sent
  <2>1. new[h] = IF h \in due THEN [out[h] EXCEPT !.retries = @ + 1] ELSE out[h]
    BY DEF Retried
  <2>2. out[h] \in Offer(max) /\ (h \in due => out[h].retries < max)
    BY <1>1, <1>2
  <2>3. QED
    BY <2>1, <2>2 DEF Offer
<1>6. new \in [DOMAIN new -> Offer(max)]
  BY <1>4, <1>5 DEF Retried
<1>7. QED
  BY <1>1, <1>2, <1>3, <1>4, <1>5, <1>6 DEF OutOK, due

LEMMA InboundIs == Inbound \in Partial /\ Inbound.asked \in SUBSET PartNo
<1>1. First(Window, 1 .. Parts) \in SUBSET (1 .. Parts)
  BY DEF First
<1>2. Inbound.got = {} /\ Inbound \in Inbounds /\ Inbound.asked \in SUBSET (1 .. Parts)
  BY <1>1 DEF Inbound, Inbounds
<1>3. 1 \in 1 .. Parts
  BY Bounds
<1>4. QED
  BY <1>2, <1>3 DEF Partial, Done, PartNo

\* A part that is of use and not the last.
LEMMA FollowUpIs ==
  ASSUME NEW in, InOK(in), NEW h, NEW i \in PartNo, Accepts(in, h, i), ~Completes(in, h, i)
  PROVE  /\ h \in DOMAIN in /\ DOMAIN FollowUp(in, h, i) = DOMAIN in /\ InOK(FollowUp(in, h, i))
         /\ \/ Asks(in, h, i) = <<>>
            \/ \E p \in SUBSET PartNo : Asks(in, h, i) = <<Packet("ask", h, p)>>
<1> DEFINE g == Got(in[h], i)
           new == [g EXCEPT !.asked = @ \cup NextParts(g)]
<1>1. h \in DOMAIN in /\ in[h] \in Partial /\ in \in [DOMAIN in -> Partial] /\ i \in 1 .. Parts
  BY DEF Accepts, InOK, PartNo
<1>2. g \in Inbounds /\ g.asked = in[h].asked /\ ~Done(g)
  BY <1>1 DEF Got, Partial, Inbounds, Completes
<1>3. NextParts(g) \subseteq 1 .. Parts
  BY DEF NextParts, First
<1> HIDE DEF g
<1>4. new \in Inbounds /\ new.got = g.got
  BY <1>2, <1>3 DEF Inbounds
<1>5. new \in Partial
  BY <1>2, <1>4 DEF Partial, Done
<1> HIDE DEF new
<1>6. FollowUp(in, h, i) = [in EXCEPT ![h] = new]
  BY DEF FollowUp, g, new
<1>7. DOMAIN FollowUp(in, h, i) = DOMAIN in /\ InOK(FollowUp(in, h, i)) /\ FollowUp(in, h, i)[h] = new
  BY <1>1, <1>5, <1>6 DEF InOK
<1>8. new.asked \ in[h].asked \in SUBSET PartNo
  BY <1>4 DEF Inbounds, PartNo
<1>9. QED
  BY <1>1, <1>7, <1>8 DEF Asks

LEMMA InMaps ==
  ASSUME NEW in, InOK(in), NEW h
  PROVE  /\ DOMAIN With(in, h, Inbound) = DOMAIN in \cup {h} /\ InOK(With(in, h, Inbound))
         /\ DOMAIN Without(in, h) = DOMAIN in \ {h} /\ InOK(Without(in, h))
<1>1. Inbound \in Partial /\ in \in [DOMAIN in -> Partial]
  BY InboundIs DEF InOK
<1>2. /\ DOMAIN With(in, h, Inbound) = DOMAIN in \cup {h}
      /\ With(in, h, Inbound) \in [DOMAIN With(in, h, Inbound) -> Partial]
  BY <1>1 DEF With
<1>3. DOMAIN Without(in, h) = DOMAIN in \ {h} /\ Without(in, h) \in [DOMAIN Without(in, h) -> Partial]
  BY <1>1 DEF Without
<1>4. QED
  BY <1>2, <1>3 DEF InOK

--------------------------------------------------------------------------------
(* The steps and what there is.                                            *)

BasicInv == StateOK /\ NetOK /\ MapsOK /\ ResponsesOK /\ AnswerIsMine

\* A packet is taken or lost, or none is.
Taken(chan, chan1) == chan1 = chan \/ \E k \in DOMAIN chan : chan1 = Minus(chan, k)

LEMMA TakenIs ==
  ASSUME NEW S, NEW s \in Seq(S), NEW q, Taken(s, q) PROVE q \in Seq(S)
BY MinusIs DEF Taken

LEMMA AppendIs ==
  ASSUME NEW S, NEW s \in Seq(S), NEW q \in Seq(S)
  PROVE  s \o q \in Seq(S) /\ \A e \in S : Append(s, e) \in Seq(S)
BY MoreIs, SingleIs

\* The head is what arrives where packets keep their order.
LEMMA ArrivingIs ==
  ASSUME NEW S, NEW s \in Seq(S), NEW k \in Arriving(s)
  PROVE  k \in DOMAIN s /\ s[k] \in S /\ (net # "unordered" => k = 1)
BY ElementsOf DEF Arriving

LEMMA TailIsMinus ==
  ASSUME NEW S, NEW s \in Seq(S), s # <<>>
  PROVE  1 \in DOMAIN s /\ Tail(s) = Minus(s, 1)
<1>1. Len(s) \in Nat \ {0} /\ 1 \in DOMAIN s
  BY EmptySeq, ElementsOf
<1>2. Tail(s) = SubSeq(s, 2, Len(s)) /\ Tail(s) \in Seq(S)
  BY TailIsSubSeq, HeadTailProperties
<1>3. SubSeq(s, 1, 1 - 1) = <<>>
  BY SubSeqEmpty
<1>4. <<>> \o Tail(s) = Tail(s)
  BY <1>2, ConcatEmptySeq
<1>5. Minus(s, 1) = SubSeq(s, 1, 1 - 1) \o SubSeq(s, 1 + 1, Len(s))
  BY DEF Minus
<1>6. QED
  BY <1>1, <1>2, <1>3, <1>4, <1>5

\* What a channel may turn into as far as packets of types T for h are concerned.
Quieter(s, q, h, T) ==
  /\ \A t \in T : Has(q, t, h) => Has(s, t, h)
  /\ \A t, u \in T : NoneAfter(s, t, u, h) => NoneAfter(q, t, u, h)

ToS == {"part", "adv", "request"}
ToC == {"proof", "ask"}

LEMMA QuietTaken ==
  ASSUME NEW S, NEW s \in Seq(S), NEW q, Taken(s, q), NEW h, NEW T PROVE Quieter(s, q, h, T)
BY LessIs DEF Taken, Quieter

LEMMA QuietMore ==
  ASSUME NEW S, NEW s \in Seq(S), NEW q \in Seq(S), NEW h, NEW T,
         \A k \in DOMAIN q : q[k].type \notin T \/ q[k].res # h
  PROVE  Quieter(s, s \o q, h, T)
<1>1. \A t \in T : ~Has(q, t, h)
  BY DEF Has
<1>2. \A t, u \in T : NoneAfter(q, t, u, h)
  BY DEF NoneAfter
<1>3. QED
  BY <1>1, <1>2, MoreIs DEF Quieter

LEMMA OnceKept ==
  ASSUME NEW r \in RequestId, Once(r), executed'[r] = executed[r],
         routing' = r <=> routing = r, r \in silent' <=> r \in silent,
         failed'[r] # "no outbound resource",
         Quieter(c2s, c2s', <<r, 0>>, ToS), Quieter(s2c, s2c', <<r, 0>>, ToC),
         <<r, 0>> \in DOMAIN sIn' => <<r, 0>> \in DOMAIN sIn,
         <<r, 0>> \in DOMAIN cOut' <=> <<r, 0>> \in DOMAIN cOut,
         <<r, 0>> \in DOMAIN cOut /\ cOut[<<r, 0>>].sent => cOut'[<<r, 0>>].sent
  PROVE  Once(r)'
<1> DEFINE h == <<r, 0>>
<1>1. /\ Has(c2s', "part", h) => Has(c2s, "part", h)
      /\ Has(c2s', "adv", h) => Has(c2s, "adv", h)
      /\ Has(c2s', "request", h) => Has(c2s, "request", h)
      /\ Has(s2c', "ask", h) => Has(s2c, "ask", h)
  BY DEF Quieter, ToS, ToC
<1>2. /\ NoneAfter(c2s, "part", "adv", h) => NoneAfter(c2s', "part", "adv", h)
      /\ NoneAfter(s2c, "proof", "ask", h) => NoneAfter(s2c', "proof", "ask", h)
      /\ NoneAfter(c2s, "request", "request", h) => NoneAfter(c2s', "request", "request", h)
  BY DEF Quieter, ToS, ToC
<1>3. QED
  BY <1>1, <1>2 DEF Once, HadWhole

LEMMA InvIs ==
  /\ TransferInv <=> BasicInv /\ (net # "unordered" => \A r \in RequestId : Once(r))
  /\ TransferInv' <=> BasicInv' /\ (net' # "unordered" => \A r \in RequestId : Once(r)')
BY DEF TransferInv, BasicInv

LEMMA SameSets ==
  ASSUME UNCHANGED <<made, routing, executed, silent>>
  PROVE  /\ Asked' = Asked /\ Answers' = Answers
         /\ ClientParcel' = ClientParcel /\ ServerParcel' = ServerParcel
<1>1. Asked' = Asked /\ Answers' = Answers
  BY DEF Asked, Answers
<1>2. \A r : HadWhole(r)' <=> HadWhole(r)
  BY DEF HadWhole
<1>3. QED
  BY <1>1, <1>2 DEF ClientParcel, ServerParcel

\* A step of the client with a request.
ClientMoves ==
  /\ UNCHANGED <<net, made, routing, executed, silent, sOut, sIn>> /\ cur' \in {cur, 0}
  /\ answered' \in [RequestId -> Nat] /\ failed' \in [RequestId -> Failure]
  /\ \A r \in RequestId : answered'[r] <= executed[r]
  /\ c2s' \in Seq(ClientParcel) /\ Taken(s2c, s2c')
  /\ DOMAIN cOut' \subseteq Asked /\ OutOK(cOut', ClientAdvRetries)
  /\ DOMAIN cIn' \subseteq Answers /\ InOK(cIn')
  /\ DOMAIN responses' \subseteq 1 .. made /\ responses' \in [DOMAIN responses' -> Nat \ {0}]
  /\ \A r \in DOMAIN responses' : responses'[r] <= executed[r]

LEMMA ClientBasics == ASSUME BasicInv, ClientMoves PROVE BasicInv'
<1>1. Asked' = Asked /\ Answers' = Answers /\ ClientParcel' = ClientParcel /\ ServerParcel' = ServerParcel
  BY SameSets DEF ClientMoves
<1>2. s2c' \in Seq(ServerParcel)
  BY TakenIs DEF ClientMoves, BasicInv, NetOK
<1>3. NetOK'
  BY <1>1, <1>2 DEF ClientMoves, NetOK
<1>4. StateOK'
  BY DEF ClientMoves, BasicInv, StateOK, HadWhole
<1>5. MapsOK'
  BY <1>1 DEF ClientMoves, BasicInv, MapsOK
<1>6. ResponsesOK' /\ AnswerIsMine'
  BY DEF ClientMoves, ResponsesOK, AnswerIsMine
<1>7. QED
  BY <1>3, <1>4, <1>5, <1>6 DEF BasicInv

\* One that sends nothing new of its own.
LEMMA ClientQuiet ==
  ASSUME TransferInv, ClientMoves, cOut' = cOut,
         c2s' = c2s \/ \E e \in ClientParcel : e.type \notin ToS /\ c2s' = Append(c2s, e),
         \A r \in RequestId : failed'[r] = failed[r] \/ failed'[r] # "no outbound resource"
  PROVE  TransferInv'
<1>1. BasicInv /\ BasicInv' /\ c2s \in Seq(ClientParcel) /\ s2c \in Seq(ServerParcel)
  BY InvIs, ClientBasics DEF BasicInv, NetOK
<1>2. ASSUME net # "unordered", NEW r \in RequestId PROVE Once(r)'
  <2>1. Once(r)
    BY <1>2, InvIs
  <2>2. failed'[r] # "no outbound resource"
    BY <2>1 DEF Once, HadWhole
  <2>3. Quieter(s2c, s2c', <<r, 0>>, ToC)
    BY <1>1, QuietTaken DEF ClientMoves
  <2>4. Quieter(c2s, c2s', <<r, 0>>, ToS)
    <3>1. CASE c2s' = c2s
      BY <3>1 DEF Quieter
    <3>2. CASE \E e \in ClientParcel : e.type \notin ToS /\ c2s' = Append(c2s, e)
      <4>1. PICK e \in ClientParcel : e.type \notin ToS /\ c2s' = Append(c2s, e)
        BY <3>2
      <4>2. c2s' = c2s \o <<e>> /\ <<e>> \in Seq(ClientParcel)
        BY <1>1, <4>1, SingleIs
      <4>3. \A k \in DOMAIN <<e>> : <<e>>[k].type \notin ToS
        BY <4>1, SingleIs
      <4>4. QED
        BY <1>1, <4>2, <4>3, QuietMore
    <3>3. QED
      BY <3>1, <3>2
  <2>5. QED
    BY <2>1, <2>2, <2>3, <2>4, OnceKept DEF ClientMoves
<1>3. QED
  BY <1>1, <1>2, InvIs DEF ClientMoves

--------------------------------------------------------------------------------
(* The client's steps.                                                     *)

\* What stays as it was is as it should be.
LEMMA ClientStays ==
  ASSUME TransferInv
  PROVE  /\ answered \in [RequestId -> Nat] /\ failed \in [RequestId -> Failure] /\ made \in Nat
         /\ executed \in [RequestId -> Nat] /\ \A r \in RequestId : answered[r] <= executed[r]
         /\ c2s \in Seq(ClientParcel) /\ s2c \in Seq(ServerParcel)
         /\ DOMAIN cOut \subseteq Asked /\ OutOK(cOut, ClientAdvRetries)
         /\ DOMAIN cIn \subseteq Answers /\ InOK(cIn)
         /\ DOMAIN responses \subseteq 1 .. made /\ responses \in [DOMAIN responses -> Nat \ {0}]
         /\ \A r \in DOMAIN responses : responses[r] <= executed[r]
         /\ cur # 0 => cur \in RequestId
<1>1. StateOK /\ NetOK /\ MapsOK /\ ResponsesOK /\ AnswerIsMine
  BY DEF TransferInv
<1>2. cur # 0 => cur \in RequestId
  BY <1>1, Bounds DEF StateOK, RequestId
<1>3. made \in Nat
  BY <1>1, Bounds
<1>4. QED
  BY <1>1, <1>2, <1>3 DEF StateOK, NetOK, MapsOK, ResponsesOK, AnswerIsMine

\* A packet that the client takes.
LEMMA ToClientIs ==
  ASSUME TransferInv, NEW k, NEW t, ToClient(k, t)
  PROVE  /\ cur \in RequestId /\ k \in DOMAIN s2c /\ s2c[k] \in ServerParcel /\ s2c[k].type = t
         /\ s2c[k].res \in RequestId \X Nat /\ s2c[k].parts \in SUBSET PartNo
         /\ t \in {"response", "adv", "part"} => s2c[k].res \in Answers
         /\ t \in {"ask", "proof"} => s2c[k].res \in Asked
         /\ s2c' = Minus(s2c, k) /\ Taken(s2c, s2c') /\ (net # "unordered" => k = 1)
         /\ UNCHANGED <<net, made, routing, executed, silent, sOut, sIn>>
<1>1. cur \in RequestId /\ s2c \in Seq(ServerParcel)
  BY ClientStays DEF ToClient
<1>2. k \in DOMAIN s2c /\ s2c[k] \in ServerParcel /\ (net # "unordered" => k = 1)
  BY <1>1, ArrivingIs DEF ToClient
<1>3. QED
  BY <1>1, <1>2 DEF ToClient, serverVars, Taken, ServerParcel, Parcel

LEMMA TakeResponseHolds == ASSUME TransferInv, TakeResponse PROVE TransferInv'
<1>1. cur \in DOMAIN responses /\ cur \in RequestId /\ responses[cur] \in Nat /\ responses[cur] <= executed[cur]
  BY ClientStays, Bounds DEF TakeResponse, TransferInv
<1>2. /\ answered' = [answered EXCEPT ![cur] = responses[cur]] /\ cur' = 0
      /\ responses' = [y \in DOMAIN responses \ {cur} |-> responses[y]]
      /\ UNCHANGED <<failed, net, c2s, s2c, made, cOut, cIn, sOut, sIn, routing, executed, silent>>
  BY DEF TakeResponse, Return, Without, serverVars
<1>3. ClientMoves
  BY <1>1, <1>2, ClientStays DEF ClientMoves, Taken
<1>4. QED
  BY <1>2, <1>3, ClientQuiet

LEMMA ClientResponseHolds == ASSUME TransferInv, NEW k, ClientResponse(k) PROVE TransferInv'
<1> DEFINE h == s2c[k].res
<1>1. /\ cur \in RequestId /\ h \in Answers /\ Taken(s2c, s2c')
      /\ UNCHANGED <<net, made, routing, executed, silent, sOut, sIn>>
  BY ToClientIs DEF ClientResponse
<1>2. h[1] \in RequestId /\ h[2] \in Nat /\ h[2] <= executed[h[1]]
  BY <1>1, Bounds DEF Answers, TransferInv
<1>3. /\ cur' \in {cur, 0} /\ failed' = failed /\ UNCHANGED <<c2s, cOut, cIn, responses>>
      /\ \/ answered' = answered
         \/ answered' = [answered EXCEPT ![cur] = h[2]] /\ h[1] = cur
  BY DEF ClientResponse, Return, Waiting
<1> HIDE DEF h
<1>4. answered' \in [RequestId -> Nat] /\ \A r \in RequestId : answered'[r] <= executed[r]
  BY <1>1, <1>2, <1>3, ClientStays
<1>5. ClientMoves
  BY <1>1, <1>3, <1>4, ClientStays DEF ClientMoves
<1>6. QED
  BY <1>3, <1>5, ClientQuiet

LEMMA ClientAdvHolds == ASSUME TransferInv, NEW k, ClientAdv(k) PROVE TransferInv'
<1> DEFINE h == s2c[k].res
           e == Packet("ask", h, Inbound.asked)
<1>1. h \in Answers /\ Taken(s2c, s2c') /\ UNCHANGED <<net, made, routing, executed, silent, sOut, sIn>>
  BY ToClientIs DEF ClientAdv
<1>2. /\ cIn' = With(cIn, h, Inbound) /\ c2s' = Append(c2s, e)
      /\ UNCHANGED <<cur, answered, failed, cOut, responses>>
  BY DEF ClientAdv, Waiting
<1>3. e \in ClientParcel /\ e.type = "ask"
  BY <1>1, InboundIs, ClientSends, Bounds, PacketIs DEF TransferInv
<1> HIDE DEF h, e
<1>4. c2s' \in Seq(ClientParcel)
  BY <1>2, <1>3, ClientStays, AppendIs
<1>5. DOMAIN cIn' \subseteq Answers /\ InOK(cIn')
  <2>1. DOMAIN cIn \subseteq Answers /\ InOK(cIn)
    BY ClientStays
  <2>2. DOMAIN With(cIn, h, Inbound) = DOMAIN cIn \cup {h} /\ InOK(With(cIn, h, Inbound))
    BY <2>1, InMaps
  <2>3. QED
    BY <1>1, <1>2, <2>1, <2>2
<1>6. ClientMoves
  BY <1>1, <1>2, <1>4, <1>5, ClientStays DEF ClientMoves
<1>7. QED
  BY <1>2, <1>3, <1>6, ClientQuiet DEF ToS

\* The part in a packet is one of the parts there are.
LEMMA PartIn ==
  ASSUME NEW p \in Parcel, p.parts # {}
  PROVE  (CHOOSE i \in p.parts : TRUE) \in PartNo
BY DEF Parcel

LEMMA ClientPartHolds == ASSUME TransferInv, NEW k, ClientPart(k) PROVE TransferInv'
<1> DEFINE h == s2c[k].res
           i == CHOOSE i \in s2c[k].parts : TRUE
<1>1. /\ h \in Answers /\ Taken(s2c, s2c') /\ s2c[k] \in ServerParcel /\ s2c[k].type = "part"
      /\ UNCHANGED <<net, made, routing, executed, silent, sOut, sIn>>
  BY ToClientIs DEF ClientPart
<1>2. i \in PartNo
  BY <1>1, PartIn DEF ServerParcel
<1>3. UNCHANGED <<cur, answered, failed, cOut>>
  BY DEF ClientPart, Waiting
<1>4. /\ h[1] \in 1 .. made /\ h[1] \in RequestId /\ h[2] \in Nat \ {0} /\ h[2] <= executed[h[1]]
      /\ h \in RequestId \X Nat
  BY <1>1, Bounds DEF Answers, TransferInv
<1> HIDE DEF i
<1>5. CASE Completes(cIn, h, i)
  <2> DEFINE e == Packet("proof", h, {})
  <2>1. cIn' = Without(cIn, h) /\ c2s' = Append(c2s, e) /\ responses' = With(responses, h[1], h[2])
    BY <1>5 DEF ClientPart, i
  <2>2. e \in ClientParcel /\ e.type = "proof"
    BY <1>1, <1>4, ClientSends, PacketIs DEF TransferInv
  <2> HIDE DEF e, h
  <2>3. c2s' \in Seq(ClientParcel)
    BY <2>1, <2>2, ClientStays, AppendIs
  <2>4. DOMAIN cIn' \subseteq Answers /\ InOK(cIn')
    <3>1. DOMAIN cIn \subseteq Answers /\ InOK(cIn)
      BY ClientStays
    <3>2. DOMAIN Without(cIn, h) = DOMAIN cIn \ {h} /\ InOK(Without(cIn, h))
      BY <3>1, InMaps
    <3>3. QED
      BY <2>1, <3>1, <3>2
  <2>5. /\ DOMAIN responses' \subseteq 1 .. made /\ responses' \in [DOMAIN responses' -> Nat \ {0}]
        /\ \A r \in DOMAIN responses' : responses'[r] <= executed[r]
    BY <1>4, <2>1, ClientStays DEF With
  <2>6. ClientMoves
    BY <1>1, <1>3, <2>3, <2>4, <2>5, ClientStays DEF ClientMoves
  <2>7. QED
    BY <1>3, <2>1, <2>2, <2>6, ClientQuiet DEF ToS
<1>6. CASE ~Completes(cIn, h, i) /\ Accepts(cIn, h, i)
  <2>1. cIn' = FollowUp(cIn, h, i) /\ c2s' = c2s \o Asks(cIn, h, i) /\ responses' = responses
    BY <1>6 DEF ClientPart, i
  <2> HIDE DEF h
  <2>2. DOMAIN cIn' \subseteq Answers /\ InOK(cIn')
    BY <1>2, <1>6, <2>1, ClientStays, FollowUpIs
  <2>3. c2s' = c2s \/ \E e \in ClientParcel : e.type \notin ToS /\ c2s' = Append(c2s, e)
    <3>1. CASE Asks(cIn, h, i) = <<>>
      BY <2>1, <3>1, ClientStays, ConcatEmptySeq
    <3>2. CASE \E p \in SUBSET PartNo : Asks(cIn, h, i) = <<Packet("ask", h, p)>>
      <4>1. PICK p \in SUBSET PartNo : Asks(cIn, h, i) = <<Packet("ask", h, p)>>
        BY <3>2
      <4> DEFINE e == Packet("ask", h, p)
      <4>2. e \in ClientParcel /\ e.type = "ask"
        BY <1>1, <1>4, ClientSends, PacketIs DEF TransferInv
      <4>3. c2s' = Append(c2s, e)
        BY <2>1, <4>1, <4>2, ClientStays, SingleIs
      <4>4. QED
        BY <4>2, <4>3 DEF ToS
    <3>3. QED
      BY <1>2, <1>6, <3>1, <3>2, ClientStays, FollowUpIs
  <2>4. c2s' \in Seq(ClientParcel)
    <3>1. c2s \in Seq(ClientParcel)
      BY ClientStays
    <3>2. QED
      BY <2>3, <3>1, AppendIs
  <2>5. ClientMoves
    BY <1>1, <1>3, <2>1, <2>2, <2>4, ClientStays DEF ClientMoves
  <2>6. QED
    BY <1>3, <2>3, <2>5, ClientQuiet
<1>7. CASE ~Completes(cIn, h, i) /\ ~Accepts(cIn, h, i)
  <2>1. UNCHANGED <<cIn, c2s, responses>>
    BY <1>7 DEF ClientPart, i
  <2>2. ClientMoves
    BY <1>1, <1>3, <2>1, ClientStays DEF ClientMoves
  <2>3. QED
    BY <1>3, <2>1, <2>2, ClientQuiet
<1>8. QED
  BY <1>5, <1>6, <1>7

LEMMA GivesUpHolds == ASSUME TransferInv, Timeout \/ Lag PROVE TransferInv'
<1>1. PICK why \in {"timed out", "lagged"} : failed' = [failed EXCEPT ![cur] = why]
  BY DEF Timeout, Lag, Fail
<1>2. /\ cur' = 0 /\ cur \in RequestId
      /\ UNCHANGED <<net, c2s, made, answered, cOut, cIn, responses, sOut, sIn, routing, executed, silent>>
  BY ClientStays DEF Timeout, Lag, Fail, serverVars
<1>3. Taken(s2c, s2c')
  <2>1. CASE s2c' = s2c
    BY <2>1 DEF Taken
  <2>2. CASE s2c # <<>> /\ s2c' = Tail(s2c)
    <3>1. s2c \in Seq(ServerParcel)
      BY ClientStays
    <3>2. 1 \in DOMAIN s2c /\ s2c' = Minus(s2c, 1)
      BY <2>2, <3>1, TailIsMinus
    <3>3. QED
      BY <3>2 DEF Taken
  <2>3. QED
    BY <2>1, <2>2 DEF Timeout, Lag
<1>4. /\ failed' \in [RequestId -> Failure]
      /\ \A r \in RequestId : failed'[r] = failed[r] \/ failed'[r] # "no outbound resource"
  BY <1>1, <1>2, ClientStays DEF Failure
<1>5. ClientMoves
  BY <1>2, <1>3, <1>4, ClientStays DEF ClientMoves
<1>6. QED
  BY <1>2, <1>4, <1>5, ClientQuiet

\* A request is asked for only while it is offered.
LEMMA AskedIsThere ==
  ASSUME TransferInv, net # "unordered", NEW k \in DOMAIN s2c, s2c[k].type = "ask",
         s2c[k].res \in Asked
  PROVE  s2c[k].res \in DOMAIN cOut
<1>1. PICK r \in RequestId : s2c[k].res = <<r, 0>>
  BY Bounds DEF Asked, TransferInv
<1>2. Once(r) /\ Has(s2c, "ask", <<r, 0>>)
  BY <1>1 DEF TransferInv, Has
<1>3. QED
  BY <1>1, <1>2 DEF Once, HadWhole

LEMMA ClientAskHolds == ASSUME TransferInv, NEW k, ClientAsk(k) PROVE TransferInv'
<1> DEFINE h == s2c[k].res
           q == PartPackets(h, s2c[k].parts)
<1>1. /\ h \in Asked /\ h \in RequestId \X Nat /\ Taken(s2c, s2c') /\ k \in DOMAIN s2c
      /\ cur \in RequestId /\ s2c[k].type = "ask" /\ s2c[k].parts \in SUBSET PartNo
      /\ UNCHANGED <<net, made, routing, executed, silent, sOut, sIn>>
  BY ToClientIs DEF ClientAsk
<1>2. /\ q \in Seq(ClientParcel)
      /\ \A j \in DOMAIN q : q[j].type = "part" /\ q[j].res = h
  <2>1. /\ q \in Seq({Packet("part", h, {i}) : i \in PartNo})
        /\ \A j \in DOMAIN q : q[j].type = "part" /\ q[j].res = h
    BY ZenonT(40), <1>1, PartPacketsAre
  <2>2. {Packet("part", h, {i}) : i \in PartNo} \subseteq ClientParcel
    BY <1>1, ClientSends DEF TransferInv
  <2> HIDE DEF q
  <2>3. QED
    BY <2>1, <2>2, SeqMonotonic
<1>3. UNCHANGED <<cIn, responses, answered>>
  BY DEF ClientAsk, Fail, Waiting
<1>4. net # "unordered" => h \in DOMAIN cOut
  BY <1>1, AskedIsThere
<1>5. CASE h \in DOMAIN cOut
  <2>1. cOut' = [cOut EXCEPT ![h].sent = TRUE] /\ c2s' = c2s \o q /\ UNCHANGED <<cur, failed>>
    BY <1>5 DEF ClientAsk, Waiting
  <2> HIDE DEF h, q
  <2>2. /\ DOMAIN cOut' = DOMAIN cOut /\ OutOK(cOut', ClientAdvRetries) /\ cOut'[h].sent
        /\ \A g \in DOMAIN cOut : g # h => cOut'[g] = cOut[g]
    BY <1>5, <2>1, ClientStays, SentIs, Bounds
  <2>3. c2s' \in Seq(ClientParcel)
    BY <1>2, <2>1, ClientStays, AppendIs
  <2>4. ClientMoves
    BY <1>1, <1>3, <2>1, <2>2, <2>3, ClientStays DEF ClientMoves
  <2>5. ASSUME net # "unordered", NEW r \in RequestId PROVE Once(r)'
    <3>1. Once(r)
      BY <2>5 DEF TransferInv
    <3>2. Quieter(s2c, s2c', <<r, 0>>, ToC)
      BY <1>1, ClientStays, QuietTaken
    <3>3. CASE h # <<r, 0>>
      <4>1. Quieter(c2s, c2s', <<r, 0>>, ToS)
        BY <1>2, <2>1, <3>3, ClientStays, QuietMore
      <4>2. failed'[r] # "no outbound resource"
        BY <2>1, <3>1 DEF Once, HadWhole
      <4>3. <<r, 0>> \in DOMAIN cOut /\ cOut[<<r, 0>>].sent => cOut'[<<r, 0>>].sent
        BY <2>2, <3>3
      <4>4. QED
        BY <1>1, <2>2, <3>1, <3>2, <4>1, <4>2, <4>3, OnceKept
    <3>4. CASE h = <<r, 0>>
      <4>1. /\ Has(s2c', "ask", h) => Has(s2c, "ask", h)
            /\ NoneAfter(s2c, "proof", "ask", h) => NoneAfter(s2c', "proof", "ask", h)
        BY <3>2, <3>4 DEF Quieter, ToC
      <4>2. /\ ~Has(q, "adv", h) /\ ~Has(q, "request", h)
            /\ NoneAfter(q, "part", "adv", h) /\ NoneAfter(q, "request", "request", h)
        BY <1>2 DEF Has, NoneAfter
      <4>3. /\ Has(c2s', "adv", h) => Has(c2s, "adv", h)
            /\ Has(c2s', "request", h) => Has(c2s, "request", h)
            /\ NoneAfter(c2s, "part", "adv", h) => NoneAfter(c2s', "part", "adv", h)
            /\ NoneAfter(c2s, "request", "request", h) => NoneAfter(c2s', "request", "request", h)
        BY <1>2, <2>1, <4>2, ClientStays, MoreIs
      <4>4. QED
        BY <1>1, <2>1, <2>2, <3>1, <3>4, <4>1, <4>3 DEF Once, HadWhole
    <3>5. QED
      BY <3>3, <3>4
  <2>6. QED
    BY <1>1, <2>4, <2>5, ClientBasics, InvIs
<1>6. CASE h \notin DOMAIN cOut
  <2>1. /\ failed' = [failed EXCEPT ![cur] = "no outbound resource"] /\ cur' = 0
        /\ UNCHANGED <<cOut, c2s>>
    BY <1>6 DEF ClientAsk, Fail
  <2>2. failed' \in [RequestId -> Failure]
    BY <2>1, ClientStays DEF Failure
  <2>3. ClientMoves
    BY <1>1, <1>3, <2>1, <2>2, ClientStays DEF ClientMoves
  <2>4. net = "unordered"
    BY <1>4, <1>6
  <2>5. QED
    BY <1>1, <2>3, <2>4, ClientBasics, InvIs
<1>7. QED
  BY <1>5, <1>6

\* The server has what it proves.
LEMMA ClientProofIs ==
  ASSUME TransferInv, NEW k, ClientProof(k)
  PROVE  /\ s2c[k].res \in Asked /\ HadWhole(s2c[k].res[1])
         /\ DOMAIN cOut' = DOMAIN cOut \ {s2c[k].res}
         /\ \A g \in DOMAIN cOut' : cOut'[g] = cOut[g]
<1>1. s2c[k] \in ServerParcel /\ s2c[k].type = "proof" /\ s2c[k].res \in Asked
  BY ToClientIs DEF ClientProof
<1>2. cOut' = Without(cOut, s2c[k].res)
  BY DEF ClientProof
<1>3. QED
  BY <1>1, <1>2 DEF ServerParcel, Without

LEMMA ClientProofHolds == ASSUME TransferInv, NEW k, ClientProof(k) PROVE TransferInv'
<1> DEFINE h == s2c[k].res
<1>1. /\ h \in Asked /\ Taken(s2c, s2c') /\ k \in DOMAIN s2c /\ s2c' = Minus(s2c, k)
      /\ s2c[k].type = "proof" /\ (net # "unordered" => k = 1)
      /\ UNCHANGED <<net, made, routing, executed, silent, sOut, sIn>>
  BY ToClientIs DEF ClientProof
<1>2. /\ cOut' = Without(cOut, h) /\ UNCHANGED <<cur, answered, failed, c2s, cIn, responses>>
  BY DEF ClientProof, Waiting
<1>3. /\ HadWhole(h[1]) /\ DOMAIN cOut' = DOMAIN cOut \ {h}
      /\ \A g \in DOMAIN cOut' : cOut'[g] = cOut[g]
  BY ClientProofIs
<1>4. OutOK(cOut', ClientAdvRetries)
  BY <1>2, ClientStays, OutboundIs, Bounds
<1>5. ClientMoves
  BY <1>1, <1>2, <1>3, <1>4, ClientStays DEF ClientMoves
<1>6. ASSUME net # "unordered", NEW r \in RequestId PROVE Once(r)'
  <2>1. Once(r)
    BY <1>6 DEF TransferInv
  <2>2. Quieter(s2c, s2c', <<r, 0>>, ToC)
    BY <1>1, ClientStays, QuietTaken
  <2>3. Quieter(c2s, c2s', <<r, 0>>, ToS)
    BY <1>2 DEF Quieter
  <2>4. failed'[r] # "no outbound resource"
    BY <1>2, <2>1 DEF Once, HadWhole
  <2>5. CASE h # <<r, 0>>
    BY <1>1, <1>3, <2>1, <2>2, <2>3, <2>4, <2>5, OnceKept
  <2>6. CASE h = <<r, 0>>
    <3>1. HadWhole(r) /\ h \notin DOMAIN cOut'
      BY <1>3, <2>6
    <3>2. NoneAfter(s2c, "proof", "ask", h) => ~Has(s2c', "ask", h) /\ NoneAfter(s2c', "proof", "ask", h)
      BY <1>1, <1>6, ClientStays, LessIs
    <3>3. QED
      BY <1>1, <1>2, <2>1, <2>6, <3>1, <3>2 DEF Once, HadWhole
  <2>7. QED
    BY <2>5, <2>6
<1>7. QED
  BY <1>1, <1>5, <1>6, ClientBasics, InvIs

LEMMA RetryHolds == ASSUME TransferInv, RetryAdvertisements PROVE TransferInv'
<1> DEFINE due == Due(cOut, ClientAdvRetries)
           q == Advs(due)
<1>1. /\ cOut' = Retried(cOut, due) /\ c2s' = c2s \o q
      /\ UNCHANGED <<net, s2c, cur, made, answered, failed, cIn, responses, sOut, sIn, routing, executed, silent>>
  BY DEF RetryAdvertisements, serverVars
<1>2. /\ due \subseteq DOMAIN cOut /\ IsFiniteSet(due) /\ \A h \in due : ~cOut[h].sent
      /\ DOMAIN cOut' = DOMAIN cOut /\ OutOK(cOut', ClientAdvRetries)
      /\ \A h \in DOMAIN cOut : cOut'[h].sent = cOut[h].sent
  BY <1>1, ClientStays, RetriedIs, Bounds
<1>3. DOMAIN cOut \subseteq Asked
  BY ClientStays
<1> HIDE DEF due
<1>4. q \in Seq(ClientParcel) /\ \A j \in DOMAIN q : q[j].type = "adv" /\ q[j].res \in due
  <2>1. /\ q \in Seq({Packet("adv", h, {}) : h \in due})
        /\ \A j \in DOMAIN q : q[j].type = "adv" /\ q[j].res \in due
    BY <1>2, AdvsAre
  <2>2. {Packet("adv", h, {}) : h \in due} \subseteq ClientParcel
    BY <1>2, <1>3, ClientSends DEF TransferInv
  <2> HIDE DEF q
  <2>3. QED
    BY <2>1, <2>2, SeqMonotonic
<1> HIDE DEF q
<1>5. c2s' \in Seq(ClientParcel)
  BY <1>1, <1>4, ClientStays, AppendIs
<1>6. Taken(s2c, s2c')
  BY <1>1 DEF Taken
<1>7. ClientMoves
  BY <1>1, <1>2, <1>3, <1>5, <1>6, ClientStays DEF ClientMoves
<1>8. ASSUME net # "unordered", NEW r \in RequestId PROVE Once(r)'
  <2> DEFINE h == <<r, 0>>
  <2>1. Once(r) /\ failed'[r] # "no outbound resource"
    BY <1>1, <1>8 DEF TransferInv, Once, HadWhole
  <2>2. Quieter(s2c, s2c', h, ToC)
    BY <1>1 DEF Quieter
  <2>3. CASE h \notin due
    <3>1. Quieter(c2s, c2s', h, ToS)
      BY <1>1, <1>4, <2>3, ClientStays, QuietMore
    <3>2. QED
      BY <1>1, <1>2, <2>1, <2>2, <3>1, OnceKept
  <2>4. CASE h \in due
    <3>1. h \in DOMAIN cOut /\ ~cOut[h].sent
      BY <1>2, <2>4
    <3>2. ~Has(c2s, "part", h) /\ ~HadWhole(r) /\ ~Has(c2s, "request", h)
      BY <2>1, <3>1 DEF Once, HadWhole
    <3>3. /\ ~Has(q, "part", h) /\ ~Has(q, "request", h)
          /\ NoneAfter(q, "part", "adv", h) /\ NoneAfter(q, "request", "request", h)
      BY <1>4 DEF Has, NoneAfter
    <3>4. /\ ~Has(c2s', "part", h) /\ ~Has(c2s', "request", h)
          /\ NoneAfter(c2s, "part", "adv", h) => NoneAfter(c2s', "part", "adv", h)
          /\ NoneAfter(c2s, "request", "request", h) => NoneAfter(c2s', "request", "request", h)
      BY <1>1, <1>4, <3>2, <3>3, ClientStays, MoreIs
    <3>5. QED
      BY <1>1, <1>2, <2>1, <3>1, <3>2, <3>4 DEF Once, HadWhole
  <2>5. QED
    BY <2>3, <2>4
<1>9. QED
  BY <1>1, <1>7, <1>8, ClientBasics, InvIs

\* A request that was not made leaves no trace.
LEMMA Fresh ==
  ASSUME TransferInv, NEW r \in RequestId, r > made, NEW t
  PROVE  /\ executed[r] = 0 /\ ~HadWhole(r) /\ <<r, 0>> \notin DOMAIN cOut /\ <<r, 0>> \notin DOMAIN sIn
         /\ t \in {"request", "adv", "part"} => ~Has(c2s, t, <<r, 0>>)
         /\ ~Has(s2c, "ask", <<r, 0>>)
<1>1. made \in Nat /\ r \in Nat /\ <<r, 0>> \notin Asked /\ executed[r] \in Nat
  BY Bounds DEF TransferInv, StateOK, RequestId, Asked
<1>2. executed[r] = 0 /\ ~HadWhole(r)
  <2>1. ~HadWhole(r)
    BY <1>1 DEF TransferInv, StateOK
  <2>2. QED
    BY <1>1, <2>1 DEF HadWhole
<1>3. <<r, 0>> \notin DOMAIN cOut /\ <<r, 0>> \notin DOMAIN sIn
  BY <1>1 DEF TransferInv, MapsOK
<1>4. /\ \A k \in DOMAIN c2s : c2s[k] \in ClientParcel
      /\ \A k \in DOMAIN s2c : s2c[k] \in ServerParcel
  BY ElementsOf DEF TransferInv, NetOK
<1>5. t \in {"request", "adv", "part"} => ~Has(c2s, t, <<r, 0>>)
  BY <1>1, <1>4 DEF Has, ClientParcel
<1>6. ~Has(s2c, "ask", <<r, 0>>)
  BY <1>1, <1>4 DEF Has, ServerParcel
<1>7. QED
  BY <1>2, <1>3, <1>5, <1>6

LEMMA SendHolds == ASSUME TransferInv, NEW inline \in BOOLEAN, Send(inline) PROVE TransferInv'
<1> DEFINE n == made + 1
           g == <<n, 0>>
           e == Packet(IF inline THEN "request" ELSE "adv", g, {})
<1>1. /\ cur' = n /\ made' = n /\ c2s' = Append(c2s, e)
      /\ cOut' = IF inline THEN cOut ELSE With(cOut, g, Outbound)
      /\ UNCHANGED <<net, s2c, answered, failed, cIn, responses, sOut, sIn, routing, executed, silent>>
  BY DEF Send, serverVars
<1>2. made \in Nat /\ n \in RequestId /\ n > made
  <2>1. made < IF net = "unordered" THEN MaxUnordered ELSE MaxRequests
    BY DEF Send
  <2>2. made \in Nat /\ MaxUnordered \in 0 .. MaxRequests /\ MaxRequests \in Nat
    BY Bounds, TransferAssumption DEF TransferInv
  <2>3. CASE made < MaxRequests
    BY <2>2, <2>3 DEF RequestId
  <2>4. QED
    BY <2>1, <2>2, <2>3
<1>3. StateOK' /\ StateOK
  <2>1. StateOK
    BY DEF TransferInv
  <2>2. n \in 0 .. MaxRequests /\ n \in 0 .. n
    BY <1>2, Bounds DEF RequestId
  <2>3. \A r \in RequestId : HadWhole(r)' => r <= n
    BY <1>1, <1>2, <2>1 DEF StateOK, RequestId, HadWhole
  <2>4. QED
    BY <1>1, <2>1, <2>2, <2>3 DEF StateOK
<1>4. Grows
  BY <1>1, <1>2, <1>3 DEF Grows, StateOK, HadWhole
<1>5. g \in Asked'
  BY <1>1, <1>2 DEF Asked
<1>6. e \in ClientParcel' /\ e.res = g /\ e.type = IF inline THEN "request" ELSE "adv"
  <2>1. /\ Packet("request", g, {}) \in ClientParcel' /\ Packet("adv", g, {}) \in ClientParcel'
    BY <1>2, <1>5, PacketIs DEF ClientParcel
  <2>2. QED
    BY <2>1, <1>2, PacketIs
<1>7. /\ 1 .. made \subseteq 1 .. made' /\ Asked \subseteq Asked' /\ Answers \subseteq Answers'
      /\ ClientParcel \subseteq ClientParcel' /\ ServerParcel \subseteq ServerParcel'
  BY <1>3, <1>4, Grown
<1> HIDE DEF n, g, e
<1>8. c2s \in Seq(ClientParcel') /\ s2c \in Seq(ServerParcel')
  BY <1>7, ClientStays, SeqMonotonic
<1>9. c2s' = c2s \o <<e>> /\ <<e>> \in Seq(ClientParcel') /\ NetOK'
  <2>1. c2s' = c2s \o <<e>> /\ <<e>> \in Seq(ClientParcel')
    BY <1>1, <1>6, <1>8, SingleIs
  <2>2. c2s' \in Seq(ClientParcel')
    BY <1>1, <1>6, <1>8, AppendIs
  <2>3. QED
    BY <1>1, <1>8, <2>1, <2>2 DEF NetOK
<1>10. /\ DOMAIN cOut' = (IF inline THEN DOMAIN cOut ELSE DOMAIN cOut \cup {g})
       /\ OutOK(cOut', ClientAdvRetries) /\ \A h \in DOMAIN cOut : h # g => cOut'[h] = cOut[h]
  BY <1>1, ClientStays, OutboundIs, Bounds DEF With
<1>11. BasicInv'
  <2>1. MapsOK'
    BY <1>1, <1>5, <1>7, <1>10 DEF TransferInv, MapsOK
  <2>2. ResponsesOK' /\ AnswerIsMine'
    BY <1>1, <1>7 DEF TransferInv, ResponsesOK, AnswerIsMine
  <2>3. QED
    BY <1>3, <1>9, <2>1, <2>2 DEF BasicInv
<1>12. ASSUME net # "unordered", NEW r \in RequestId PROVE Once(r)'
  <2> DEFINE h == <<r, 0>>
  <2>1. Once(r) /\ failed'[r] # "no outbound resource"
    BY <1>1, <1>12 DEF TransferInv, Once, HadWhole
  <2>2. CASE r # n
    <3>1. h # g
      BY <2>2 DEF g
    <3>2. \A k \in DOMAIN <<e>> : <<e>>[k].res # h
      BY <1>6, <3>1, SingleIs
    <3>3. Quieter(c2s, c2s', h, ToS)
      BY <1>8, <1>9, <3>2, QuietMore
    <3>4. Quieter(s2c, s2c', h, ToC)
      BY <1>1 DEF Quieter
    <3>5. QED
      BY <1>1, <1>10, <2>1, <3>1, <3>3, <3>4, OnceKept
  <2>3. CASE r = n
    <3>1. /\ executed[r] = 0 /\ ~HadWhole(r) /\ h \notin DOMAIN cOut /\ h \notin DOMAIN sIn
          /\ ~Has(c2s, "request", h) /\ ~Has(c2s, "adv", h) /\ ~Has(c2s, "part", h)
          /\ ~Has(s2c, "ask", h)
      BY <1>2, <2>3, Fresh
    <3>2. /\ Has(<<e>>, "request", h) => inline
          /\ Has(<<e>>, "adv", h) => ~inline
          /\ ~Has(<<e>>, "part", h)
          /\ NoneAfter(<<e>>, "part", "adv", h) /\ NoneAfter(<<e>>, "request", "request", h)
      <4>1. /\ Has(<<e>>, "request", h) => e.type = "request"
            /\ Has(<<e>>, "adv", h) => e.type = "adv"
            /\ Has(<<e>>, "part", h) => e.type = "part"
        BY <1>6, SingleIs
      <4>2. NoneAfter(<<e>>, "part", "adv", h) /\ NoneAfter(<<e>>, "request", "request", h)
        BY <1>6, SingleIs
      <4>3. QED
        BY <1>6, <4>1, <4>2
    <3>3. /\ Has(c2s', "request", h) => inline
          /\ Has(c2s', "adv", h) => ~inline
          /\ ~Has(c2s', "part", h)
          /\ NoneAfter(c2s, "part", "adv", h) => NoneAfter(c2s', "part", "adv", h)
          /\ NoneAfter(c2s, "request", "request", h) => NoneAfter(c2s', "request", "request", h)
      BY <1>8, <1>9, <3>1, <3>2, MoreIs
    <3>4. h = g
      BY <2>3 DEF g
    <3>5. h \in DOMAIN cOut' <=> ~inline
      BY <1>10, <3>1, <3>4
    <3>6. /\ executed'[r] = 0 /\ executed'[r] <= 1 /\ ~HadWhole(r)' /\ h \notin DOMAIN sIn'
          /\ ~Has(s2c', "ask", h) /\ NoneAfter(s2c', "proof", "ask", h)
      <4>1. executed'[r] = 0 /\ ~HadWhole(r)'
        BY <1>1, <3>1 DEF HadWhole
      <4>2. NoneAfter(s2c, "proof", "ask", h)
        BY <2>1 DEF Once, HadWhole
      <4>3. QED
        BY <1>1, <3>1, <4>1, <4>2
    <3>7. NoneAfter(c2s', "part", "adv", h) /\ NoneAfter(c2s', "request", "request", h)
      BY <2>1, <3>3 DEF Once, HadWhole
    <3>8. QED
      BY <2>1, <3>3, <3>5, <3>6, <3>7 DEF Once, HadWhole
  <2>4. QED
    BY <2>2, <2>3
<1>13. QED
  BY <1>1, <1>11, <1>12, InvIs

LEMMA LoseHolds == ASSUME TransferInv, Lose PROVE TransferInv'
<1>1. UNCHANGED <<net, cur, made, answered, failed, cOut, cIn, responses, sOut, sIn, routing, executed, silent>>
  BY DEF Lose, clientVars, serverVars
<1>2. Taken(c2s, c2s') /\ Taken(s2c, s2c')
  <2>1. /\ \A k \in Arriving(c2s) : k \in DOMAIN c2s
        /\ \A k \in Arriving(s2c) : k \in DOMAIN s2c
    BY ClientStays, ArrivingIs
  <2>2. QED
    BY <2>1 DEF Lose, Taken
<1>3. c2s' \in Seq(ClientParcel)
  BY <1>2, ClientStays, TakenIs
<1>4. ClientMoves
  BY <1>1, <1>2, <1>3, ClientStays DEF ClientMoves
<1>5. ASSUME net # "unordered", NEW r \in RequestId PROVE Once(r)'
  <2>1. Once(r) /\ failed'[r] # "no outbound resource"
    BY <1>1, <1>5 DEF TransferInv, Once, HadWhole
  <2>2. Quieter(c2s, c2s', <<r, 0>>, ToS) /\ Quieter(s2c, s2c', <<r, 0>>, ToC)
    BY <1>2, ClientStays, QuietTaken
  <2>3. QED
    BY <1>1, <2>1, <2>2, OnceKept
<1>6. QED
  BY <1>1, <1>4, <1>5, ClientBasics, InvIs

--------------------------------------------------------------------------------
(* The server's steps.                                                     *)

LEMMA ServerStays ==
  ASSUME TransferInv
  PROVE  /\ StateOK /\ BasicInv /\ c2s \in Seq(ClientParcel) /\ s2c \in Seq(ServerParcel)
         /\ DOMAIN sOut \subseteq Answers /\ OutOK(sOut, ServerAdvRetries)
         /\ DOMAIN sIn \subseteq Asked /\ InOK(sIn)
BY DEF TransferInv, BasicInv, NetOK, MapsOK

\* A packet that the server takes.
LEMMA ToServerIs ==
  ASSUME TransferInv, NEW k, NEW t, ToServer(k, t)
  PROVE  /\ k \in DOMAIN c2s /\ c2s[k] \in ClientParcel /\ c2s[k].type = t
         /\ c2s[k].res \in RequestId \X Nat /\ c2s[k].parts \in SUBSET PartNo
         /\ t \in {"request", "adv", "part"} => c2s[k].res \in Asked
         /\ t \in {"ask", "proof"} => c2s[k].res \in Answers
         /\ c2s' = Minus(c2s, k) /\ Taken(c2s, c2s') /\ (net # "unordered" => k = 1)
         /\ UNCHANGED <<net, cur, made, answered, failed, cOut, cIn, responses>>
<1>1. k \in DOMAIN c2s /\ c2s[k] \in ClientParcel /\ (net # "unordered" => k = 1)
  BY ClientStays, ArrivingIs DEF ToServer
<1>2. QED
  BY <1>1 DEF ToServer, clientVars, Taken, ClientParcel, Parcel

\* A step of the server that executes nothing.
ServerMoves ==
  /\ UNCHANGED <<net, cur, made, answered, failed, cOut, cIn, responses, routing, executed, silent>>
  /\ Taken(c2s, c2s') /\ s2c' \in Seq(ServerParcel)
  /\ DOMAIN sOut' \subseteq Answers /\ OutOK(sOut', ServerAdvRetries)
  /\ DOMAIN sIn' \subseteq Asked /\ InOK(sIn')

LEMMA ServerBasics == ASSUME TransferInv, ServerMoves PROVE BasicInv'
<1>1. Asked' = Asked /\ Answers' = Answers /\ ClientParcel' = ClientParcel /\ ServerParcel' = ServerParcel
  BY SameSets DEF ServerMoves
<1>2. c2s' \in Seq(ClientParcel)
  BY ServerStays, TakenIs DEF ServerMoves
<1>3. NetOK'
  BY <1>1, <1>2 DEF ServerMoves, NetOK
<1>4. StateOK'
  BY DEF ServerMoves, TransferInv, StateOK, HadWhole
<1>5. ResponsesOK' /\ AnswerIsMine'
  BY DEF ServerMoves, TransferInv, ResponsesOK, AnswerIsMine
<1>6. MapsOK'
  BY <1>1 DEF ServerMoves, TransferInv, MapsOK
<1>7. QED
  BY <1>3, <1>4, <1>5, <1>6 DEF BasicInv

\* One that asks for nothing.
LEMMA ServerQuiet ==
  ASSUME TransferInv, ServerMoves, DOMAIN sIn' \subseteq DOMAIN sIn,
         s2c' = s2c \/ \E q \in Seq(ServerParcel) :
                         (\A j \in DOMAIN q : q[j].type \notin ToC) /\ s2c' = s2c \o q
  PROVE  TransferInv'
<1>1. ASSUME net # "unordered", NEW r \in RequestId PROVE Once(r)'
  <2>1. Once(r) /\ failed'[r] # "no outbound resource"
    BY <1>1 DEF TransferInv, Once, HadWhole, ServerMoves
  <2>2. Quieter(c2s, c2s', <<r, 0>>, ToS)
    BY ServerStays, QuietTaken DEF ServerMoves
  <2>3. Quieter(s2c, s2c', <<r, 0>>, ToC)
    <3>1. CASE s2c' = s2c
      BY <3>1 DEF Quieter
    <3>2. CASE \E q \in Seq(ServerParcel) : (\A j \in DOMAIN q : q[j].type \notin ToC) /\ s2c' = s2c \o q
      <4>1. PICK q \in Seq(ServerParcel) : (\A j \in DOMAIN q : q[j].type \notin ToC) /\ s2c' = s2c \o q
        BY <3>2
      <4>2. QED
        BY <4>1, ServerStays, QuietMore
    <3>3. QED
      BY <3>1, <3>2
  <2>4. QED
    BY <2>1, <2>2, <2>3, OnceKept DEF ServerMoves
<1>2. QED
  BY <1>1, ServerBasics, InvIs DEF ServerMoves

\* One that asks for parts of a request, which is offered and not whole yet.
LEMMA ServerAsksHolds ==
  ASSUME TransferInv, ServerMoves, NEW h \in Asked, NEW p \in SUBSET PartNo,
         s2c' = s2c \o <<Packet("ask", h, p)>>,
         DOMAIN sIn' \subseteq DOMAIN sIn \cup {h},
         net # "unordered" => h \in DOMAIN cOut /\ ~HadWhole(h[1])
  PROVE  TransferInv'
<1> DEFINE e == Packet("ask", h, p)
<1>1. h \in RequestId \X Nat /\ <<e>> \in Seq(ServerParcel) /\ e.type = "ask" /\ e.res = h
  <2>1. h \in RequestId \X Nat /\ e \in ServerParcel
    BY ServerStays, ServerSends, Bounds
  <2>2. e.type = "ask" /\ e.res = h
    BY <2>1, PacketIs
  <2>3. QED
    BY <2>1, <2>2, SingleIs
<1> HIDE DEF e
<1>2. s2c' = s2c \o <<e>>
  BY DEF e
<1>3. ASSUME net # "unordered", NEW r \in RequestId PROVE Once(r)'
  <2>1. Once(r) /\ failed'[r] # "no outbound resource"
    BY <1>3 DEF TransferInv, Once, HadWhole, ServerMoves
  <2>2. Quieter(c2s, c2s', <<r, 0>>, ToS)
    BY ServerStays, QuietTaken DEF ServerMoves
  <2>3. CASE h # <<r, 0>>
    <3>1. \A j \in DOMAIN <<e>> : <<e>>[j].res # <<r, 0>>
      BY <1>1, <2>3, SingleIs
    <3>2. Quieter(s2c, s2c', <<r, 0>>, ToC)
      BY <1>1, <1>2, <3>1, ServerStays, QuietMore
    <3>3. QED
      BY <2>1, <2>2, <2>3, <3>2, OnceKept DEF ServerMoves
  <2>4. CASE h = <<r, 0>>
    <3>1. ~HadWhole(r) /\ ~HadWhole(r)' /\ h \in DOMAIN cOut'
      BY <1>3, <2>4 DEF ServerMoves, HadWhole
    <3>2. ~Has(s2c, "proof", h)
      <4>1. \A j \in DOMAIN s2c : s2c[j] \in ServerParcel
        BY ServerStays, ElementsOf
      <4>2. \A j \in DOMAIN s2c : s2c[j].type = "proof" => HadWhole(s2c[j].res[1])
        BY <4>1 DEF ServerParcel
      <4>3. QED
        BY <2>4, <3>1, <4>2 DEF Has
    <3>3. NoneAfter(<<e>>, "proof", "ask", h)
      BY <1>1, SingleIs
    <3>4. NoneAfter(s2c', "proof", "ask", h)
      <4>1. NoneAfter(s2c, "proof", "ask", h)
        BY <2>1, <2>4 DEF Once, HadWhole
      <4>2. s2c \in Seq(ServerParcel) /\ <<e>> \in Seq(ServerParcel)
        BY <1>1, ServerStays
      <4>3. NoneAfter(s2c \o <<e>>, "proof", "ask", h)
        BY <3>2, <3>3, <4>1, <4>2, MoreIs
      <4>4. QED
        BY <1>2, <4>3
    <3>5. /\ Has(c2s', "part", h) => Has(c2s, "part", h)
          /\ Has(c2s', "request", h) => Has(c2s, "request", h)
          /\ NoneAfter(c2s', "part", "adv", h) /\ NoneAfter(c2s', "request", "request", h)
      BY <2>1, <2>2, <2>4 DEF Quieter, ToS, Once, HadWhole
    <3>6. cOut' = cOut /\ executed'[r] <= 1 /\ ~HadWhole(r)'
      BY <2>1, <3>1 DEF ServerMoves, Once
    <3>7. /\ Has(c2s', "part", h) => h \notin DOMAIN cOut' \/ cOut'[h].sent
          /\ ~Has(c2s', "request", h)
      BY <2>1, <2>4, <3>1, <3>5, <3>6 DEF Once, HadWhole
    <3>8. QED
      BY <2>1, <2>4, <3>1, <3>4, <3>5, <3>6, <3>7 DEF Once, HadWhole
  <2>5. QED
    BY <2>3, <2>4
<1>4. QED
  BY <1>3, ServerBasics, InvIs DEF ServerMoves

LEMMA ServerAdvHolds == ASSUME TransferInv, NEW k, ServerAdv(k) PROVE TransferInv'
<1> DEFINE h == c2s[k].res
           e == Packet("ask", h, Inbound.asked)
<1>1. /\ h \in Asked /\ h \in RequestId \X Nat /\ k \in DOMAIN c2s /\ c2s[k].type = "adv" /\ Taken(c2s, c2s')
      /\ UNCHANGED <<net, cur, made, answered, failed, cOut, cIn, responses>>
  BY ToServerIs DEF ServerAdv
<1>2. sIn' = With(sIn, h, Inbound) /\ s2c' = Append(s2c, e) /\ UNCHANGED <<sOut, routing, executed, silent>>
  BY DEF ServerAdv, ToServer
<1>3. Inbound.asked \in SUBSET PartNo
  BY InboundIs
<1>4. s2c' = s2c \o <<e>> /\ s2c' \in Seq(ServerParcel)
  <2>1. e \in ServerParcel
    BY <1>1, <1>3, ServerStays, ServerSends
  <2>2. s2c \in Seq(ServerParcel)
    BY ServerStays
  <2> HIDE DEF e
  <2>3. QED
    BY <1>2, <2>1, <2>2, SingleIs, AppendIs
<1>5. net # "unordered" => h \in DOMAIN cOut /\ ~HadWhole(h[1])
  <2>1. SUFFICES ASSUME net # "unordered" PROVE h \in DOMAIN cOut /\ ~HadWhole(h[1])
    OBVIOUS
  <2>2. PICK r \in RequestId : h = <<r, 0>>
    BY <1>1, Bounds DEF Asked, TransferInv
  <2>3. Once(r) /\ Has(c2s, "adv", <<r, 0>>)
    BY <1>1, <2>1, <2>2, ClientStays DEF TransferInv, Has
  <2>4. <<r, 0>> \in DOMAIN cOut /\ ~HadWhole(r)
    BY <2>3 DEF Once
  <2>5. QED
    BY <2>2, <2>3, <2>4
<1> HIDE DEF h
<1>6. DOMAIN sIn' = DOMAIN sIn \cup {h} /\ InOK(sIn') /\ DOMAIN sIn' \subseteq Asked
  <2>1. DOMAIN sIn \subseteq Asked /\ InOK(sIn)
    BY ServerStays
  <2>2. DOMAIN With(sIn, h, Inbound) = DOMAIN sIn \cup {h} /\ InOK(With(sIn, h, Inbound))
    BY <2>1, InMaps
  <2>3. QED
    BY <1>1, <1>2, <2>1, <2>2
<1>7. ServerMoves
  BY <1>1, <1>2, <1>4, <1>6, ServerStays DEF ServerMoves
<1>8. QED
  BY <1>1, <1>3, <1>4, <1>5, <1>6, <1>7, ServerAsksHolds

LEMMA ServerAskHolds == ASSUME TransferInv, NEW k, ServerAsk(k) PROVE TransferInv'
<1> DEFINE h == c2s[k].res
           q == PartPackets(h, c2s[k].parts)
<1>1. /\ h \in Answers /\ h \in RequestId \X Nat /\ Taken(c2s, c2s') /\ c2s[k].parts \in SUBSET PartNo
      /\ UNCHANGED <<net, cur, made, answered, failed, cOut, cIn, responses>>
  BY ToServerIs DEF ServerAsk
<1>2. UNCHANGED <<sIn, routing, executed, silent>>
  BY DEF ServerAsk, ToServer
<1>3. q \in Seq(ServerParcel) /\ \A j \in DOMAIN q : q[j].type \notin ToC
  <2>1. /\ q \in Seq({Packet("part", h, {i}) : i \in PartNo})
        /\ \A j \in DOMAIN q : q[j].type = "part" /\ q[j].res = h
    BY <1>1, PartPacketsAre
  <2>2. {Packet("part", h, {i}) : i \in PartNo} \subseteq ServerParcel
    BY <1>1, ServerStays, ServerSends
  <2> HIDE DEF q
  <2>3. QED
    BY <2>1, <2>2, SeqMonotonic DEF ToC
<1>4. CASE h \in DOMAIN sOut
  <2>1. sOut' = [sOut EXCEPT ![h].sent = TRUE] /\ s2c' = s2c \o q
    BY <1>4 DEF ServerAsk
  <2> HIDE DEF h, q
  <2>2. DOMAIN sOut' = DOMAIN sOut /\ OutOK(sOut', ServerAdvRetries)
    BY <1>4, <2>1, ServerStays, SentIs, Bounds
  <2>3. s2c' \in Seq(ServerParcel)
    BY <1>3, <2>1, ServerStays, AppendIs
  <2>4. ServerMoves
    BY <1>1, <1>2, <2>2, <2>3, ServerStays DEF ServerMoves
  <2>5. QED
    BY <1>2, <1>3, <2>1, <2>4, ServerQuiet
<1>5. CASE h \notin DOMAIN sOut
  <2>1. UNCHANGED <<sOut, s2c>>
    BY <1>5 DEF ServerAsk
  <2>2. ServerMoves
    BY <1>1, <1>2, <2>1, ServerStays DEF ServerMoves
  <2>3. QED
    BY <1>2, <2>1, <2>2, ServerQuiet
<1>6. QED
  BY <1>4, <1>5

LEMMA ServerProofHolds == ASSUME TransferInv, NEW k, ServerProof(k) PROVE TransferInv'
<1> DEFINE h == c2s[k].res
<1>1. Taken(c2s, c2s') /\ UNCHANGED <<net, cur, made, answered, failed, cOut, cIn, responses>>
  BY ToServerIs DEF ServerProof
<1>2. sOut' = Without(sOut, h) /\ UNCHANGED <<s2c, sIn, routing, executed, silent>>
  BY DEF ServerProof, ToServer
<1> HIDE DEF h
<1>3. DOMAIN sOut' \subseteq DOMAIN sOut /\ OutOK(sOut', ServerAdvRetries)
  BY <1>2, ServerStays, OutboundIs, Bounds DEF Without
<1>4. ServerMoves
  BY <1>1, <1>2, <1>3, ServerStays DEF ServerMoves
<1>5. QED
  BY <1>2, <1>4, ServerQuiet

LEMMA TickHolds == ASSUME TransferInv, Tick PROVE TransferInv'
<1> DEFINE due == Due(sOut, ServerAdvRetries)
           over == {h \in DOMAIN sOut : ~sOut[h].sent} \ due
           kept == Retried(sOut, due)
           q == Advs(due)
<1>1. /\ sOut' = [h \in DOMAIN sOut \ over |-> kept[h]] /\ s2c' = s2c \o q
      /\ UNCHANGED <<net, c2s, cur, made, answered, failed, cOut, cIn, responses, sIn, routing, executed, silent>>
  BY DEF Tick, clientVars
<1>2. /\ due \subseteq DOMAIN sOut /\ IsFiniteSet(due)
      /\ DOMAIN kept = DOMAIN sOut /\ OutOK(kept, ServerAdvRetries)
  BY ServerStays, RetriedIs, Bounds
<1> HIDE DEF due, over, kept
<1>3. DOMAIN sOut' \subseteq DOMAIN sOut /\ OutOK(sOut', ServerAdvRetries)
  <2>1. IsFiniteSet(DOMAIN sOut) /\ kept \in [DOMAIN sOut -> Offer(ServerAdvRetries)]
    BY <1>2 DEF OutOK
  <2>2. DOMAIN sOut' = DOMAIN sOut \ over /\ sOut' \in [DOMAIN sOut' -> Offer(ServerAdvRetries)]
    BY <1>1, <2>1
  <2>3. IsFiniteSet(DOMAIN sOut')
    BY <2>1, <2>2, FS_Subset
  <2>4. QED
    BY <2>2, <2>3 DEF OutOK
<1>4. q \in Seq(ServerParcel) /\ \A j \in DOMAIN q : q[j].type \notin ToC
  <2>1. /\ q \in Seq({Packet("adv", h, {}) : h \in due})
        /\ \A j \in DOMAIN q : q[j].type = "adv"
    BY <1>2, AdvsAre
  <2>2. {Packet("adv", h, {}) : h \in due} \subseteq ServerParcel
    BY <1>2, ServerStays, ServerSends
  <2> HIDE DEF q
  <2>3. QED
    BY <2>1, <2>2, SeqMonotonic DEF ToC
<1> HIDE DEF q
<1>5. s2c' \in Seq(ServerParcel)
  BY <1>1, <1>4, ServerStays, AppendIs
<1>6. ServerMoves
  BY <1>1, <1>3, <1>5, ServerStays DEF ServerMoves, Taken
<1>7. QED
  BY <1>1, <1>4, <1>6, ServerQuiet

\* The server has the whole of request r. Where packets keep their order, it is not any
\* more on its way or expected to be.
LEMMA WholeHolds ==
  ASSUME TransferInv, NEW r \in 1 .. made, routing = 0, routing' = r,
         UNCHANGED <<net, cur, made, answered, failed, cOut, cIn, responses, sOut, executed, silent>>,
         s2c' = s2c \/ s2c' = Append(s2c, Packet("proof", <<r, 0>>, {})),
         Taken(c2s, c2s'), DOMAIN sIn' \subseteq DOMAIN sIn, InOK(sIn'),
         net # "unordered" =>
           /\ executed[r] = 0 /\ <<r, 0>> \notin DOMAIN sIn'
           /\ ~Has(c2s', "adv", <<r, 0>>) /\ ~Has(c2s', "request", <<r, 0>>)
           /\ <<r, 0>> \notin DOMAIN cOut \/ cOut[<<r, 0>>].sent
  PROVE  TransferInv'
<1> DEFINE e == Packet("proof", <<r, 0>>, {})
<1>1. StateOK /\ made \in Nat /\ r \in RequestId /\ r # 0
  BY ServerStays, Bounds
<1>2. \A x \in RequestId : HadWhole(x)' <=> HadWhole(x) \/ x = r
  BY <1>1 DEF HadWhole, RequestId
<1>3. StateOK' /\ Grows
  <2>1. routing' \in 0 .. made'
    BY <1>1
  <2>2. \A x \in RequestId : HadWhole(x)' => x <= made'
    BY <1>1, <1>2 DEF StateOK
  <2>3. StateOK'
    BY <1>1, <2>1, <2>2 DEF StateOK
  <2>4. \A x \in RequestId : executed[x] <= executed'[x]
    BY <1>1 DEF StateOK
  <2>5. QED
    BY <1>1, <1>2, <2>3, <2>4 DEF Grows
<1>4. ClientParcel \subseteq ClientParcel' /\ ServerParcel \subseteq ServerParcel'
  BY <1>1, <1>3, Grown
<1>5. e \in ServerParcel' /\ e.type = "proof"
  <2>1. e \in Parcel /\ e.type = "proof" /\ e.res = <<r, 0>>
    BY <1>1, PacketIs
  <2>2. e.res \in Asked' /\ HadWhole(e.res[1])'
    BY <1>1, <1>2, <2>1 DEF Asked
  <2>3. QED
    BY <2>1, <2>2 DEF ServerParcel
<1> HIDE DEF e
<1>6. s2c \in Seq(ServerParcel') /\ s2c' \in Seq(ServerParcel')
  <2>1. s2c \in Seq(ServerParcel')
    BY <1>4, ServerStays, SeqMonotonic
  <2>2. QED
    BY <1>5, <2>1, AppendIs DEF e
<1>7. ASSUME NEW h
      PROVE  /\ Has(s2c', "ask", h) => Has(s2c, "ask", h)
             /\ NoneAfter(s2c, "proof", "ask", h) => NoneAfter(s2c', "proof", "ask", h)
  <2>1. CASE s2c' = s2c
    BY <2>1
  <2>2. CASE s2c' = Append(s2c, e)
    <3>1. s2c' = s2c \o <<e>> /\ <<e>> \in Seq(ServerParcel')
      BY <1>5, <1>6, <2>2, SingleIs
    <3>2. ~Has(<<e>>, "ask", h) /\ NoneAfter(<<e>>, "proof", "ask", h)
      <4>1. Has(<<e>>, "ask", h) <=> e.type = "ask" /\ e.res = h
        BY <1>5, SingleIs
      <4>2. NoneAfter(<<e>>, "proof", "ask", h)
        BY <1>5, SingleIs
      <4>3. QED
        BY <1>5, <4>1, <4>2
    <3>3. QED
      BY <1>6, <3>1, <3>2, MoreIs
  <2>3. QED
    BY <2>1, <2>2 DEF e
<1>8. BasicInv'
  <2>1. c2s' \in Seq(ClientParcel')
    <3>1. c2s' \in Seq(ClientParcel)
      BY ServerStays, TakenIs
    <3>2. QED
      BY <1>4, <3>1, SeqMonotonic
  <2>2. NetOK'
    BY <1>6, <2>1 DEF NetOK
  <2>3. MapsOK'
    BY DEF TransferInv, MapsOK, Asked, Answers
  <2>4. ResponsesOK' /\ AnswerIsMine'
    BY DEF TransferInv, ResponsesOK, AnswerIsMine
  <2>5. QED
    BY <1>3, <2>2, <2>3, <2>4 DEF BasicInv
<1>9. ASSUME net # "unordered", NEW x \in RequestId PROVE Once(x)'
  <2> DEFINE h == <<x, 0>>
  <2>1. Once(x) /\ failed'[x] # "no outbound resource"
    BY <1>9 DEF TransferInv, Once
  <2>2. Quieter(c2s, c2s', h, ToS)
    BY ServerStays, QuietTaken
  <2>3. /\ Has(c2s', "part", h) => Has(c2s, "part", h)
        /\ Has(c2s', "adv", h) => Has(c2s, "adv", h)
        /\ Has(c2s', "request", h) => Has(c2s, "request", h)
        /\ NoneAfter(c2s', "part", "adv", h) /\ NoneAfter(c2s', "request", "request", h)
    BY <2>1, <2>2 DEF Quieter, ToS, Once
  <2>4. /\ Has(s2c', "ask", h) => Has(s2c, "ask", h)
        /\ NoneAfter(s2c', "proof", "ask", h)
    BY <1>7, <2>1 DEF Once
  <2>5. CASE x # r
    <3>1. HadWhole(x)' <=> HadWhole(x)
      BY <1>2, <2>5
    <3>2. QED
      BY <2>1, <2>3, <2>4, <2>5, <3>1 DEF Once
  <2>6. CASE x = r
    <3>1. /\ executed'[x] = 0 /\ ~Has(c2s', "adv", h) /\ ~Has(c2s', "request", h) /\ h \notin DOMAIN sIn'
          /\ h \notin DOMAIN cOut' \/ cOut'[h].sent
      BY <1>9, <2>6
    <3>2. Has(s2c', "ask", h) => h \in DOMAIN cOut'
      BY <2>1, <2>4 DEF Once
    <3>3. QED
      BY <2>1, <2>3, <2>4, <3>1, <3>2 DEF Once
  <2>7. QED
    BY <2>5, <2>6
<1>10. QED
  BY <1>8, <1>9, InvIs

\* What an execution does beside its response, which is no proof and no part request.
LEMMA ExecuteIs ==
  ASSUME TransferInv, routing # 0, Execute, UNCHANGED <<net, made>>
  PROVE  /\ routing \in 1 .. made /\ routing \in RequestId
         /\ executed' = [executed EXCEPT ![routing] = @ + 1]
         /\ silent' \in {silent, silent \cup {routing}}
         /\ s2c' = s2c \/ \E e \in Parcel : /\ e.type \in {"response", "adv"} /\ e.parts = {}
                                           /\ e.res = <<routing, executed[routing] + 1>>
                                           /\ s2c' = Append(s2c, e)
         /\ sOut' = sOut \/ sOut' = With(sOut, <<routing, executed[routing] + 1>>, Outbound)
<1>1. routing \in 1 .. made /\ routing \in RequestId /\ executed[routing] + 1 \in Nat
  <2>1. StateOK /\ made \in Nat /\ 1 .. made \subseteq RequestId
    BY ServerStays, Bounds
  <2>2. routing \in 1 .. made
    BY <2>1 DEF StateOK
  <2>3. QED
    BY <2>1, <2>2 DEF StateOK
<1> DEFINE h == <<routing, executed[routing] + 1>>
<1>2. /\ Packet("response", h, {}) \in Parcel /\ Packet("adv", h, {}) \in Parcel
      /\ Packet("response", h, {}).type = "response" /\ Packet("adv", h, {}).type = "adv"
      /\ Packet("response", h, {}).res = h /\ Packet("adv", h, {}).res = h
      /\ Packet("response", h, {}).parts = {} /\ Packet("adv", h, {}).parts = {}
  BY <1>1, PacketIs
<1>3. QED
  BY <1>1, <1>2 DEF Execute

\* A request is routed: the server has had the whole of it before and after.
LEMMA RouteHolds == ASSUME TransferInv, Route PROVE TransferInv'
<1> DEFINE r == routing
           g == <<r, executed[r] + 1>>
<1>1. /\ r # 0 /\ routing' = 0 /\ (Reject \/ Execute)
      /\ UNCHANGED <<net, c2s, cur, made, answered, failed, cOut, cIn, responses, sIn>>
  BY DEF Route, clientVars
<1>2. StateOK /\ made \in Nat /\ r \in 1 .. made /\ r \in RequestId /\ executed \in [RequestId -> Nat]
  <2>1. StateOK /\ made \in Nat /\ 1 .. made \subseteq RequestId
    BY ServerStays, Bounds
  <2>2. r \in 1 .. made
    BY <1>1, <2>1 DEF StateOK
  <2>3. QED
    BY <2>1, <2>2 DEF StateOK
<1>3. /\ \/ executed' = executed /\ r \in silent' /\ UNCHANGED <<s2c, sOut>>
         \/ executed' = [executed EXCEPT ![r] = @ + 1]
      /\ silent' \in {silent, silent \cup {r}}
      /\ s2c' = s2c \/ \E e \in Parcel : /\ e.type \in {"response", "adv"} /\ e.parts = {}
                                        /\ e.res = g /\ s2c' = Append(s2c, e)
                                        /\ executed' = [executed EXCEPT ![r] = @ + 1]
      /\ sOut' = sOut \/ (/\ sOut' = With(sOut, g, Outbound)
                         /\ executed' = [executed EXCEPT ![r] = @ + 1])
  <2>1. CASE Reject
    BY <2>1 DEF Reject
  <2>2. CASE Execute
    BY <1>1, <2>2, ExecuteIs
  <2>3. QED
    BY <1>1, <2>1, <2>2
<1>4. /\ executed' \in [RequestId -> Nat] /\ \A x \in RequestId : executed[x] <= executed'[x]
      /\ \A x \in RequestId : x # r => executed'[x] = executed[x]
      /\ executed'[r] \in {executed[r], executed[r] + 1}
      /\ executed'[r] = executed[r] => r \in silent'
  BY <1>2, <1>3
<1>5. \A x \in RequestId : HadWhole(x)' <=> HadWhole(x)
  BY <1>1, <1>2, <1>3, <1>4 DEF HadWhole, RequestId
<1>6. StateOK' /\ Grows
  <2>1. \A x \in RequestId : HadWhole(x)' => x <= made'
    BY <1>1, <1>2, <1>5 DEF StateOK
  <2>2. silent' \in SUBSET RequestId /\ routing' \in 0 .. made'
    BY <1>1, <1>2, <1>3 DEF StateOK
  <2>3. StateOK'
    BY <1>1, <1>2, <1>4, <2>1, <2>2 DEF StateOK
  <2>4. QED
    BY <1>1, <1>2, <1>4, <1>5, <2>3 DEF Grows
<1>7. /\ Asked \subseteq Asked' /\ Answers \subseteq Answers'
      /\ ClientParcel \subseteq ClientParcel' /\ ServerParcel \subseteq ServerParcel'
  BY <1>2, <1>6, Grown
<1>8. executed' = [executed EXCEPT ![r] = @ + 1] => g \in Answers'
  BY <1>1, <1>2 DEF Answers
<1>9. s2c \in Seq(ServerParcel')
  BY <1>7, ServerStays, SeqMonotonic
<1>10. \/ s2c' = s2c
       \/ \E e \in ServerParcel' : e.type \in {"response", "adv"} /\ s2c' = Append(s2c, e)
  <2>1. ASSUME NEW e \in Parcel, e.type \in {"response", "adv"}, e.res = g, g \in Answers'
        PROVE  e \in ServerParcel'
    BY <2>1 DEF ServerParcel
  <2>2. QED
    BY <1>3, <1>8, <2>1
<1>11. DOMAIN sOut' \subseteq Answers' /\ OutOK(sOut', ServerAdvRetries)
  <2>1. DOMAIN sOut \subseteq Answers' /\ OutOK(sOut, ServerAdvRetries)
    BY <1>7, ServerStays
  <2>2. CASE sOut' = sOut
    BY <2>1, <2>2
  <2>3. CASE sOut' = With(sOut, g, Outbound) /\ g \in Answers'
    <3> HIDE DEF g
    <3>1. /\ DOMAIN With(sOut, g, Outbound) = DOMAIN sOut \cup {g}
          /\ OutOK(With(sOut, g, Outbound), ServerAdvRetries)
      BY <2>1, OutboundIs, Bounds DEF With
    <3>2. QED
      BY <2>1, <2>3, <3>1
  <2>4. QED
    BY <1>3, <1>8, <2>2, <2>3
<1>12. s2c' \in Seq(ServerParcel')
  BY <1>9, <1>10, AppendIs
<1> HIDE DEF r, g
<1>13. BasicInv'
  <2>1. c2s' \in Seq(ClientParcel')
    BY <1>1, <1>7, ServerStays, SeqMonotonic
  <2>2. NetOK'
    BY <1>12, <2>1 DEF NetOK
  <2>3. MapsOK'
    BY <1>1, <1>7, <1>11 DEF TransferInv, MapsOK
  <2>4. ASSUME NEW x \in RequestId PROVE answered'[x] <= executed'[x]
    <3>1. answered[x] <= executed[x] /\ answered[x] \in Nat /\ executed[x] <= executed'[x]
          /\ executed[x] \in Nat /\ executed'[x] \in Nat
      BY <1>2, <1>4, ClientStays
    <3>2. QED
      BY <1>1, <3>1
  <2>5. ASSUME NEW x \in DOMAIN responses PROVE responses[x] <= executed'[x]
    <3>1. responses[x] <= executed[x] /\ responses[x] \in Nat /\ x \in RequestId
      BY ClientStays, ServerStays, Bounds
    <3>2. executed[x] <= executed'[x] /\ executed[x] \in Nat /\ executed'[x] \in Nat
      BY <1>2, <1>4, <3>1
    <3>3. QED
      BY <3>1, <3>2
  <2>6. ResponsesOK' /\ AnswerIsMine'
    BY <1>1, <2>4, <2>5, ClientStays DEF ResponsesOK, AnswerIsMine
  <2>7. QED
    BY <1>6, <2>2, <2>3, <2>6 DEF BasicInv
<1>14. ASSUME net # "unordered", NEW x \in RequestId PROVE Once(x)'
  <2> DEFINE h == <<x, 0>>
  <2>1. Once(x) /\ failed'[x] # "no outbound resource"
    BY <1>1, <1>14 DEF TransferInv, Once
  <2>2. executed'[x] <= 1
    <3>1. CASE x # r
      BY <1>4, <2>1, <3>1 DEF Once
    <3>2. CASE x = r
      <4>1. executed[x] = 0
        BY <2>1, <3>2 DEF Once, r
      <4>2. QED
        BY <1>4, <3>2, <4>1
    <3>3. QED
      BY <3>1, <3>2
  <2>3. routing' # x
    BY <1>1 DEF RequestId
  <2>4. HadWhole(x)' <=> HadWhole(x)
    BY <1>5
  <2>5. /\ Has(s2c', "ask", h) => Has(s2c, "ask", h)
        /\ NoneAfter(s2c, "proof", "ask", h) => NoneAfter(s2c', "proof", "ask", h)
    <3>1. CASE s2c' = s2c
      BY <3>1
    <3>2. CASE \E e \in ServerParcel' : e.type \in {"response", "adv"} /\ s2c' = Append(s2c, e)
      <4>1. PICK e \in ServerParcel' : e.type \in {"response", "adv"} /\ s2c' = Append(s2c, e)
        BY <3>2
      <4>2. s2c' = s2c \o <<e>> /\ <<e>> \in Seq(ServerParcel')
        BY <1>9, <4>1, SingleIs
      <4>3. ~Has(<<e>>, "ask", h) /\ NoneAfter(<<e>>, "proof", "ask", h)
        <5>1. Has(<<e>>, "ask", h) <=> e.type = "ask" /\ e.res = h
          BY <4>1, SingleIs
        <5>2. NoneAfter(<<e>>, "proof", "ask", h)
          BY <4>1, SingleIs
        <5>3. QED
          BY <4>1, <5>1, <5>2
      <4>4. QED
        BY <1>9, <4>2, <4>3, MoreIs
    <3>3. QED
      BY <1>10, <3>1, <3>2
  <2>6. QED
    BY <1>1, <2>1, <2>2, <2>3, <2>4, <2>5 DEF Once
<1>15. QED
  BY <1>1, <1>13, <1>14, InvIs

LEMMA ServerRequestHolds == ASSUME TransferInv, NEW k, ServerRequest(k) PROVE TransferInv'
<1> DEFINE h == c2s[k].res
<1>1. /\ h \in Asked /\ k \in DOMAIN c2s /\ c2s[k].type = "request" /\ Taken(c2s, c2s')
      /\ c2s' = Minus(c2s, k) /\ (net # "unordered" => k = 1)
      /\ UNCHANGED <<net, cur, made, answered, failed, cOut, cIn, responses>>
  BY ToServerIs DEF ServerRequest
<1>2. PICK r \in 1 .. made : h = <<r, 0>>
  BY <1>1 DEF Asked
<1>3. /\ routing = 0 /\ routing' = r /\ sIn' = sIn
      /\ UNCHANGED <<s2c, sOut, executed, silent>>
  BY <1>2 DEF ServerRequest, ToServer
<1>4. ASSUME net # "unordered"
      PROVE  /\ executed[r] = 0 /\ h \notin DOMAIN sIn' /\ h \notin DOMAIN cOut
             /\ ~Has(c2s', "adv", h) /\ ~Has(c2s', "request", h)
  <2>1. r \in RequestId /\ executed[r] \in Nat
    BY ServerStays, ClientStays, Bounds
  <2>2. Once(r) /\ Has(c2s, "request", h)
    BY <1>1, <1>4, <2>1 DEF TransferInv, Has
  <2>3. ~HadWhole(r) /\ executed[r] = 0 /\ h \notin DOMAIN cOut
    <3>1. ~HadWhole(r) /\ h \notin DOMAIN cOut
      BY <1>2, <2>2 DEF Once
    <3>2. QED
      BY <2>1, <3>1 DEF HadWhole
  <2>4. h \notin DOMAIN sIn' /\ ~Has(c2s, "adv", h) /\ NoneAfter(c2s, "request", "request", h)
    BY <1>2, <1>3, <2>2, <2>3 DEF Once, HadWhole
  <2>5. /\ Has(c2s', "adv", h) => Has(c2s, "adv", h)
        /\ ~Has(c2s', "request", h)
    BY <1>1, <1>4, <2>4, ServerStays, LessIs
  <2>6. QED
    BY <2>3, <2>4, <2>5
<1>5. DOMAIN sIn' \subseteq DOMAIN sIn /\ InOK(sIn')
  BY <1>3, ServerStays
<1>6. QED
  BY <1>1, <1>2, <1>3, <1>4, <1>5, WholeHolds

LEMMA ServerPartHolds == ASSUME TransferInv, NEW k, ServerPart(k) PROVE TransferInv'
<1> DEFINE h == c2s[k].res
           i == CHOOSE i \in c2s[k].parts : TRUE
<1>1. /\ h \in Asked /\ h \in RequestId \X Nat /\ k \in DOMAIN c2s /\ c2s[k] \in ClientParcel
      /\ c2s[k].type = "part" /\ Taken(c2s, c2s')
      /\ c2s' = Minus(c2s, k) /\ (net # "unordered" => k = 1)
      /\ UNCHANGED <<net, cur, made, answered, failed, cOut, cIn, responses>>
  BY ToServerIs DEF ServerPart
<1>2. i \in PartNo
  BY <1>1, PartIn DEF ClientParcel
<1>3. PICK r \in 1 .. made : h = <<r, 0>>
  BY <1>1 DEF Asked
<1>4. r \in RequestId /\ executed[r] \in Nat /\ h[1] = r
  BY <1>3, ServerStays, ClientStays, Bounds
<1> HIDE DEF i
<1>5. net # "unordered" /\ h \in DOMAIN sIn =>
        /\ executed[r] = 0 /\ ~HadWhole(r) /\ h \in DOMAIN cOut /\ cOut[h].sent
        /\ ~Has(c2s', "adv", h) /\ ~Has(c2s', "request", h)
  <2>1. SUFFICES ASSUME net # "unordered", h \in DOMAIN sIn
                 PROVE  /\ executed[r] = 0 /\ ~HadWhole(r) /\ h \in DOMAIN cOut /\ cOut[h].sent
                        /\ ~Has(c2s', "adv", h) /\ ~Has(c2s', "request", h)
    OBVIOUS
  <2>2. Once(r) /\ Has(c2s, "part", h)
    BY <1>1, <1>4, <2>1 DEF TransferInv, Has
  <2>3. executed[r] = 0 /\ ~HadWhole(r) /\ h \in DOMAIN cOut
    <3>1. ~HadWhole(r) /\ h \in DOMAIN cOut
      BY <1>3, <2>1, <2>2 DEF Once
    <3>2. QED
      BY <1>4, <3>1 DEF HadWhole
  <2>4. cOut[h].sent /\ ~Has(c2s, "request", h) /\ NoneAfter(c2s, "part", "adv", h)
    BY <1>3, <2>2, <2>3 DEF Once, HadWhole
  <2>5. /\ Has(c2s', "request", h) => Has(c2s, "request", h)
        /\ ~Has(c2s', "adv", h)
    BY SMTT(20), <1>1, <2>1, <2>4, ServerStays, LessIs
  <2>6. QED
    BY <2>3, <2>4, <2>5
<1>6. CASE Completes(sIn, h, i)
  <2>1. /\ sIn' = Without(sIn, h) /\ s2c' = Append(s2c, Packet("proof", h, {}))
        /\ routing = 0 /\ routing' = h[1] /\ UNCHANGED <<sOut, executed, silent>>
    BY <1>6 DEF ServerPart, ToServer, i
  <2>2. h \in DOMAIN sIn
    BY <1>6 DEF Completes, Accepts
  <2>3. routing' = r /\ s2c' = Append(s2c, Packet("proof", <<r, 0>>, {}))
    BY <1>3, <1>4, <2>1
  <2> HIDE DEF h
  <2>4. DOMAIN sIn' = DOMAIN sIn \ {h} /\ InOK(sIn')
    <3>1. InOK(sIn)
      BY ServerStays
    <3>2. DOMAIN Without(sIn, h) = DOMAIN sIn \ {h} /\ InOK(Without(sIn, h))
      BY <3>1, InMaps
    <3>3. QED
      BY <2>1, <3>2
  <2>5. QED
    BY <1>1, <1>3, <1>5, <2>1, <2>2, <2>3, <2>4, WholeHolds
<1>7. CASE ~Completes(sIn, h, i) /\ Accepts(sIn, h, i)
  <2>1. sIn' = FollowUp(sIn, h, i) /\ s2c' = s2c \o Asks(sIn, h, i) /\ UNCHANGED <<sOut, routing, executed, silent>>
    BY <1>7 DEF ServerPart, ToServer, i
  <2> HIDE DEF h
  <2>2. /\ h \in DOMAIN sIn /\ DOMAIN sIn' = DOMAIN sIn /\ InOK(sIn')
        /\ \/ Asks(sIn, h, i) = <<>>
           \/ \E p \in SUBSET PartNo : Asks(sIn, h, i) = <<Packet("ask", h, p)>>
    BY <1>2, <1>7, <2>1, ServerStays, FollowUpIs
  <2>3. CASE Asks(sIn, h, i) = <<>>
    <3>1. s2c' = s2c
      BY <2>1, <2>3, ServerStays, ConcatEmptySeq
    <3>2. ServerMoves
      BY <1>1, <2>1, <2>2, <3>1, ServerStays DEF ServerMoves
    <3>3. QED
      BY <2>2, <3>1, <3>2, ServerQuiet
  <2>4. CASE \E p \in SUBSET PartNo : Asks(sIn, h, i) = <<Packet("ask", h, p)>>
    <3>1. PICK p \in SUBSET PartNo : Asks(sIn, h, i) = <<Packet("ask", h, p)>>
      BY <2>4
    <3> DEFINE e == Packet("ask", h, p)
    <3>2. e \in ServerParcel
      BY <1>1, ServerStays, ServerSends
    <3>3. s2c' = s2c \o <<e>>
      BY <2>1, <3>1
    <3> HIDE DEF e
    <3>4. s2c' \in Seq(ServerParcel)
      BY <3>2, <3>3, ServerStays, SingleIs, AppendIs
    <3>5. ServerMoves
      BY <1>1, <2>1, <2>2, <3>4, ServerStays DEF ServerMoves
    <3>6. net # "unordered" => h \in DOMAIN cOut /\ ~HadWhole(h[1])
      BY <1>4, <1>5, <2>2
    <3>7. QED
      BY <1>1, <2>2, <3>3, <3>5, <3>6, ServerAsksHolds DEF e
  <2>5. QED
    BY <2>2, <2>3, <2>4
<1>8. CASE ~Completes(sIn, h, i) /\ ~Accepts(sIn, h, i)
  <2>1. UNCHANGED <<sIn, s2c, sOut, routing, executed, silent>>
    BY <1>8 DEF ServerPart, ToServer, i
  <2>2. ServerMoves
    BY <1>1, <2>1, ServerStays DEF ServerMoves
  <2>3. QED
    BY <2>1, <2>2, ServerQuiet
<1>9. QED
  BY <1>6, <1>7, <1>8

--------------------------------------------------------------------------------
(* The theorems.                                                           *)

LEMMA InitHolds == ASSUME TransferInit PROVE TransferInv
<1>1. StateOK
  <2>1. 0 \in 0 .. 0 /\ 0 \in 0 .. MaxRequests
    BY Bounds
  <2>2. answered \in [RequestId -> Nat] /\ failed \in [RequestId -> Failure] /\ executed \in [RequestId -> Nat]
    BY DEF TransferInit, Failure
  <2>3. \A r \in RequestId : ~HadWhole(r)
    BY DEF TransferInit, HadWhole, RequestId
  <2>4. QED
    BY <2>1, <2>2, <2>3 DEF TransferInit, StateOK
<1>2. DOMAIN cOut = {} /\ DOMAIN cIn = {} /\ DOMAIN responses = {} /\ DOMAIN sOut = {} /\ DOMAIN sIn = {}
  BY DEF TransferInit
<1>3. NetOK
  BY DEF TransferInit, NetOK
<1>4. MapsOK
  <2>1. IsFiniteSet({})
    BY FS_EmptySet
  <2>2. \A out, max : out = <<>> => OutOK(out, max) /\ InOK(out)
    BY <2>1 DEF OutOK, InOK
  <2>3. QED
    BY <1>2, <2>2 DEF TransferInit, MapsOK
<1>5. ResponsesOK /\ AnswerIsMine
  BY <1>2 DEF TransferInit, ResponsesOK, AnswerIsMine
<1>6. ASSUME NEW r \in RequestId PROVE Once(r)
  <2>1. DOMAIN c2s = {} /\ DOMAIN s2c = {}
    BY DEF TransferInit
  <2>2. \A t, u, h : ~Has(c2s, t, h) /\ ~Has(s2c, t, h) /\ NoneAfter(c2s, t, u, h) /\ NoneAfter(s2c, t, u, h)
    BY <2>1 DEF Has, NoneAfter
  <2>3. executed[r] = 0 /\ executed[r] <= 1 /\ ~HadWhole(r) /\ failed[r] # "no outbound resource"
    BY DEF TransferInit, No, HadWhole, RequestId
  <2>4. <<r, 0>> \notin DOMAIN sIn
    BY <1>2
  <2>5. QED
    BY <2>2, <2>3, <2>4 DEF Once
<1>7. QED
  BY <1>1, <1>3, <1>4, <1>5, <1>6 DEF TransferInv

LEMMA StepHolds == ASSUME TransferInv, [TransferNext]_transferVars PROVE TransferInv'
<1>1. CASE \E inline \in BOOLEAN : Send(inline)
  BY <1>1, SendHolds
<1>2. CASE ClientStep
  BY <1>2, TakeResponseHolds, ClientResponseHolds, ClientAdvHolds, ClientAskHolds, ClientPartHolds,
     ClientProofHolds DEF ClientStep
<1>3. CASE RetryAdvertisements
  BY <1>3, RetryHolds
<1>4. CASE Timeout \/ Lag
  BY <1>4, GivesUpHolds
<1>5. CASE ServerStep
  BY <1>5, RouteHolds, ServerRequestHolds, ServerAdvHolds, ServerAskHolds, ServerPartHolds, ServerProofHolds
  DEF ServerStep
<1>6. CASE Tick
  BY <1>6, TickHolds
<1>7. CASE Lose
  BY <1>7, LoseHolds
<1>8. CASE UNCHANGED transferVars
  <2>1. UNCHANGED <<net, c2s, s2c, cur, made, answered, failed, cOut, cIn, responses, sOut, sIn, routing, executed, silent>>
    BY <1>8 DEF transferVars, clientVars, serverVars
  <2>2. ClientMoves
    BY <2>1, ClientStays DEF ClientMoves, Taken
  <2>3. QED
    BY <2>1, <2>2, ClientQuiet
<1>9. QED
  BY <1>1, <1>2, <1>3, <1>4, <1>5, <1>6, <1>7, <1>8 DEF TransferNext

LEMMA InvHolds == TransferSpec => []TransferInv
<1>1. TransferInit => TransferInv
  BY InitHolds
<1>2. TransferInv /\ [TransferNext]_transferVars => TransferInv'
  BY StepHolds
<1>3. QED
  BY <1>1, <1>2, PTL DEF TransferSpec

\* The two ends keep what they should where they should: the client offers requests and
\* receives responses, the server the other way round, and no map holds a resource that is
\* whole (the maps of client.rs and of server.rs's LinkState).
THEOREM TransferTyped == TransferSpec => []TransferTypeOK
<1>1. TransferInv => TransferTypeOK
  <2>1. SUFFICES ASSUME TransferInv PROVE TransferTypeOK
    OBVIOUS
  <2>2. StateOK /\ MapsOK /\ ResponsesOK /\ made \in Nat /\ 1 .. made \subseteq RequestId
    BY <2>1, Bounds DEF TransferInv
  <2>3. \A h \in DOMAIN cOut : h \in RequestId \X {0} /\ cOut[h].retries \in 0 .. ClientAdvRetries
    BY <2>2 DEF MapsOK, OutOK, Offer, Asked
  <2>4. \A h \in DOMAIN sOut : h \in Resource /\ sOut[h].retries \in 0 .. ServerAdvRetries
    BY <2>2, Bounds DEF MapsOK, OutOK, Offer, Resource
  <2>5. \A h \in DOMAIN cIn : h \in Resource /\ cIn[h] \in Inbounds /\ ~Done(cIn[h])
    BY <2>2, Bounds DEF MapsOK, InOK, Partial, Resource
  <2>6. \A h \in DOMAIN sIn : h \in RequestId \X {0} /\ sIn[h] \in Inbounds /\ ~Done(sIn[h])
    BY <2>2 DEF MapsOK, InOK, Partial, Asked
  <2>7. DOMAIN responses \subseteq RequestId
    BY <2>2 DEF ResponsesOK
  <2>8. QED
    BY <2>2, <2>3, <2>4, <2>5, <2>6, <2>7 DEF TransferTypeOK, StateOK
<1>2. QED
  BY <1>1, InvHolds, PTL

\* On every network that keeps packets in order, whatever it loses, a request is executed
\* once at most, and never fails for a part request of a resource that is proved
\* (retry_advertisements() and process_part_request() of client.rs, the resource handlers of
\* server.rs).
THEOREM RequestExecutedOnce == TransferSpec => []ExecutedOnce
<1>1. TransferInv => ExecutedOnce
  BY DEF TransferInv, Once, HadWhole, ExecutedOnce
<1>2. QED
  BY <1>1, InvHolds, PTL

\* What request() returns is the answer of an execution of this very request, in any order
\* of packets and whatever timed out before (the request id that client.rs compares).
THEOREM AnswerIsTheRequests == TransferSpec => []AnswerIsMine
<1>1. TransferInv => AnswerIsMine
  BY DEF TransferInv
<1>2. QED
  BY <1>1, InvHolds, PTL

\* Only a proof makes the client let go of a request, and a proof is only sent of what the
\* server has whole, before it decodes, routes and executes it or rejects it
\* (Client::outbound, and assemble_and_prove() as server.rs uses it).
THEOREM RequestKept == TransferSpec => KeptUntilWhole
<1> DEFINE Gone == \A h \in DOMAIN cOut \ DOMAIN cOut' : HadWhole(h[1])
<1>1. ASSUME TransferInv, [TransferNext]_transferVars PROVE Gone \/ UNCHANGED transferVars
  <2>1. CASE \E k \in DOMAIN s2c : ClientProof(k)
    BY <1>1, <2>1, ClientProofIs
  <2>2. CASE \E k \in DOMAIN s2c : ClientAsk(k)
    BY <2>2 DEF ClientAsk
  <2>3. CASE \E inline \in BOOLEAN : Send(inline)
    BY <2>3 DEF Send, With
  <2>4. CASE RetryAdvertisements
    BY <2>4 DEF RetryAdvertisements, Retried
  <2>5. CASE cOut' = cOut
    BY <2>5
  <2>6. CASE UNCHANGED transferVars
    BY <2>6
  <2>7. cOut' = cOut \/ (\E k \in DOMAIN s2c : ClientProof(k) \/ ClientAsk(k))
        \/ (\E inline \in BOOLEAN : Send(inline)) \/ RetryAdvertisements \/ UNCHANGED transferVars
    <3>1. TakeResponse \/ Timeout \/ Lag => cOut' = cOut
      BY DEF TakeResponse, Timeout, Lag
    <3>2. \A k : ClientResponse(k) \/ ClientAdv(k) \/ ClientPart(k) => cOut' = cOut
      BY DEF ClientResponse, ClientAdv, ClientPart
    <3>3. ServerStep \/ Tick \/ Lose => cOut' = cOut
      BY DEF ServerStep, Route, ServerRequest, ServerAdv, ServerAsk, ServerPart, ServerProof, ToServer,
             Tick, Lose, clientVars
    <3>4. QED
      BY <1>1, <3>1, <3>2, <3>3 DEF TransferNext, ClientStep
  <2>8. QED
    BY <2>1, <2>2, <2>3, <2>4, <2>5, <2>6, <2>7
<1>2. TransferInv /\ [TransferNext]_transferVars => [Gone]_transferVars
  BY <1>1
<1>3. TransferSpec => [][Gone]_transferVars
  BY <1>2, InvHolds, PTL DEF TransferSpec
<1>4. QED
  BY <1>3 DEF KeptUntilWhole
--------------------------------------------------------------------------------
(* Packets, resources and retries implement the calls of RemoteCalls.      *)

\* What the commands see of a state.
Seen == <<net, made, cur, executed, answered, failed>>

LEMMA CallsStutter == ASSUME UNCHANGED Seen PROVE UNCHANGED Calls!callVars
BY DEF Seen, Calls!callVars

LEMMA BeginsCall == ASSUME TransferInv, NEW inline \in BOOLEAN, Send(inline) PROVE Calls!Begin
<1>1. /\ cur = 0 /\ made' = made + 1 /\ cur' = made + 1
      /\ UNCHANGED <<net, executed, answered, failed>>
  BY DEF Send, serverVars
<1>2. made < MaxRequests
  BY TransferAssumption, ClientStays DEF Send
<1>3. made + 1 \in RequestId
  BY <1>2, ClientStays, TransferAssumption DEF RequestId
<1>4. QED
  BY <1>1, <1>3 DEF Calls!Begin

LEMMA AnswersCall ==
  ASSUME TransferInv, cur \in RequestId, NEW n \in Nat \ {0}, n <= executed[cur], Return(n),
         UNCHANGED <<net, made, executed>>
  PROVE  Calls!Answer
<1>1. executed[cur] \in Nat /\ n \in 1 .. executed[cur] /\ cur # 0
  BY ClientStays DEF RequestId
<1>2. /\ answered' = [answered EXCEPT ![cur] = n] /\ cur' = 0
      /\ UNCHANGED <<net, made, executed, failed>>
  BY DEF Return
<1>3. QED
  BY <1>1, <1>2 DEF Calls!Answer

LEMMA GivesUpCall ==
  ASSUME TransferInv, cur \in RequestId, NEW why, why # No, Fail(why), UNCHANGED <<net, made, executed>>
  PROVE  Calls!GiveUp
<1>1. failed' = [failed EXCEPT ![cur] = why] /\ cur' = 0 /\ UNCHANGED <<net, made, executed, answered>>
  BY DEF Fail
<1>2. cur # 0 /\ failed \in [RequestId -> Failure]
  BY ClientStays DEF RequestId
<1>3. {r \in RequestId : failed'[r] # No} = {r \in RequestId : failed[r] # No} \cup {cur}
  BY <1>1, <1>2
<1>4. QED
  BY <1>1, <1>2, <1>3 DEF Calls!GiveUp

\* That no call is executed twice on an ordered network is in TransferInv's Once.
LEMMA ExecutesCall ==
  ASSUME TransferInv, routing # 0, Execute, UNCHANGED <<net, made, cur, answered, failed>>
  PROVE  routing \in RequestId /\ Calls!Execute(routing)
<1> DEFINE r == routing
<1>1. r \in RequestId /\ r <= made /\ executed \in [RequestId -> Nat]
  BY ExecuteIs, ClientStays
<1>2. executed' = [executed EXCEPT ![r] = @ + 1]
  BY ExecuteIs
<1>3. net # "unordered" => executed[r] = 0
  BY <1>1 DEF TransferInv, Once
<1>4. QED
  BY <1>1, <1>2, <1>3 DEF Calls!Execute

LEMMA ClientStepIsCall == ASSUME TransferInv, ClientStep PROVE [Calls!Next]_Calls!callVars
<1>1. CASE TakeResponse
  <2>1. cur \in DOMAIN responses /\ Return(responses[cur]) /\ UNCHANGED <<net, made, executed>>
    BY <1>1 DEF TakeResponse, serverVars
  <2>2. cur \in RequestId /\ responses[cur] \in Nat \ {0} /\ responses[cur] <= executed[cur]
    BY <2>1, ClientStays, Bounds DEF TransferInv
  <2>3. QED
    BY <2>1, <2>2, AnswersCall DEF Calls!Next
<1>2. CASE \E k \in DOMAIN s2c : ClientResponse(k)
  <2>1. PICK k \in DOMAIN s2c : ClientResponse(k)
    BY <1>2
  <2> DEFINE h == s2c[k].res
  <2>2. cur \in RequestId /\ h \in Answers /\ UNCHANGED <<net, made, executed>>
    BY <2>1, ToClientIs DEF ClientResponse
  <2>3. h[2] \in Nat \ {0} /\ h[2] <= executed[h[1]]
    BY <2>2 DEF Answers
  <2>4. CASE h[1] = cur
    <3>1. Return(h[2])
      BY <2>1, <2>4 DEF ClientResponse
    <3>2. QED
      BY <2>2, <2>3, <2>4, <3>1, AnswersCall DEF Calls!Next
  <2>5. CASE h[1] # cur
    <3>1. UNCHANGED Seen
      BY <2>1, <2>2, <2>5 DEF ClientResponse, Waiting, Seen
    <3>2. QED
      BY <3>1, CallsStutter
  <2>6. QED
    BY <2>4, <2>5
<1>3. CASE \E k \in DOMAIN s2c : ClientAsk(k)
  <2>1. PICK k \in DOMAIN s2c : ClientAsk(k)
    BY <1>3
  <2>2. cur \in RequestId /\ UNCHANGED <<net, made, executed>>
    BY <2>1, ToClientIs DEF ClientAsk
  <2>3. CASE Waiting
    <3>1. UNCHANGED Seen
      BY <2>2, <2>3 DEF Waiting, Seen
    <3>2. QED
      BY <3>1, CallsStutter
  <2>4. CASE Fail("no outbound resource")
    <3>1. "no outbound resource" # No
      BY DEF No
    <3>2. QED
      BY <2>2, <2>4, <3>1, GivesUpCall DEF Calls!Next
  <2>5. QED
    BY <2>1, <2>3, <2>4 DEF ClientAsk
<1>4. CASE \E k \in DOMAIN s2c : ClientAdv(k) \/ ClientPart(k) \/ ClientProof(k)
  <2>1. PICK k \in DOMAIN s2c : ClientAdv(k) \/ ClientPart(k) \/ ClientProof(k)
    BY <1>4
  <2>2. UNCHANGED <<net, made, executed>>
    BY <2>1 DEF ClientAdv, ClientPart, ClientProof, ToClient, serverVars
  <2>3. Waiting
    BY <2>1 DEF ClientAdv, ClientPart, ClientProof
  <2>4. QED
    BY <2>2, <2>3, CallsStutter DEF Waiting, Seen
<1>5. QED
  BY <1>1, <1>2, <1>3, <1>4 DEF ClientStep

LEMMA ServerStepIsCall ==
  ASSUME TransferInv, ServerStep
  PROVE  [Calls!Next]_Calls!callVars
<1>1. Route \/ \E k \in DOMAIN c2s :
        ServerRequest(k) \/ ServerAdv(k) \/ ServerAsk(k) \/ ServerPart(k) \/ ServerProof(k)
  BY DEF ServerStep
<1>2. UNCHANGED <<net, made, cur, answered, failed>>
  BY <1>1 DEF Route, ServerRequest, ServerAdv, ServerAsk, ServerPart, ServerProof, ToServer, clientVars
<1>3. CASE executed' = executed
  BY <1>2, <1>3, CallsStutter DEF Seen
<1>4. CASE Route /\ Execute
  BY <1>2, <1>4, ExecutesCall DEF Route, Calls!Next
<1>5. QED
  BY <1>1, <1>3, <1>4
  DEF Route, Reject, ServerRequest, ServerAdv, ServerAsk, ServerPart, ServerProof, ToServer

LEMMA StepIsCall ==
  ASSUME TransferInv, [TransferNext]_transferVars
  PROVE  [Calls!Next]_Calls!callVars
<1>1. CASE \E inline \in BOOLEAN : Send(inline)
  BY <1>1, BeginsCall DEF Calls!Next
<1>2. CASE ClientStep
  BY <1>2, ClientStepIsCall
<1>3. CASE ServerStep
  BY <1>3, ServerStepIsCall
<1>4. CASE Timeout \/ Lag
  <2>1. PICK why \in {"timed out", "lagged"} : Fail(why)
    BY <1>4 DEF Timeout, Lag
  <2>2. cur \in RequestId /\ why # No
    BY <1>4, ClientStays DEF Timeout, Lag, No
  <2>3. UNCHANGED <<net, made, executed>>
    BY <1>4 DEF Timeout, Lag, serverVars
  <2>4. QED
    BY <2>1, <2>2, <2>3, GivesUpCall DEF Calls!Next
<1>5. CASE RetryAdvertisements \/ Tick \/ Lose \/ UNCHANGED transferVars
  <2>1. UNCHANGED Seen
    BY <1>5 DEF RetryAdvertisements, Tick, Lose, transferVars, clientVars, serverVars, Seen
  <2>2. QED
    BY <2>1, CallsStutter
<1>6. QED
  BY <1>1, <1>2, <1>3, <1>4, <1>5 DEF TransferNext

\* What request() of client.rs and the handlers of server.rs do with packets, resources,
\* repeated advertisements and deadlines is, seen from the commands, a sequence of calls:
\* each executed (where packets keep their order once at most, given up or not), and
\* answered by one of its own executions or given up.
THEOREM TransferImplementsCalls == TransferSpec => CallsSpec
<1>1. TransferInit => Calls!Init
  BY DEF TransferInit, Calls!Init
<1>2. TransferInv /\ [TransferNext]_transferVars => [Calls!Next]_Calls!callVars
  BY StepIsCall
<1>3. QED
  BY <1>1, <1>2, InvHolds, PTL DEF TransferSpec, CallsSpec, Calls!Spec
================================================================================
