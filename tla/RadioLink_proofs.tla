--------------------------- MODULE RadioLink_proofs ---------------------------
(***************************************************************************)
(* For any users, channel messages and notifications, any channel sizes    *)
(* and any number of attempts and outages: the tracker credits a verdict   *)
(* to the send it is about, and no reply is put on the wire more often     *)
(* than its attempts allow.  The first follows the frames of a send from   *)
(* the channel to the client through the radio and back; the second, what  *)
(* a reply will be made from, from the message that asks for it to the     *)
(* last record of its transmission: there is never more than one such      *)
(* thing, wherever it is, and it knows how many copies there can be.       *)
(***************************************************************************)
EXTENDS RadioLink, FiniteSetTheorems, SequenceTheorems, TLAPS

Attempt == 1 .. MaxAttempts
Sending == Reply \X Attempt

(* Frames and events are about a reply, about a message, or about nothing. *)
Item ==
  {f \in [kind : {"text", "sync", "work", "connected", "disconnected", "msgWaiting",
                  "message", "sent", "sendFailed", "confirmed"},
          id : Reply \cup Chatter \cup {"none"}, attempt : 0 .. MaxAttempts] :
     /\ f.kind \in {"text", "sent", "sendFailed", "confirmed"} =>
          f.id \in Reply /\ f.attempt \in Attempt
     /\ f.kind = "message" => f.id \in Command \cup Chatter
     /\ f.kind = "work" => f.id \in Command}

Kinds(s, kinds) == \A i \in DOMAIN s : s[i].kind \in kinds

Types ==
  /\ cmd \in Seq(Item) /\ Kinds(cmd, {"text", "sync"})
  /\ events \in Seq(Item) /\ fromRadio \in Seq(Item)
  /\ holding \in Seq(Item) /\ Len(holding) <= 1
  /\ loop \in Seq(Item) /\ Kinds(loop, {"text", "sync", "work"})
  /\ reply \in Seq(Item) /\ Kinds(reply, {"text"})
  /\ work \in Seq(Command) /\ inbox \in Seq(Command \cup Chatter)
  /\ awaitingSent \in Seq(Sending)
  /\ IsFiniteSet(DOMAIN awaitingAck)
  /\ \A c \in DOMAIN awaitingAck : awaitingAck[c] \in Sending
  /\ onAir \subseteq Sending /\ unasked \subseteq Reply
  /\ copies \in [Reply -> Nat]

(* What reply r is made from is at place i of a station, with n copies on the
   wire at most: the message to come, the message under way, the text to be
   sent, the record of its last transmission. *)
Waits(s, i, r) == i \in DOMAIN s /\ s[i].kind = "message" /\ s[i].id = r
At(station, i, r, n) ==
  \/ station = "unasked" /\ i = 1 /\ r \in unasked /\ n = 0
  \/ station = "inbox" /\ i \in DOMAIN inbox /\ inbox[i] = r /\ n = 0
  \/ station = "fromRadio" /\ Waits(fromRadio, i, r) /\ n = 0
  \/ station = "holding" /\ Waits(holding, i, r) /\ n = 0
  \/ station = "events" /\ Waits(events, i, r) /\ n = 0
  \/ /\ station = "loop" /\ i \in DOMAIN loop /\ loop[i].id = r
     /\ \/ loop[i].kind = "work" /\ n = 0
        \/ loop[i].kind = "text" /\ loop[i].attempt = n + 1
  \/ station = "work" /\ i \in DOMAIN work /\ work[i] = r /\ n = 0
  \/ /\ station = "reply" /\ i \in DOMAIN reply /\ reply[i].id = r
     /\ reply[i].attempt = n + 1
  \/ station = "awaitingSent" /\ i \in DOMAIN awaitingSent /\ awaitingSent[i] = <<r, n>>
  \/ station = "awaitingAck" /\ i \in DOMAIN awaitingAck /\ awaitingAck[i] = <<r, n>>

Once ==
  \A r \in Reply : \A a, b, i, j : \A n, m \in Nat :
    At(a, i, r, n) /\ At(b, j, r, m) => a = b /\ i = j
Within == \A r \in Reply : \A a, i : \A n \in Nat : At(a, i, r, n) => copies[r] <= n

Inv == Types /\ VerdictsMatch /\ Once /\ Within /\ CopiesBounded


-----------------------------------------------------------------------------
(* Queues and paths. *)

(* What becomes of a path does not matter as long as its verdicts stay, about
   the same sends and in the same order. *)
LEMMA Reindexed ==
  ASSUME NEW q, NEW p1, NEW p2, NEW g \in [Verdicts(p1) -> Verdicts(p2)],
         InStep(q, p1),
         \A i, j \in Verdicts(p1) : i < j => g[i] < g[j],
         \A j \in Verdicts(p2) : \E i \in Verdicts(p1) : g[i] = j,
         \A i \in Verdicts(p1) : Crc(p2[g[i]]) = Crc(p1[i])
  PROVE  InStep(q, p2)
<1> DEFINE V1 == Verdicts(p1)
           V2 == Verdicts(p2)
<1> HIDE DEF V1, V2
<1>1. PICK at \in [DOMAIN q -> V1] :
        /\ \A k, l \in DOMAIN q : k < l => at[k] < at[l]
        /\ \A i \in V1 : \E k \in DOMAIN q : at[k] = i
        /\ \A k \in DOMAIN q : q[k] = Crc(p1[at[k]])
  BY DEF InStep, V1
<1> DEFINE to == [k \in DOMAIN q |-> g[at[k]]]
<1>2. g \in [V1 -> V2] /\ (\A i, j \in V1 : i < j => g[i] < g[j])
  BY DEF V1, V2
<1>3. to \in [DOMAIN q -> V2]
  BY <1>1, <1>2
<1>4. \A k, l \in DOMAIN q : k < l => to[k] < to[l]
  BY <1>1, <1>2
<1>5. \A j \in V2 : \E k \in DOMAIN q : to[k] = j
  <2>1. \A j \in V2 : \E i \in V1 : g[i] = j
    BY DEF V1, V2
  <2> QED BY <1>1, <2>1
<1>6. \A k \in DOMAIN q : q[k] = Crc(p2[to[k]])
  <2>1. \A i \in V1 : Crc(p2[g[i]]) = Crc(p1[i])
    BY DEF V1
  <2> HIDE DEF Crc
  <2> QED BY <1>1, <2>1
<1> HIDE DEF to
<1> QED BY <1>3, <1>4, <1>5, <1>6 DEF InStep, V2

(* Frames that are no verdicts may join or leave anywhere. *)
LEMMA Silent ==
  ASSUME NEW q, NEW s \in Seq(Item), NEW d \in Seq(Item), NEW t \in Seq(Item),
         \A i \in DOMAIN d : ~IsVerdict(d[i])
  PROVE  InStep(q, s \o t) <=> InStep(q, s \o (d \o t))
<1> DEFINE p1 == s \o t
           p2 == s \o (d \o t)
           L == Len(s)
           D == Len(d)
<1>1. /\ p1 \in Seq(Item) /\ p2 \in Seq(Item) /\ L \in Nat /\ D \in Nat
      /\ Len(p1) = L + Len(t) /\ Len(p2) = L + D + Len(t)
      /\ DOMAIN p1 = 1 .. Len(p1) /\ DOMAIN p2 = 1 .. Len(p2) /\ Len(t) \in Nat
  OBVIOUS
<1>0. DOMAIN d = 1 .. D
  OBVIOUS
<1>2. \A i \in DOMAIN p1 : p1[i] = IF i <= L THEN s[i] ELSE t[i - L]
  BY ConcatProperties
<1>3. \A i \in DOMAIN p2 : p2[i] = IF i <= L THEN s[i]
                                    ELSE IF i <= L + D THEN d[i - L] ELSE t[i - L - D]
  <2>1. /\ d \o t \in Seq(Item) /\ Len(d \o t) = D + Len(t)
        /\ \A i \in 1 .. D + Len(t) : (d \o t)[i] = IF i <= D THEN d[i] ELSE t[i - D]
    BY ConcatProperties
  <2>2. \A i \in 1 .. L + Len(d \o t) :
          p2[i] = IF i <= L THEN s[i] ELSE (d \o t)[i - L]
    BY <2>1, ConcatProperties
  <2> QED BY <1>1, <2>1, <2>2
<1> DEFINE T == Len(t)
<1>r. /\ L \in Nat /\ D \in Nat /\ T \in Nat
      /\ DOMAIN p1 = 1 .. L + T /\ DOMAIN p2 = 1 .. L + D + T
  BY <1>1
<1>a. \A i \in 1 .. L : p1[i] = s[i] /\ p2[i] = s[i]
  BY <1>1, <1>2, <1>3
<1> HIDE DEF p1, p2, L, D, T
<1>b. \A i \in 1 .. L + T : i > L => p1[i] = t[i - L]
  <2> SUFFICES ASSUME NEW i \in 1 .. L + T, i > L PROVE p1[i] = t[i - L]
    OBVIOUS
  <2>1. i \in DOMAIN p1 /\ ~(i <= L)
    BY <1>r
  <2> QED BY <1>2, <2>1
<1>c. \A i \in 1 .. L + D + T : i > L + D => p2[i] = t[i - L - D]
  <2> SUFFICES ASSUME NEW i \in 1 .. L + D + T, i > L + D PROVE p2[i] = t[i - L - D]
    OBVIOUS
  <2>1. i \in DOMAIN p2 /\ ~(i <= L) /\ ~(i <= L + D)
    BY <1>r
  <2> QED BY <1>3, <2>1
<1>4. \A i \in DOMAIN p2 : i > L /\ i <= L + D => i \notin Verdicts(p2)
  <2> SUFFICES ASSUME NEW i \in DOMAIN p2, i > L, i <= L + D PROVE ~IsVerdict(p2[i])
    BY DEF Verdicts
  <2>1. i - L \in DOMAIN d /\ p2[i] = d[i - L]
    BY <1>1, <1>3, <1>0
  <2> HIDE DEF IsVerdict
  <2> QED BY <2>1
<1>5. ASSUME NEW i \in DOMAIN p1
      PROVE  /\ i <= L => i \in DOMAIN p2 /\ p2[i] = p1[i]
             /\ i > L => i + D \in DOMAIN p2 /\ p2[i + D] = p1[i]
  <2>1. CASE i <= L
    BY <1>r, <1>a, <2>1
  <2>2. CASE i > L
    <3>1. i + D \in DOMAIN p2 /\ i + D > L + D
      BY <1>r, <2>2
    <3>2. p2[i + D] = t[(i + D) - L - D] /\ p1[i] = t[i - L]
      BY <1>r, <1>b, <1>c, <2>2, <3>1
    <3>3. (i + D) - L - D = i - L
      BY <1>1
    <3> QED BY <1>1, <2>2, <3>1, <3>2, <3>3
  <2> QED BY <1>1, <2>1, <2>2
<1>6. ASSUME NEW i \in DOMAIN p2
      PROVE  /\ i <= L => i \in DOMAIN p1 /\ p2[i] = p1[i]
             /\ i > L + D => i - D \in DOMAIN p1 /\ p1[i - D] = p2[i]
  <2>1. CASE i <= L
    BY <1>r, <1>a, <2>1
  <2>2. CASE i > L + D
    <3>1. i - D \in DOMAIN p1 /\ i - D > L
      BY <1>r, <2>2
    <3>2. p1[i - D] = t[(i - D) - L] /\ p2[i] = t[i - L - D]
      BY <1>r, <1>b, <1>c, <2>2, <3>1
    <3>3. (i - D) - L = i - L - D
      BY <1>1
    <3> QED BY <1>1, <2>2, <3>1, <3>2, <3>3
  <2> QED BY <1>1, <2>1, <2>2
<1>n. Verdicts(p1) \subseteq DOMAIN p1 /\ Verdicts(p2) \subseteq DOMAIN p2
  BY DEF Verdicts
<1>7. ASSUME InStep(q, p1) PROVE InStep(q, p2)
  <2> DEFINE g == [i \in Verdicts(p1) |-> IF i <= L THEN i ELSE i + D]
  <2>1. g \in [Verdicts(p1) -> Verdicts(p2)]
    <3>1. ASSUME NEW i \in Verdicts(p1)
          PROVE  (IF i <= L THEN i ELSE i + D) \in Verdicts(p2)
      <4>1. i \in DOMAIN p1 /\ IsVerdict(p1[i]) /\ (i <= L \/ i > L)
        BY <1>1 DEF Verdicts
      <4> HIDE DEF IsVerdict
      <4> QED BY <1>1, <1>5, <4>1 DEF Verdicts
    <3> QED BY <3>1
  <2>2. \A i, j \in Verdicts(p1) : i < j => g[i] < g[j]
    BY <1>1, <1>n
  <2>3. \A j \in Verdicts(p2) : \E i \in Verdicts(p1) : g[i] = j
    <3> SUFFICES ASSUME NEW j \in Verdicts(p2) PROVE \E i \in Verdicts(p1) : g[i] = j
      OBVIOUS
    <3>1. CASE j <= L
      BY <1>6, <3>1, <1>n DEF Verdicts
    <3>2. CASE j > L + D
      <4>1. j - D \in Verdicts(p1) /\ ~(j - D <= L) /\ (j - D) + D = j
        BY <1>1, <1>6, <3>2, <1>n DEF Verdicts
      <4>2. g[j - D] = (j - D) + D
        BY <4>1
      <4> QED BY <4>1, <4>2
    <3>3. j <= L \/ j > L + D
      BY <1>1, <1>4, <1>n
    <3> HIDE DEF g
    <3> QED BY <3>1, <3>2, <3>3
  <2>4. \A i \in Verdicts(p1) : Crc(p2[g[i]]) = Crc(p1[i])
    BY <1>1, <1>5, <1>n DEF Verdicts
  <2> HIDE DEF g
  <2> QED BY <1>7, <2>1, <2>2, <2>3, <2>4, Reindexed
<1>8. ASSUME InStep(q, p2) PROVE InStep(q, p1)
  <2> DEFINE g == [i \in Verdicts(p2) |-> IF i <= L THEN i ELSE i - D]
  <2>0. \A i \in Verdicts(p2) : i <= L \/ i > L + D
    BY <1>1, <1>4, <1>n
  <2>1. g \in [Verdicts(p2) -> Verdicts(p1)]
    <3>1. ASSUME NEW i \in Verdicts(p2)
          PROVE  (IF i <= L THEN i ELSE i - D) \in Verdicts(p1)
      <4>1. i \in DOMAIN p2 /\ IsVerdict(p2[i])
        BY DEF Verdicts
      <4> HIDE DEF IsVerdict
      <4> QED BY <1>1, <1>6, <2>0, <4>1 DEF Verdicts
    <3> QED BY <3>1
  <2>2. \A i, j \in Verdicts(p2) : i < j => g[i] < g[j]
    BY <1>1, <1>n, <2>0
  <2>3. \A j \in Verdicts(p1) : \E i \in Verdicts(p2) : g[i] = j
    <3> SUFFICES ASSUME NEW j \in Verdicts(p1) PROVE \E i \in Verdicts(p2) : g[i] = j
      OBVIOUS
    <3>1. CASE j <= L
      BY <1>5, <3>1, <1>n DEF Verdicts
    <3>2. CASE j > L
      <4>0. j \in DOMAIN p1 /\ IsVerdict(p1[j])
        BY DEF Verdicts
      <4>1. j + D \in Verdicts(p2)
        <5> HIDE DEF IsVerdict
        <5> QED BY <1>5, <3>2, <4>0 DEF Verdicts
      <4>2. ~(j + D <= L) /\ (j + D) - D = j
        BY <1>1, <3>2, <4>0
      <4>3. g[j + D] = (j + D) - D
        BY <4>1, <4>2
      <4> QED BY <4>1, <4>2, <4>3
    <3>3. j <= L \/ j > L
      BY <1>1, <1>n
    <3> HIDE DEF g
    <3> QED BY <3>1, <3>2, <3>3
  <2>4. \A i \in Verdicts(p2) : Crc(p1[g[i]]) = Crc(p2[i])
    BY <1>1, <1>6, <2>0, <1>n DEF Verdicts
  <2> HIDE DEF g
  <2> QED BY <1>8, <2>1, <2>2, <2>3, <2>4, Reindexed
<1> QED BY <1>7, <1>8 DEF p1, p2

(* The answer takes the place of the text on the path. *)
LEMMA Replaced ==
  ASSUME NEW q, NEW s \in Seq(Item), NEW e \in Item, NEW f \in Item, NEW t \in Seq(Item),
         IsVerdict(e), IsVerdict(f), Crc(e) = Crc(f), InStep(q, s \o (<<e>> \o t))
  PROVE  InStep(q, s \o (<<f>> \o t))
<1> DEFINE p1 == s \o (<<e>> \o t)
           p2 == s \o (<<f>> \o t)
<1>1. \A x \in Item : /\ <<x>> \o t \in Seq(Item) /\ Len(<<x>> \o t) = Len(t) + 1
                      /\ \A i \in 1 .. Len(t) + 1 :
                           (<<x>> \o t)[i] = IF i = 1 THEN x ELSE t[i - 1]
  OBVIOUS
<1>2. /\ DOMAIN p1 = 1 .. Len(s) + Len(t) + 1 /\ DOMAIN p2 = DOMAIN p1
      /\ \A i \in DOMAIN p1 : IF i = Len(s) + 1 THEN p1[i] = e /\ p2[i] = f
                                                ELSE p1[i] = p2[i]
  <2>1. ASSUME NEW x \in Item
        PROVE  /\ s \o (<<x>> \o t) \in Seq(Item)
               /\ Len(s \o (<<x>> \o t)) = Len(s) + (Len(t) + 1)
               /\ \A i \in 1 .. Len(s) + (Len(t) + 1) : (s \o (<<x>> \o t))[i] =
                    IF i <= Len(s) THEN s[i] ELSE (<<x>> \o t)[i - Len(s)]
    BY <1>1, ConcatProperties
  <2>2. Len(s) \in Nat /\ Len(t) \in Nat
    OBVIOUS
  <2> QED BY <1>1, <2>1, <2>2
<1> HIDE DEF p1, p2
<1>3. /\ Verdicts(p2) = Verdicts(p1)
      /\ \A i \in Verdicts(p1) : Crc(p2[i]) = Crc(p1[i])
  <2> HIDE DEF Crc, IsVerdict
  <2> QED BY <1>2 DEF Verdicts
<1> DEFINE g == [i \in Verdicts(p1) |-> i]
<1>4. g \in [Verdicts(p1) -> Verdicts(p2)]
  BY <1>3
<1>5. \A i \in Verdicts(p1) : g[i] = i
  OBVIOUS
<1> HIDE DEF g
<1>6. InStep(q, p1)
  BY DEF p1
<1>7. InStep(q, p2)
  BY <1>3, <1>4, <1>5, <1>6, Reindexed
<1> QED BY <1>7 DEF p2

(* A send is recorded as its text is placed. *)
LEMMA Recorded ==
  ASSUME NEW q \in Seq(Sending), NEW p \in Seq(Item), NEW f \in Item, IsVerdict(f),
         Crc(f) \in Sending, InStep(q, p)
  PROVE  InStep(Append(q, Crc(f)), Append(p, f))
<1> DEFINE q2 == Append(q, Crc(f))
           p2 == Append(p, f)
           N == Len(q) + 1
           M == Len(p) + 1
<1>1. /\ DOMAIN q = 1 .. Len(q) /\ DOMAIN q2 = 1 .. N /\ N \in Nat /\ Len(q) \in Nat
      /\ q2[N] = Crc(f) /\ \A k \in DOMAIN q : q2[k] = q[k]
  <2> HIDE DEF Crc
  <2> QED OBVIOUS
<1>2. /\ DOMAIN p = 1 .. Len(p) /\ DOMAIN p2 = 1 .. M /\ M \in Nat /\ Len(p) \in Nat
      /\ p2[M] = f /\ \A k \in DOMAIN p : p2[k] = p[k]
  OBVIOUS
<1>3. N = Len(q) + 1 /\ M = Len(p) + 1
  OBVIOUS
<1> HIDE DEF q2, p2, N, M
<1>4. Verdicts(p2) = Verdicts(p) \cup {M} /\ Verdicts(p) \subseteq 1 .. Len(p)
  <2> HIDE DEF IsVerdict
  <2> QED BY <1>2, <1>3 DEF Verdicts
<1>5. PICK at \in [DOMAIN q -> Verdicts(p)] :
        /\ \A k, l \in DOMAIN q : k < l => at[k] < at[l]
        /\ \A i \in Verdicts(p) : \E k \in DOMAIN q : at[k] = i
        /\ \A k \in DOMAIN q : q[k] = Crc(p[at[k]])
  BY DEF InStep
<1> DEFINE to == [k \in DOMAIN q2 |-> IF k = N THEN M ELSE at[k]]
<1>6. to \in [DOMAIN q2 -> Verdicts(p2)]
  BY <1>1, <1>3, <1>4, <1>5
<1>7. to[N] = M /\ \A k \in DOMAIN q : to[k] = at[k]
  BY <1>1, <1>3
<1> HIDE DEF to
<1>8. \A k, l \in DOMAIN q2 : k < l => to[k] < to[l]
  <2> SUFFICES ASSUME NEW k \in DOMAIN q2, NEW l \in DOMAIN q2, k < l PROVE to[k] < to[l]
    OBVIOUS
  <2>1. k \in DOMAIN q /\ (l = N \/ l \in DOMAIN q)
    BY <1>1, <1>3
  <2>2. at[k] \in 1 .. Len(p) /\ to[k] = at[k]
    BY <1>4, <1>5, <1>7, <2>1
  <2>3. CASE l = N
    BY <1>2, <1>3, <1>7, <2>2, <2>3
  <2>4. CASE l \in DOMAIN q
    BY <1>5, <1>7, <2>1, <2>2, <2>4
  <2> QED BY <2>1, <2>3, <2>4
<1>9. \A i \in Verdicts(p2) : \E k \in DOMAIN q2 : to[k] = i
  <2>1. DOMAIN q \subseteq DOMAIN q2 /\ N \in DOMAIN q2
    BY <1>1, <1>3
  <2> QED BY <1>4, <1>5, <1>7, <2>1
<1>10. \A k \in DOMAIN q2 : q2[k] = Crc(p2[to[k]])
  <2>1. ASSUME NEW k \in DOMAIN q PROVE q2[k] = Crc(p2[to[k]])
    <3>1. at[k] \in DOMAIN p
      BY <1>2, <1>4, <1>5
    <3> QED BY <1>1, <1>2, <1>5, <1>7, <3>1
  <2> QED BY <1>1, <1>2, <1>3, <1>7, <2>1
<1>11. InStep(q2, p2)
  BY <1>6, <1>8, <1>9, <1>10 DEF InStep
<1> QED BY <1>11 DEF q2, p2

(* The first verdict on the path is about the oldest send. *)
LEMMA Answered ==
  ASSUME NEW q \in Seq(Sending), NEW p \in Seq(Item), p # <<>>, IsVerdict(Head(p)),
         InStep(q, p)
  PROVE  q # <<>> /\ Head(q) = Crc(Head(p)) /\ InStep(Tail(q), Tail(p))
<1>1. /\ DOMAIN p = 1 .. Len(p) /\ Len(p) \in Nat /\ Len(p) >= 1 /\ Head(p) = p[1]
      /\ DOMAIN Tail(p) = 1 .. Len(p) - 1
      /\ \A i \in 1 .. Len(p) - 1 : Tail(p)[i] = p[i + 1]
  OBVIOUS
<1>2. 1 \in Verdicts(p) /\ Verdicts(p) \subseteq 1 .. Len(p)
  BY <1>1 DEF Verdicts
<1>3. PICK at \in [DOMAIN q -> Verdicts(p)] :
        /\ \A k, l \in DOMAIN q : k < l => at[k] < at[l]
        /\ \A i \in Verdicts(p) : \E k \in DOMAIN q : at[k] = i
        /\ \A k \in DOMAIN q : q[k] = Crc(p[at[k]])
  BY DEF InStep
<1>4. DOMAIN q = 1 .. Len(q) /\ Len(q) \in Nat
  OBVIOUS
<1>5. 1 \in DOMAIN q /\ at[1] = 1
  <2>1. PICK k \in DOMAIN q : at[k] = 1
    BY <1>2, <1>3
  <2>2. 1 \in DOMAIN q /\ (k = 1 \/ 1 < k)
    BY <1>4
  <2>3. ~(1 < k)
    BY <1>1, <1>2, <1>3, <2>1, <2>2
  <2> QED BY <2>1, <2>2, <2>3
<1>6. /\ q # <<>> /\ Head(q) = q[1] /\ DOMAIN Tail(q) = 1 .. Len(q) - 1
      /\ \A k \in 1 .. Len(q) - 1 : Tail(q)[k] = q[k + 1]
  BY <1>4, <1>5
<1>7. \A i \in 1 .. Len(p) - 1 : i \in Verdicts(Tail(p)) <=> i + 1 \in Verdicts(p)
  <2> HIDE DEF IsVerdict
  <2> QED BY <1>1 DEF Verdicts
<1>n. Verdicts(Tail(p)) \subseteq 1 .. Len(p) - 1
  BY <1>1 DEF Verdicts
<1> DEFINE to == [k \in 1 .. Len(q) - 1 |-> at[k + 1] - 1]
<1>8. \A k \in 1 .. Len(q) - 1 : /\ k + 1 \in DOMAIN q /\ at[k + 1] \in Verdicts(p)
                                 /\ at[k + 1] > 1
  BY <1>2, <1>3, <1>4, <1>5
<1>9. \A k \in 1 .. Len(q) - 1 : /\ to[k] + 1 = at[k + 1] /\ to[k] \in 1 .. Len(p) - 1
                                 /\ to[k] \in Verdicts(Tail(p))
  <2> SUFFICES ASSUME NEW k \in 1 .. Len(q) - 1
               PROVE  /\ to[k] + 1 = at[k + 1] /\ to[k] \in 1 .. Len(p) - 1
                      /\ to[k] \in Verdicts(Tail(p))
    OBVIOUS
  <2>1. at[k + 1] \in Verdicts(p) /\ at[k + 1] \in 1 .. Len(p) /\ at[k + 1] > 1
    BY <1>2, <1>8
  <2>2. to[k] = at[k + 1] - 1
    OBVIOUS
  <2> HIDE DEF to
  <2>3. to[k] + 1 = at[k + 1] /\ to[k] \in 1 .. Len(p) - 1
    BY <1>1, <2>1, <2>2
  <2> QED BY <1>7, <2>1, <2>3
<1>10. to \in [DOMAIN Tail(q) -> Verdicts(Tail(p))]
  BY <1>6, <1>9
<1> HIDE DEF to
<1>11. \A k, l \in 1 .. Len(q) - 1 : k < l => to[k] < to[l]
  <2> SUFFICES ASSUME NEW k \in 1 .. Len(q) - 1, NEW l \in 1 .. Len(q) - 1, k < l
               PROVE  to[k] < to[l]
    OBVIOUS
  <2>1. k + 1 < l + 1 /\ at[k + 1] < at[l + 1]
    BY <1>3, <1>4, <1>8
  <2> QED BY <1>1, <1>4, <1>9, <2>1
<1>12. \A i \in Verdicts(Tail(p)) : \E k \in 1 .. Len(q) - 1 : to[k] = i
  <2> SUFFICES ASSUME NEW i \in Verdicts(Tail(p)) PROVE \E k \in 1 .. Len(q) - 1 : to[k] = i
    OBVIOUS
  <2>1. i \in 1 .. Len(p) - 1 /\ i + 1 \in Verdicts(p)
    BY <1>7, <1>n
  <2>2. PICK l \in DOMAIN q : at[l] = i + 1
    BY <1>3, <2>1
  <2>3. l # 1
    BY <1>1, <1>5, <2>1, <2>2
  <2>4. l - 1 \in 1 .. Len(q) - 1 /\ (l - 1) + 1 = l
    BY <1>4, <2>3
  <2>5. to[l - 1] + 1 = i + 1
    BY <1>9, <2>2, <2>4
  <2>6. to[l - 1] \in Int /\ i \in Int
    BY <1>1, <1>9, <2>1, <2>4
  <2> QED BY <2>4, <2>5, <2>6
<1>13. \A k \in 1 .. Len(q) - 1 : Tail(q)[k] = Crc(Tail(p)[to[k]])
  <2> SUFFICES ASSUME NEW k \in 1 .. Len(q) - 1 PROVE Tail(q)[k] = Crc(Tail(p)[to[k]])
    OBVIOUS
  <2>1. Tail(q)[k] = q[k + 1] /\ q[k + 1] = Crc(p[at[k + 1]])
    BY <1>3, <1>6, <1>8
  <2>2. Tail(p)[to[k]] = p[at[k + 1]]
    BY <1>1, <1>9
  <2> HIDE DEF Crc
  <2> QED BY <2>1, <2>2
<1>14. InStep(Tail(q), Tail(p))
  <2>1. DOMAIN Tail(q) = 1 .. Len(q) - 1
    BY <1>6
  <2> HIDE DEF Crc
  <2> QED BY <1>10, <1>11, <1>12, <1>13, <2>1 DEF InStep
<1>15. Head(q) = Crc(Head(p))
  BY <1>1, <1>3, <1>5, <1>6
<1> QED BY <1>6, <1>14, <1>15

-----------------------------------------------------------------------------
(* Types. *)

LEMMA Shapes ==
  /\ \A k \in {"connected", "disconnected", "msgWaiting"} :
       Event(k) \in Item /\ Event(k).kind = k
  /\ Frame("sync") \in Item /\ Frame("sync").kind = "sync"
  /\ \A c \in Command \cup Chatter :
       Message(c) \in Item /\ Message(c).kind = "message" /\ Message(c).id = c
  /\ \A c \in Command : HandOver(c) \in Item /\ HandOver(c).kind = "work" /\ HandOver(c).id = c
  /\ \A r \in Reply, n \in Attempt :
       /\ Text(r, n) \in Item /\ Text(r, n).kind = "text" /\ Text(r, n).id = r
       /\ Text(r, n).attempt = n
<1>1. 0 \in 0 .. MaxAttempts /\ Attempt \subseteq 0 .. MaxAttempts /\ Command \subseteq Reply
  BY AttemptsAssumption DEF Attempt, Reply
<1>2. \A k \in {"connected", "disconnected", "msgWaiting"} :
        Event(k) \in Item /\ Event(k).kind = k
  BY <1>1 DEF Event, Item
<1>3. Frame("sync") \in Item /\ Frame("sync").kind = "sync"
  BY <1>1 DEF Frame, Item
<1>4. \A c \in Command \cup Chatter :
        Message(c) \in Item /\ Message(c).kind = "message" /\ Message(c).id = c
  BY <1>1 DEF Message, Item
<1>5. \A c \in Command : HandOver(c) \in Item /\ HandOver(c).kind = "work" /\ HandOver(c).id = c
  BY <1>1 DEF HandOver, Item
<1>6. ASSUME NEW r \in Reply, NEW n \in Attempt
      PROVE  /\ Text(r, n) \in Item /\ Text(r, n).kind = "text" /\ Text(r, n).id = r
             /\ Text(r, n).attempt = n
  BY <1>1 DEF Text, Item
<1> QED BY <1>2, <1>3, <1>4, <1>5, <1>6

(* What the radio makes of a text it takes, and of a confirmation. *)
LEMMA Answers ==
  ASSUME NEW f \in Item, f.kind = "text"
  PROVE  /\ SentOk(f) \in Item /\ IsVerdict(SentOk(f)) /\ Crc(SentOk(f)) = Crc(f)
         /\ SendFailed(f) \in Item /\ IsVerdict(SendFailed(f)) /\ Crc(SendFailed(f)) = Crc(f)
         /\ Crc(f) \in Sending /\ IsVerdict(f)
         /\ SentOk(f).kind # "message" /\ SendFailed(f).kind # "message"
<1>1. f.id \in Reply /\ f.attempt \in Attempt /\ f.attempt \in 0 .. MaxAttempts
  BY DEF Item
<1>2. SentOk(f) \in Item /\ SendFailed(f) \in Item
  BY <1>1 DEF SentOk, SendFailed, Item
<1> QED BY <1>1, <1>2 DEF SentOk, SendFailed, IsVerdict, Crc, Sending

LEMMA Confirmations ==
  ASSUME NEW c \in Sending
  PROVE  LET e == [kind |-> "confirmed", id |-> c[1], attempt |-> c[2]]
         IN  e \in Item /\ ~IsVerdict(e) /\ e.kind # "message"
<1>1. c[1] \in Reply /\ c[2] \in Attempt /\ c[2] \in 0 .. MaxAttempts
  BY AttemptsAssumption DEF Sending, Attempt
<1> QED BY <1>1 DEF Item, IsVerdict

(* The head of a queue leaves, an element joins its end. *)
LEMMA HeadLeaves ==
  ASSUME NEW X, NEW s \in Seq(X), s # <<>>
  PROVE  /\ Tail(s) \in Seq(X) /\ Head(s) \in X /\ Head(s) = s[1] /\ 1 \in DOMAIN s
         /\ s = <<Head(s)>> \o Tail(s)
         /\ Len(Tail(s)) = Len(s) - 1
         /\ \A i \in DOMAIN Tail(s) : /\ i \in Nat \ {0} /\ i + 1 \in DOMAIN s
                                      /\ Tail(s)[i] = s[i + 1]
<1>1. Tail(s) \in Seq(X) /\ Head(s) \in X /\ Head(s) = s[1] /\ 1 \in DOMAIN s
  OBVIOUS
<1>2. s = <<Head(s)>> \o Tail(s)
  OBVIOUS
<1> QED BY <1>1, <1>2

LEMMA EndJoins ==
  ASSUME NEW X, NEW s \in Seq(X), NEW e \in X
  PROVE  /\ Append(s, e) \in Seq(X) /\ Append(s, e) = s \o <<e>>
         /\ Len(Append(s, e)) = Len(s) + 1
         /\ \A i \in DOMAIN Append(s, e) : \/ i \in DOMAIN s /\ Append(s, e)[i] = s[i]
                                           \/ i = Len(s) + 1 /\ Append(s, e)[i] = e
OBVIOUS

LEMMA KindsLeave ==
  ASSUME NEW s \in Seq(Item), s # <<>>, NEW K, Kinds(s, K)
  PROVE  Kinds(Tail(s), K) /\ Head(s).kind \in K
BY HeadLeaves DEF Kinds

LEMMA KindsJoin ==
  ASSUME NEW s \in Seq(Item), NEW e \in Item, NEW K, Kinds(s, K), e.kind \in K
  PROVE  Kinds(Append(s, e), K)
BY EndJoins DEF Kinds

-----------------------------------------------------------------------------
(* What a reply is made from goes from one station to another. *)

Queues == {"inbox", "fromRadio", "holding", "events", "loop", "work", "reply", "awaitingSent"}

(* The queues in S lose their head; what is then at place j of b comes from what
   was at place i of a, and nothing else moved. *)
Follows(S, a, i, b, j) ==
  /\ S \subseteq Queues
  /\ \/ a \in S /\ i = 1
     \/ a \notin S /\ \A r \in Reply, n, m \in Nat : At(b, j, r, m)' => ~At(a, i, r, n)'
  /\ \A r \in Reply, n \in Nat : \A c, k :
       At(c, k, r, n)' => IF c = b /\ k = j THEN \E u \in Nat : At(a, i, r, u)
                          ELSE IF c \in S THEN At(c, k + 1, r, n)
                          ELSE At(c, k, r, n)

LEMMA StillOnce ==
  ASSUME Once, Types', NEW S, NEW a, NEW i, NEW b, NEW j, Follows(S, a, i, b, j)
  PROVE  Once'
<1>0. S \subseteq Queues
  BY DEF Follows
<1>1. ASSUME NEW r \in Reply, NEW n \in Nat, NEW c \in S, NEW k, At(c, k, r, n)'
      PROVE  k \in Nat \ {0}
  <2>1. /\ DOMAIN inbox' \subseteq Nat \ {0} /\ DOMAIN fromRadio' \subseteq Nat \ {0}
        /\ DOMAIN holding' \subseteq Nat \ {0} /\ DOMAIN events' \subseteq Nat \ {0}
        /\ DOMAIN loop' \subseteq Nat \ {0} /\ DOMAIN work' \subseteq Nat \ {0}
        /\ DOMAIN reply' \subseteq Nat \ {0} /\ DOMAIN awaitingSent' \subseteq Nat \ {0}
    <3>1. \A X : \A s \in Seq(X) : DOMAIN s \subseteq Nat \ {0}
      OBVIOUS
    <3>2. /\ inbox' \in Seq(Command \cup Chatter) /\ fromRadio' \in Seq(Item)
          /\ holding' \in Seq(Item) /\ events' \in Seq(Item) /\ loop' \in Seq(Item)
          /\ work' \in Seq(Command) /\ reply' \in Seq(Item)
          /\ awaitingSent' \in Seq(Sending)
      BY DEF Types
    <3> QED BY <3>1, <3>2
  <2> QED BY <1>0, <1>1, <2>1 DEF At, Waits, Queues
<1>2. Once'
  <2> SUFFICES ASSUME NEW r \in Reply, NEW n \in Nat, NEW m \in Nat, NEW c, NEW d, NEW k, NEW l,
                      At(c, k, r, n)', At(d, l, r, m)'
               PROVE  c = d /\ k = l
    BY DEF Once
  <2>1. CASE c = b /\ k = j /\ d = b /\ l = j
    BY <2>1
  <2>2. ASSUME NEW x, NEW y, NEW o \in Nat, At(x, y, r, o)', ~(x = b /\ y = j),
               NEW p \in Nat, At(b, j, r, p)', NEW u \in Nat, At(a, i, r, u)
        PROVE  FALSE
    <3>1. CASE x \in S
      <4>1. At(x, y + 1, r, o)
        BY <2>2, <3>1 DEF Follows
      <4>2. x = a /\ y + 1 = i
        BY <2>2, <4>1 DEF Once
      <4>3. i = 1 /\ y \in Nat \ {0}
        BY <1>1, <2>2, <3>1, <4>2 DEF Follows
      <4> QED BY <4>2, <4>3
    <3>2. CASE x \notin S
      <4>1. At(x, y, r, o)
        BY <2>2, <3>2 DEF Follows
      <4>2. x = a /\ y = i
        BY <2>2, <4>1 DEF Once
      <4> QED BY <2>2, <3>2, <4>2 DEF Follows
    <3> QED BY <3>1, <3>2
  <2>3. CASE c = b /\ k = j /\ ~(d = b /\ l = j)
    <3>1. PICK u \in Nat : At(a, i, r, u)
      BY <2>3 DEF Follows
    <3> QED BY <2>2, <2>3, <3>1
  <2>4. CASE d = b /\ l = j /\ ~(c = b /\ k = j)
    <3>1. PICK u \in Nat : At(a, i, r, u)
      BY <2>4 DEF Follows
    <3> QED BY <2>2, <2>4, <3>1
  <2>5. CASE ~(c = b /\ k = j) /\ ~(d = b /\ l = j)
    <3>1. /\ IF c \in S THEN At(c, k + 1, r, n) ELSE At(c, k, r, n)
          /\ IF d \in S THEN At(d, l + 1, r, m) ELSE At(d, l, r, m)
      BY <2>5 DEF Follows
    <3>2. c = d
      BY <3>1 DEF Once
    <3>3. CASE c \in S
      <4>1. k + 1 = l + 1
        BY <3>1, <3>2, <3>3 DEF Once
      <4>2. k \in Nat /\ l \in Nat
        BY <1>1, <3>2, <3>3
      <4> QED BY <3>2, <4>1, <4>2
    <3>4. CASE c \notin S
      BY <3>1, <3>2, <3>4 DEF Once
    <3> QED BY <3>3, <3>4
  <2> QED BY <2>1, <2>3, <2>4, <2>5
<1> QED BY <1>2

(* The same when the reply has been sent as often after the step as before. *)
Moves(S, a, i, b, j) ==
  /\ S \subseteq Queues
  /\ \/ a \in S /\ i = 1
     \/ a \notin S /\ \A r \in Reply, n, m \in Nat : At(b, j, r, m)' => ~At(a, i, r, n)'
  /\ \A r \in Reply, n \in Nat : \A c, k :
       At(c, k, r, n)' => IF c = b /\ k = j THEN At(a, i, r, n)
                          ELSE IF c \in S THEN At(c, k + 1, r, n)
                          ELSE At(c, k, r, n)

LEMMA Handed ==
  ASSUME Types, Once, Within, CopiesBounded, copies' = copies, Types',
         NEW S, NEW a, NEW i, NEW b, NEW j, Moves(S, a, i, b, j)
  PROVE  Once' /\ Within' /\ CopiesBounded'
<1>1. Follows(S, a, i, b, j)
  BY DEF Moves, Follows
<1>2. Once'
  BY <1>1, StillOnce
<1>3. Within'
  BY DEF Within, Moves
<1>4. CopiesBounded'
  BY DEF CopiesBounded
<1> QED BY <1>2, <1>3, <1>4

(* Nothing moved, though something may be gone. *)
LEMMA Fewer ==
  ASSUME Types, Once, Within, CopiesBounded, copies' = copies, Types',
         \A r \in Reply, n \in Nat : \A c, k : At(c, k, r, n)' => At(c, k, r, n)
  PROVE  Once' /\ Within' /\ CopiesBounded'
<1>1. Once'
  BY DEF Once
<1>2. Within'
  BY DEF Within
<1>3. CopiesBounded'
  BY DEF CopiesBounded
<1> QED BY <1>1, <1>2, <1>3

-----------------------------------------------------------------------------
(* The path of a send: the frames in the channel to the client, the radio's
   answers, what the client reports. *)

Path == events \o holding \o fromRadio \o cmd

LEMMA Halves ==
  ASSUME NEW a \in Seq(Item), NEW b \in Seq(Item), NEW c \in Seq(Item), NEW d \in Seq(Item)
  PROVE  a \o b \o c \o d = (a \o b) \o (c \o d)
<1>1. a \o b \in Seq(Item)
  OBVIOUS
<1> QED BY <1>1, ConcatAssociative

LEMMA Joins ==
  ASSUME NEW a \in Seq(Item), NEW b \in Seq(Item)
  PROVE  a \o b \in Seq(Item)
OBVIOUS

LEMMA Groups ==
  ASSUME NEW a \in Seq(Item), NEW b \in Seq(Item), NEW c \in Seq(Item), NEW d \in Seq(Item)
  PROVE  /\ a \o b \in Seq(Item) /\ c \o d \in Seq(Item)
         /\ a \o b \o c \in Seq(Item) /\ b \o (c \o d) \in Seq(Item)
         /\ a \o b \o c \o d \in Seq(Item)
         /\ a \o b \o c \o d = (a \o b) \o (c \o d)
         /\ a \o b \o c \o d = a \o (b \o (c \o d))
<1>1. a \o b \in Seq(Item) /\ c \o d \in Seq(Item)
  OBVIOUS
<1>2. a \o b \o c \in Seq(Item) /\ b \o (c \o d) \in Seq(Item)
  BY <1>1, ConcatProperties
<1>3. a \o b \o c \o d \in Seq(Item)
  BY <1>2, ConcatProperties
<1>4. a \o b \o c \o d = (a \o b) \o (c \o d)
  BY <1>1, ConcatAssociative
<1>5. (a \o b) \o (c \o d) = a \o (b \o (c \o d))
  BY <1>1, ConcatAssociative
<1> QED BY <1>1, <1>2, <1>3, <1>4, <1>5

(* A step that leaves the tracker alone, or only forgets, leaves verdicts and
   sends in step if the path does. *)
LEMMA Matches ==
  ASSUME VerdictsMatch, lostVerdict => lostVerdict', awaitingSent' = awaitingSent,
         \A c \in DOMAIN awaitingAck' : c \in DOMAIN awaitingAck /\ awaitingAck'[c] = awaitingAck[c],
         ~lostVerdict' /\ InStep(awaitingSent, Path) => InStep(awaitingSent, Path')
  PROVE  VerdictsMatch'
<1>1. ~lostVerdict' => InStep(awaitingSent, Path) /\ \A c \in DOMAIN awaitingAck : awaitingAck[c] = c
  BY DEF VerdictsMatch, Path
<1>2. ~lostVerdict' => InStep(awaitingSent', Path')
  BY <1>1
<1> QED BY <1>1, <1>2 DEF VerdictsMatch, Path

(* The client reports an event, or holds it until there is room. *)
LEMMA ReportEffect ==
  ASSUME Types, holding = <<>>, NEW e \in Item, Report(e)
  PROVE  /\ events' \in Seq(Item) /\ holding' \in Seq(Item) /\ Len(holding') <= 1
         /\ events' \o holding' = (events \o holding) \o <<e>>
         /\ \A i, r :
              /\ Waits(events', i, r) =>
                   \/ Waits(events, i, r)
                   \/ /\ Len(events) < EventDepth /\ i = Len(events) + 1
                      /\ e.kind = "message" /\ e.id = r
              /\ Waits(holding', i, r) =>
                   /\ ~(Len(events) < EventDepth) /\ i = 1
                   /\ e.kind = "message" /\ e.id = r
<1>1. events \in Seq(Item) /\ events \o holding = events /\ <<e>> \in Seq(Item)
  BY DEF Types
<1>2. CASE Len(events) < EventDepth
  <2>0. events' = Append(events, e) /\ holding' = <<>>
    BY <1>2 DEF Report
  <2>1. events' \o holding' = (events \o holding) \o <<e>>
    BY <1>1, <2>0
  <2>2. \A i, r : ~Waits(holding', i, r)
    BY <2>0 DEF Waits
  <2>3. \A i, r : Waits(events', i, r) =>
          Waits(events, i, r) \/ (i = Len(events) + 1 /\ e.kind = "message" /\ e.id = r)
    BY <1>1, <2>0, EndJoins DEF Waits
  <2>4. events' \in Seq(Item) /\ holding' \in Seq(Item) /\ Len(holding') <= 1
    BY <1>1, <2>0
  <2> HIDE DEF Waits
  <2> QED BY <1>2, <2>1, <2>2, <2>3, <2>4
<1>3. CASE ~(Len(events) < EventDepth)
  <2>0. holding' = <<e>> /\ events' = events
    BY <1>3 DEF Report
  <2>1. events' \o holding' = (events \o holding) \o <<e>>
    BY <1>1, <2>0
  <2>2. \A i, r : Waits(holding', i, r) => i = 1 /\ e.kind = "message" /\ e.id = r
    BY <2>0 DEF Waits
  <2>4. events' \in Seq(Item) /\ holding' \in Seq(Item) /\ Len(holding') <= 1
    BY <1>1, <2>0
  <2> HIDE DEF Waits
  <2> QED BY <1>3, <2>0, <2>1, <2>2, <2>4
<1> QED BY <1>2, <1>3

(* An event that is no message is no reply's. *)
LEMMA QuietReport ==
  ASSUME Types, holding = <<>>, NEW e \in Item, Report(e), e.kind # "message"
  PROVE  \A i, r : /\ Waits(events', i, r) => Waits(events, i, r)
                   /\ Waits(holding', i, r) => Waits(holding, i, r)
BY ReportEffect

(* The client reports a change of the connection: the rest of the path, after
   what was lost with it, comes behind. *)
LEMMA ConnectionKeeps ==
  ASSUME Inv, holding = <<>>, NEW k \in {"connected", "disconnected"}, Report(Event(k)),
         fromRadio' \in {fromRadio, <<>>}, cmd' \in {cmd, Tail(cmd)}, cmd' # cmd => cmd # <<>>,
         lostVerdict => lostVerdict',
         ~lostVerdict' /\ fromRadio' # fromRadio =>
           \A i \in DOMAIN fromRadio : ~IsVerdict(fromRadio[i]),
         ~lostVerdict' /\ cmd' # cmd => fromRadio' = <<>> /\ ~IsVerdict(Head(cmd)),
         UNCHANGED <<loop, work, reply, trackerVars, inbox, onAir, unasked, copies>>
  PROVE  Inv'
<1> DEFINE e == Event(k)
<1>1. e \in Item /\ ~IsVerdict(e) /\ e.kind # "message"
  BY Shapes DEF IsVerdict
<1> HIDE DEF e
<1>n. Report(e)
  BY DEF e
<1>2. /\ events' \in Seq(Item) /\ holding' \in Seq(Item) /\ Len(holding') <= 1
      /\ events' \o holding' = (events \o holding) \o <<e>>
      /\ \A i, r : /\ Waits(events', i, r) => Waits(events, i, r)
                   /\ Waits(holding', i, r) => Waits(holding, i, r)
  BY <1>1, <1>n, ReportEffect, QuietReport DEF Inv
<1>3. /\ events \in Seq(Item) /\ holding \in Seq(Item) /\ fromRadio \in Seq(Item)
      /\ cmd \in Seq(Item) /\ Kinds(cmd, {"text", "sync"})
  BY DEF Inv, Types
<1>4. fromRadio' \in Seq(Item) /\ cmd' \in Seq(Item) /\ Kinds(cmd', {"text", "sync"})
  <2>1. fromRadio' \in Seq(Item)
    BY <1>3
  <2>2. CASE cmd' = cmd
    BY <1>3, <2>1, <2>2
  <2>3. CASE cmd' # cmd
    <3>1. cmd # <<>> /\ cmd' = Tail(cmd)
      BY <2>3
    <3> QED BY <1>3, <2>1, <3>1, HeadLeaves, KindsLeave
  <2> QED BY <2>2, <2>3
<1>5. Types'
  BY <1>2, <1>4 DEF Inv, Types, trackerVars
<1>6. InStep(awaitingSent, Path) /\ ~lostVerdict' => InStep(awaitingSent, Path')
  <2> SUFFICES ASSUME InStep(awaitingSent, Path), ~lostVerdict' PROVE InStep(awaitingSent, Path')
    OBVIOUS
  <2> DEFINE X == events \o holding
  <2>1. X \in Seq(Item) /\ Path = X \o (fromRadio \o cmd) /\ <<e>> \in Seq(Item)
    <3>1. /\ events \o holding \in Seq(Item)
          /\ events \o holding \o fromRadio \o cmd = (events \o holding) \o (fromRadio \o cmd)
      BY <1>3, Halves, Joins
    <3> QED BY <1>1, <3>1 DEF Path
  <2>2. /\ events' \o holding' \o fromRadio' \o cmd' = (events' \o holding') \o (fromRadio' \o cmd')
        /\ fromRadio' \o cmd' \in Seq(Item)
    <3>1. fromRadio' \o cmd' \in Seq(Item)
      BY <1>4, Joins
    <3>2. /\ events' \in Seq(Item) /\ holding' \in Seq(Item) /\ fromRadio' \in Seq(Item)
          /\ cmd' \in Seq(Item)
      BY <1>2, <1>4
    <3>3. events' \o holding' \in Seq(Item)
      BY <3>2, Joins
    <3>4. events' \o holding' \o fromRadio' \o cmd' = (events' \o holding') \o (fromRadio' \o cmd')
      BY <3>2, <3>3, ConcatAssociative
    <3> QED BY <3>1, <3>4
  <2>3. Path' = (X \o <<e>>) \o (fromRadio' \o cmd')
    BY <1>2, <2>2 DEF Path
  <2> HIDE DEF X
  <2>4. Path' = X \o (<<e>> \o (fromRadio' \o cmd'))
    BY <2>1, <2>2, <2>3, ConcatAssociative
  <2>5. InStep(awaitingSent, X \o (fromRadio' \o cmd'))
    <3>1. CASE fromRadio' = fromRadio /\ cmd' = cmd
      BY <2>1, <3>1
    <3>2. CASE fromRadio' = <<>> /\ cmd' = cmd
      <4>1. \A i \in DOMAIN fromRadio : ~IsVerdict(fromRadio[i])
        BY <3>2
      <4>2. InStep(awaitingSent, X \o cmd)
        BY <1>3, <2>1, <4>1, Silent
      <4>3. fromRadio' \o cmd' = cmd
        BY <1>3, <3>2
      <4> QED BY <4>2, <4>3
    <3>3. CASE cmd' # cmd
      <4>1. /\ cmd # <<>> /\ cmd' = Tail(cmd) /\ fromRadio' = <<>> /\ ~IsVerdict(Head(cmd))
            /\ \A i \in DOMAIN fromRadio : ~IsVerdict(fromRadio[i])
        BY <3>3
      <4>2. cmd = <<Head(cmd)>> \o Tail(cmd) /\ <<Head(cmd)>> \in Seq(Item) /\ Tail(cmd) \in Seq(Item)
        BY <1>3, <4>1, HeadLeaves
      <4>3. InStep(awaitingSent, X \o cmd)
        BY <1>3, <2>1, <4>1, Silent
      <4>4. \A i \in DOMAIN <<Head(cmd)>> : ~IsVerdict(<<Head(cmd)>>[i])
        BY <4>1
      <4>5. InStep(awaitingSent, X \o Tail(cmd))
        BY <2>1, <4>2, <4>3, <4>4, Silent
      <4>6. fromRadio' \o cmd' = Tail(cmd)
        BY <4>1, <4>2, ConcatEmptySeq
      <4> QED BY <4>5, <4>6
    <3> QED BY <3>1, <3>2, <3>3
  <2>6. \A i \in DOMAIN <<e>> : ~IsVerdict(<<e>>[i])
    BY <1>1
  <2> QED BY <2>1, <2>2, <2>4, <2>5, <2>6, Silent
<1>7. VerdictsMatch'
  BY <1>6, Matches DEF Inv, trackerVars
<1>8. \A r \in Reply, n \in Nat : \A c, i : At(c, i, r, n)' => At(c, i, r, n)
  <2>1. \A i, r : Waits(fromRadio', i, r) => Waits(fromRadio, i, r)
    BY DEF Waits
  <2> QED BY <1>2, <2>1 DEF At, trackerVars
<1> QED BY <1>5, <1>7, <1>8, Fewer DEF Inv

(* The path in its stages: what the client reported, what it has still to read,
   what it has still to write. *)
LEMMA Stages ==
  ASSUME Types
  PROVE  /\ events \o holding \in Seq(Item) /\ events \o holding \o fromRadio \in Seq(Item)
         /\ fromRadio \o cmd \in Seq(Item) /\ Path \in Seq(Item)
         /\ Path = (events \o holding) \o (fromRadio \o cmd)
<1>1. events \in Seq(Item) /\ holding \in Seq(Item) /\ fromRadio \in Seq(Item) /\ cmd \in Seq(Item)
  BY DEF Types
<1>2. events \o holding \in Seq(Item) /\ fromRadio \o cmd \in Seq(Item)
  BY <1>1, Joins
<1>3. events \o holding \o fromRadio \in Seq(Item)
  BY <1>1, <1>2, Joins
<1>4. events \o holding \o fromRadio \o cmd \in Seq(Item)
  BY <1>1, <1>3, Joins
<1>5. events \o holding \o fromRadio \o cmd = (events \o holding) \o (fromRadio \o cmd)
  BY <1>1, <1>2, ConcatAssociative
<1> QED BY <1>2, <1>3, <1>4, <1>5 DEF Path

(* What the client reports leaves its end of the radio's answers. *)
LEMMA PathKept ==
  ASSUME Types, Types', NEW m \in Seq(Item),
         events' \o holding' = (events \o holding) \o m, fromRadio = m \o fromRadio', cmd' = cmd
  PROVE  Path' = Path
<1> DEFINE E == events \o holding
<1>1. /\ E \in Seq(Item) /\ cmd \in Seq(Item)
      /\ fromRadio' \in Seq(Item) /\ fromRadio' \o cmd \in Seq(Item)
      /\ Path = E \o (fromRadio \o cmd)
  <2>1. cmd \in Seq(Item) /\ fromRadio' \in Seq(Item)
    BY DEF Types
  <2> QED BY <2>1, Stages, Joins
<1>2. Path' = (E \o m) \o fromRadio' \o cmd
  BY DEF Path
<1> HIDE DEF E
<1>t. E \in Seq(Item) /\ m \in Seq(Item) /\ cmd \in Seq(Item) /\ fromRadio' \in Seq(Item)
  BY <1>1
<1>3. E \o m \in Seq(Item) /\ fromRadio' \o cmd \in Seq(Item)
  BY <1>t, Joins
<1>4. (E \o m) \o fromRadio' \o cmd = (E \o m) \o (fromRadio' \o cmd)
  BY <1>t, <1>3, ConcatAssociative
<1>5. (E \o m) \o (fromRadio' \o cmd) = E \o (m \o (fromRadio' \o cmd))
  <2> DEFINE X == fromRadio' \o cmd
  <2>1. X \in Seq(Item)
    BY <1>3
  <2> HIDE DEF X
  <2>2. (E \o m) \o X = E \o (m \o X)
    BY <1>t, <2>1, ConcatAssociative
  <2> QED BY <2>2 DEF X
<1>6. m \o (fromRadio' \o cmd) = (m \o fromRadio') \o cmd
  BY <1>t, ConcatAssociative
<1> QED BY <1>1, <1>2, <1>4, <1>5, <1>6

(* What the radio sends comes before what it has not been sent. *)
LEMMA PathSpoken ==
  ASSUME Types, Types', NEW e \in Item, UNCHANGED <<events, holding>>,
         fromRadio' = Append(fromRadio, e)
  PROVE  Path' = (events \o holding \o fromRadio) \o (<<e>> \o cmd')
<1> DEFINE E == events \o holding
           S == E \o fromRadio
<1>1. /\ E \in Seq(Item) /\ S \in Seq(Item) /\ fromRadio \in Seq(Item) /\ cmd' \in Seq(Item)
      /\ <<e>> \in Seq(Item)
  <2>1. fromRadio \in Seq(Item) /\ cmd' \in Seq(Item)
    BY DEF Types
  <2> QED BY <2>1, Stages
<1>2. Path' = E \o Append(fromRadio, e) \o cmd'
  BY DEF Path
<1> HIDE DEF E
<1>3. Append(fromRadio, e) = fromRadio \o <<e>>
  BY <1>1, EndJoins
<1>4. E \o (fromRadio \o <<e>>) = S \o <<e>>
  BY <1>1, ConcatAssociative
<1> HIDE DEF S
<1>5. (S \o <<e>>) \o cmd' = S \o (<<e>> \o cmd')
  BY <1>1, ConcatAssociative
<1>6. Path' = S \o (<<e>> \o cmd')
  BY <1>2, <1>3, <1>4, <1>5
<1> QED BY <1>6 DEF S, E

(* A frame for the radio joins the end of the path. *)
LEMMA PathExtended ==
  ASSUME Types, NEW f \in Item, UNCHANGED <<events, holding, fromRadio>>, cmd' = Append(cmd, f)
  PROVE  Path' = Append(Path, f)
<1> DEFINE S == events \o holding \o fromRadio
<1>1. S \in Seq(Item) /\ cmd \in Seq(Item) /\ <<f>> \in Seq(Item) /\ Path \in Seq(Item)
  <2>1. cmd \in Seq(Item)
    BY DEF Types
  <2> QED BY <2>1, Stages
<1>2. Path' = S \o Append(cmd, f) /\ Path = S \o cmd
  BY DEF Path
<1> HIDE DEF S
<1>3. Append(cmd, f) = cmd \o <<f>>
  BY <1>1, EndJoins
<1>4. S \o (cmd \o <<f>>) = (S \o cmd) \o <<f>>
  BY <1>1, ConcatAssociative
<1>5. Append(Path, f) = Path \o <<f>>
  BY <1>1, EndJoins
<1> QED BY <1>2, <1>3, <1>4, <1>5

(* The event loop takes the head of the path. *)
LEMMA PathTaken ==
  ASSUME Types, Types', events # <<>>, events' = Tail(events), UNCHANGED <<holding, fromRadio, cmd>>
  PROVE  /\ Path = <<Head(events)>> \o Path' /\ Path' \in Seq(Item)
         /\ Path # <<>> /\ Head(Path) = Head(events) /\ Tail(Path) = Path'
<1> DEFINE h == Head(events)
           t == Tail(events)
           R == fromRadio \o cmd
<1>1. /\ events \in Seq(Item) /\ holding \in Seq(Item) /\ fromRadio \in Seq(Item) /\ cmd \in Seq(Item)
      /\ h \in Item /\ t \in Seq(Item) /\ events = <<h>> \o t
  <2>1. /\ events \in Seq(Item) /\ holding \in Seq(Item)
        /\ fromRadio \in Seq(Item) /\ cmd \in Seq(Item)
    BY DEF Types
  <2> QED BY <2>1, HeadLeaves
<1>2. Path = events \o holding \o fromRadio \o cmd /\ Path' = t \o holding \o fromRadio \o cmd
  BY DEF Path
<1> HIDE DEF h, t
<1>3. <<h>> \in Seq(Item) /\ t \o holding \in Seq(Item)
  BY <1>1, Joins
<1>4. t \o holding \o fromRadio \in Seq(Item)
  BY <1>1, <1>3, Joins
<1>5. t \o holding \o fromRadio \o cmd \in Seq(Item)
  BY <1>1, <1>4, Joins
<1>6. events \o holding = <<h>> \o (t \o holding)
  BY <1>1, <1>3, ConcatAssociative
<1>7. events \o holding \o fromRadio = <<h>> \o (t \o holding \o fromRadio)
  BY <1>1, <1>3, <1>6, ConcatAssociative
<1>8. events \o holding \o fromRadio \o cmd = <<h>> \o (t \o holding \o fromRadio \o cmd)
  BY <1>1, <1>3, <1>4, <1>7, ConcatAssociative
<1>9. Path = <<h>> \o Path' /\ Path' \in Seq(Item)
  BY <1>2, <1>5, <1>8
<1>10. \A p \in Seq(Item) : LET q == <<h>> \o p IN q # <<>> /\ Head(q) = h /\ Tail(q) = p
  BY <1>1
<1>11. Path # <<>> /\ Head(Path) = h /\ Tail(Path) = Path'
  BY <1>9, <1>10
<1> QED BY <1>9, <1>11 DEF h

-----------------------------------------------------------------------------
(* Every step of the client keeps the invariant. *)

LEMMA Connects == ASSUME Inv, ClientConnects PROVE Inv'
<1>1. Report(Event("connected"))
  BY DEF ClientConnects
<1> QED BY <1>1, ConnectionKeeps DEF ClientConnects, trackerVars

LEMMA IsRefused == ASSUME Inv, ClientRefused PROVE Inv'
<1>1. Report(Event("disconnected"))
  BY DEF ClientRefused
<1> QED BY <1>1, ConnectionKeeps DEF ClientRefused, trackerVars, radioVars

LEMMA ReadFails == ASSUME Inv, ClientReadFails PROVE Inv'
<1>1. Report(Event("disconnected"))
  BY DEF ClientReadFails
<1> QED BY <1>1, ConnectionKeeps DEF ClientReadFails, trackerVars, radioVars

LEMMA WriteFails == ASSUME Inv, ClientWriteFails PROVE Inv'
<1>1. Report(Event("disconnected"))
  BY DEF ClientWriteFails
<1>2. ~lostVerdict' => ~IsVerdict(Head(cmd)) /\ \A i \in DOMAIN fromRadio : ~IsVerdict(fromRadio[i])
  BY DEF ClientWriteFails, OwesVerdict, ToSet
<1> QED BY <1>1, <1>2, ConnectionKeeps DEF ClientWriteFails, trackerVars

LEMMA Places == ASSUME Inv, ClientPlaces PROVE Inv'
<1> DEFINE h == Head(holding)
<1>1. /\ events \in Seq(Item) /\ holding \in Seq(Item) /\ Len(holding) <= 1 /\ holding # <<>>
      /\ events' = Append(events, h) /\ holding' = <<>>
      /\ UNCHANGED <<cmd, loop, work, reply, trackerVars, fromRadio, inbox, onAir, unasked, copies,
                     lostVerdict>>
  BY DEF Inv, Types, ClientPlaces, radioVars
<1>2. h \in Item /\ holding = <<h>> /\ h = holding[1] /\ 1 \in DOMAIN holding
  <2>1. holding[1] = h /\ h \in Item /\ 1 \in DOMAIN holding
    BY <1>1, HeadLeaves
  <2>2. Len(holding) = 1
    <3>1. holding \in Seq(Item) /\ Len(holding) <= 1 /\ holding # <<>>
      BY <1>1
    <3>2. Len(holding) \in Nat /\ Len(holding) # 0
      BY <3>1, EmptySeq
    <3>3. \A n \in Nat : n # 0 /\ n <= 1 => n = 1
      OBVIOUS
    <3> QED BY <3>1, <3>2, <3>3, Zenon
  <2>3. holding = <<holding[1]>>
    BY <1>1, <2>2
  <2> QED BY <2>1, <2>3
<1>3. /\ Append(events, h) \in Seq(Item) /\ Append(events, h) = events \o <<h>>
      /\ \A i \in DOMAIN Append(events, h) :
           \/ i \in DOMAIN events /\ Append(events, h)[i] = events[i]
           \/ i = Len(events) + 1 /\ Append(events, h)[i] = h
  BY <1>1, <1>2, EndJoins
<1> HIDE DEF h
<1>4. Types'
  BY <1>1, <1>3 DEF Inv, Types, trackerVars
<1>5. VerdictsMatch'
  <2>1. events' \o holding' = events \o holding
    BY <1>1, <1>2, <1>3
  <2>2. Path' = Path
    BY <1>1, <2>1 DEF Path
  <2> QED BY <1>1, <2>2, Matches DEF Inv, trackerVars
<1>6. Moves({"holding"}, "holding", 1, "events", Len(events) + 1)
  <2>0. DOMAIN events = 1 .. Len(events) /\ Len(events) \in Nat /\ events' = Append(events, h)
    BY <1>1
  <2>1. \A i, r : Waits(events', i, r) =>
          \/ Waits(events, i, r) /\ i # Len(events) + 1
          \/ i = Len(events) + 1 /\ Waits(holding, 1, r)
    <3> SUFFICES ASSUME NEW i, NEW r, Waits(events', i, r)
                 PROVE  \/ Waits(events, i, r) /\ i # Len(events) + 1
                        \/ i = Len(events) + 1 /\ Waits(holding, 1, r)
      OBVIOUS
    <3>1. i \in DOMAIN Append(events, h) /\ events'[i] = Append(events, h)[i]
      BY <2>0 DEF Waits
    <3>2. CASE i \in DOMAIN events /\ events'[i] = events[i]
      BY <2>0, <3>2 DEF Waits
    <3>3. CASE i = Len(events) + 1 /\ events'[i] = h
      BY <1>2, <3>3 DEF Waits
    <3> QED BY <1>3, <3>1, <3>2, <3>3
  <2>2. \A i, r : ~Waits(holding', i, r)
    BY <1>1 DEF Waits
  <2>3. UNCHANGED <<loop, work, reply, awaitingSent, awaitingAck, fromRadio, inbox, unasked>>
    BY <1>1 DEF trackerVars
  <2>4. ASSUME NEW r \in Reply, NEW n \in Nat, NEW c, NEW k, At(c, k, r, n)'
        PROVE  IF c = "events" /\ k = Len(events) + 1 THEN At("holding", 1, r, n)
               ELSE IF c \in {"holding"} THEN At(c, k + 1, r, n)
               ELSE At(c, k, r, n)
    BY <2>1, <2>2, <2>3, <2>4 DEF At
  <2> QED BY <2>4 DEF Moves, Queues
<1>7. Once' /\ Within' /\ CopiesBounded'
  BY <1>1, <1>4, <1>6, Handed DEF Inv
<1> QED BY <1>4, <1>5, <1>7 DEF Inv

LEMMA Reads == ASSUME Inv, ClientReads PROVE Inv'
<1> DEFINE h == Head(fromRadio)
           room == Len(events) < EventDepth
           to == IF room THEN "events" ELSE "holding"
           at == IF room THEN Len(events) + 1 ELSE 1
<1>1. /\ fromRadio \in Seq(Item) /\ fromRadio # <<>> /\ fromRadio' = Tail(fromRadio)
      /\ Report(h) /\ holding = <<>>
      /\ UNCHANGED <<cmd, loop, work, reply, trackerVars, inbox, onAir, unasked, copies, lostVerdict>>
  BY DEF Inv, Types, ClientReads
<1>2. /\ h \in Item /\ h = fromRadio[1] /\ 1 \in DOMAIN fromRadio /\ fromRadio' \in Seq(Item)
      /\ fromRadio = <<h>> \o fromRadio' /\ <<h>> \in Seq(Item)
      /\ \A i \in DOMAIN fromRadio' : i + 1 \in DOMAIN fromRadio /\ fromRadio'[i] = fromRadio[i + 1]
  BY <1>1, HeadLeaves
<1> HIDE DEF h
<1>3. /\ events' \in Seq(Item) /\ holding' \in Seq(Item) /\ Len(holding') <= 1
      /\ events' \o holding' = (events \o holding) \o <<h>>
      /\ \A i, r :
           /\ Waits(events', i, r) =>
                \/ Waits(events, i, r)
                \/ room /\ i = Len(events) + 1 /\ h.kind = "message" /\ h.id = r
           /\ Waits(holding', i, r) => ~room /\ i = 1 /\ h.kind = "message" /\ h.id = r
  BY <1>1, <1>2, ReportEffect DEF Inv
<1>4. Types'
  BY <1>1, <1>2, <1>3 DEF Inv, Types, trackerVars
<1>5. VerdictsMatch'
  <2>1. Path' = Path
    BY <1>1, <1>2, <1>3, <1>4, PathKept DEF Inv
  <2> QED BY <1>1, <2>1, Matches DEF Inv, trackerVars
<1>6. Moves({"fromRadio"}, "fromRadio", 1, to, at)
  <2>1. \A i, r : Waits(fromRadio', i, r) => Waits(fromRadio, i + 1, r)
    BY <1>2 DEF Waits
  <2>2. \A r : h.kind = "message" /\ h.id = r => Waits(fromRadio, 1, r)
    BY <1>2 DEF Waits
  <2>3. \A i, r : Waits(events, i, r) => i # Len(events) + 1
    BY DEF Inv, Types, Waits
  <2>4. \A i, r : ~Waits(holding, i, r)
    BY <1>1 DEF Waits
  <2>5. UNCHANGED <<loop, work, reply, awaitingSent, awaitingAck, inbox, unasked>>
    BY <1>1 DEF trackerVars
  <2> HIDE DEF Waits, room
  <2>6. ASSUME NEW r \in Reply, NEW n \in Nat, NEW c, NEW k, At(c, k, r, n)'
        PROVE  IF c = to /\ k = at THEN At("fromRadio", 1, r, n)
               ELSE IF c \in {"fromRadio"} THEN At(c, k + 1, r, n)
               ELSE At(c, k, r, n)
    <3>1. CASE c = "events"
      BY <1>3, <2>2, <2>3, <2>6, <3>1 DEF At
    <3>2. CASE c = "holding"
      BY <1>3, <2>2, <2>6, <3>2 DEF At
    <3>3. CASE c \notin {"events", "holding"}
      BY <2>1, <2>5, <2>6, <3>3 DEF At
    <3> QED BY <3>1, <3>2, <3>3
  <2> QED BY <2>6 DEF Moves, Queues
<1> HIDE DEF to, at
<1>7. Once' /\ Within' /\ CopiesBounded'
  BY <1>1, <1>4, <1>6, Handed DEF Inv
<1> QED BY <1>4, <1>5, <1>7 DEF Inv

-----------------------------------------------------------------------------
(* Every step of the radio keeps the invariant. *)

LEMMA SendsEffect ==
  ASSUME Types, NEW e \in Item, Sends(e)
  PROVE  /\ fromRadio' \in Seq(Item)
         /\ \A i, r : Waits(fromRadio', i, r) =>
              \/ Waits(fromRadio, i, r) /\ i # Len(fromRadio) + 1
              \/ i = Len(fromRadio) + 1 /\ e.kind = "message" /\ e.id = r
<1>1. /\ fromRadio \in Seq(Item) /\ fromRadio' \in {fromRadio, Append(fromRadio, e)}
      /\ DOMAIN fromRadio = 1 .. Len(fromRadio) /\ Len(fromRadio) \in Nat
  BY DEF Types, Sends
<1>2. Append(fromRadio, e) \in Seq(Item)
  BY <1>1, EndJoins
<1> SUFFICES ASSUME NEW i, NEW r, Waits(fromRadio', i, r)
             PROVE  \/ Waits(fromRadio, i, r) /\ i # Len(fromRadio) + 1
                    \/ i = Len(fromRadio) + 1 /\ e.kind = "message" /\ e.id = r
  BY <1>1, <1>2
<1>3. CASE fromRadio' = fromRadio
  BY <1>1, <1>3 DEF Waits
<1>4. CASE fromRadio' = Append(fromRadio, e)
  <2>1. i \in DOMAIN Append(fromRadio, e) /\ fromRadio'[i] = Append(fromRadio, e)[i]
    BY <1>4 DEF Waits
  <2>2. \/ i \in DOMAIN fromRadio /\ fromRadio'[i] = fromRadio[i]
        \/ i = Len(fromRadio) + 1 /\ fromRadio'[i] = e
    BY <1>1, <2>1, EndJoins
  <2> QED BY <1>1, <2>2 DEF Waits
<1> QED BY <1>1, <1>3, <1>4

(* What is no verdict does not disturb the verdicts. *)
LEMMA SpeaksSilently ==
  ASSUME Types, Types', NEW e \in Item, ~IsVerdict(e), Sends(e), UNCHANGED <<events, holding>>,
         NEW q, InStep(q, (events \o holding \o fromRadio) \o cmd')
  PROVE  InStep(q, Path')
<1> DEFINE S == events \o holding \o fromRadio
<1>1. S \in Seq(Item) /\ cmd' \in Seq(Item) /\ <<e>> \in Seq(Item)
  <2>1. S \in Seq(Item)
    BY Stages
  <2> QED BY <2>1 DEF Types
<1>2. CASE fromRadio' = fromRadio
  BY <1>2 DEF Path
<1>3. CASE fromRadio' = Append(fromRadio, e)
  <2>1. Path' = S \o (<<e>> \o cmd')
    BY <1>3, PathSpoken
  <2>2. InStep(q, S \o cmd') /\ \A i \in DOMAIN <<e>> : ~IsVerdict(<<e>>[i])
    OBVIOUS
  <2> HIDE DEF S
  <2> QED BY <1>1, <2>1, <2>2, Silent
<1> QED BY <1>2, <1>3 DEF Sends

(* The radio takes the text a record is waiting for, and its verdict takes the
   place of the text. *)
LEMMA Transmits == ASSUME Inv, RadioTransmits PROVE Inv'
<1> DEFINE f == Head(cmd)
           S == events \o holding \o fromRadio
<1>1. /\ cmd \in Seq(Item) /\ cmd # <<>> /\ cmd' = Tail(cmd) /\ wire /\ f.kind = "text"
      /\ Kinds(cmd, {"text", "sync"}) /\ fromRadio \in Seq(Item)
      /\ UNCHANGED <<events, holding, loop, work, reply, trackerVars, inbox, unasked, copies,
                     lostVerdict>>
  BY DEF Inv, Types, RadioTransmits, Writes, clientVars
<1>2. /\ f \in Item /\ cmd' \in Seq(Item) /\ cmd = <<f>> \o cmd' /\ Kinds(cmd', {"text", "sync"})
  BY <1>1, HeadLeaves, KindsLeave
<1> HIDE DEF f
<1>3. PICK e \in {SentOk(f), SendFailed(f)} : Sends(e) /\ onAir' \in {onAir, onAir \cup {Crc(f)}}
  BY DEF RadioTransmits, f
<1>4. /\ e \in Item /\ IsVerdict(e) /\ IsVerdict(f) /\ Crc(e) = Crc(f) /\ Crc(f) \in Sending
      /\ e.kind # "message" /\ fromRadio' = Append(fromRadio, e)
  <2>1. fromRadio' = Append(fromRadio, e)
    BY <1>1, <1>3 DEF Sends
  <2> QED BY <1>1, <1>2, <1>3, <2>1, Answers
<1>5. fromRadio' \in Seq(Item) /\ \A i, r : Waits(fromRadio', i, r) => Waits(fromRadio, i, r)
  BY <1>3, <1>4, SendsEffect DEF Inv
<1>6. Types'
  BY <1>1, <1>2, <1>3, <1>4, <1>5 DEF Inv, Types, trackerVars
<1>7. InStep(awaitingSent, Path) => InStep(awaitingSent, Path')
  <2>1. Path = S \o (<<f>> \o cmd')
    BY <1>2 DEF Path
  <2>2. Path' = S \o (<<e>> \o cmd')
    BY <1>1, <1>4, <1>6, PathSpoken DEF Inv
  <2>3. S \in Seq(Item)
    BY Stages DEF Inv
  <2> HIDE DEF S
  <2> QED BY <1>2, <1>4, <2>1, <2>2, <2>3, Replaced
<1>8. VerdictsMatch'
  BY <1>1, <1>7, Matches DEF Inv, trackerVars
<1>9. \A r \in Reply, n \in Nat : \A c, k : At(c, k, r, n)' => At(c, k, r, n)
  BY <1>1, <1>5 DEF At, trackerVars
<1> QED BY <1>1, <1>6, <1>8, <1>9, Fewer DEF Inv

LEMMA Syncs == ASSUME Inv, RadioSyncs PROVE Inv'
<1> DEFINE f == Head(cmd)
           c == Head(inbox)
           S == events \o holding \o fromRadio
<1>1. /\ cmd \in Seq(Item) /\ cmd # <<>> /\ cmd' = Tail(cmd) /\ f.kind = "sync"
      /\ Kinds(cmd, {"text", "sync"}) /\ inbox \in Seq(Command \cup Chatter)
      /\ UNCHANGED <<events, holding, loop, work, reply, trackerVars, unasked, copies, lostVerdict,
                     onAir>>
  BY DEF Inv, Types, RadioSyncs, Writes, clientVars
<1>2. f \in Item /\ cmd' \in Seq(Item) /\ cmd = <<f>> \o cmd' /\ Kinds(cmd', {"text", "sync"})
  BY <1>1, HeadLeaves, KindsLeave
<1>3. InStep(awaitingSent, Path) => InStep(awaitingSent, S \o cmd')
  <2>1. S \in Seq(Item) /\ Path = S \o (<<f>> \o cmd') /\ <<f>> \in Seq(Item)
    <3>1. Path = S \o (<<f>> \o cmd')
      BY <1>2 DEF Path
    <3>2. S \in Seq(Item)
      BY Stages DEF Inv
    <3> QED BY <1>2, <3>1, <3>2
  <2>2. \A i \in DOMAIN <<f>> : ~IsVerdict(<<f>>[i])
    BY <1>1 DEF IsVerdict
  <2> HIDE DEF S, f
  <2> QED BY <1>2, <2>1, <2>2, Silent
<1> HIDE DEF f
<1>4. CASE inbox = <<>>
  <2>1. UNCHANGED <<fromRadio, inbox>>
    BY <1>4 DEF RadioSyncs
  <2>2. Types'
    BY <1>1, <1>2, <2>1 DEF Inv, Types, trackerVars
  <2>3. Path' = S \o cmd'
    BY <1>1, <2>1 DEF Path
  <2>4. VerdictsMatch'
    BY <1>1, <1>3, <2>3, Matches DEF Inv, trackerVars
  <2>5. \A r \in Reply, n \in Nat : \A s, k : At(s, k, r, n)' => At(s, k, r, n)
    BY <1>1, <2>1 DEF At, trackerVars
  <2> QED BY <1>1, <2>2, <2>4, <2>5, Fewer DEF Inv
<1>5. CASE inbox # <<>>
  <2>1. Sends(Message(c)) /\ inbox' = Tail(inbox)
    BY <1>5 DEF RadioSyncs
  <2>2. /\ c \in Command \cup Chatter /\ c = inbox[1] /\ 1 \in DOMAIN inbox
        /\ inbox' \in Seq(Command \cup Chatter)
        /\ \A i \in DOMAIN inbox' : i + 1 \in DOMAIN inbox /\ inbox'[i] = inbox[i + 1]
    BY <1>1, <1>5, <2>1, HeadLeaves
  <2> HIDE DEF c
  <2>3. /\ Message(c) \in Item /\ Message(c).kind = "message" /\ Message(c).id = c
        /\ ~IsVerdict(Message(c))
    BY <2>2, Shapes DEF IsVerdict
  <2>4. /\ fromRadio' \in Seq(Item)
        /\ \A i, r : Waits(fromRadio', i, r) =>
             \/ Waits(fromRadio, i, r) /\ i # Len(fromRadio) + 1
             \/ i = Len(fromRadio) + 1 /\ c = r
    BY <2>1, <2>3, SendsEffect DEF Inv
  <2>5. Types'
    BY <1>1, <1>2, <2>2, <2>4 DEF Inv, Types, trackerVars
  <2>6. InStep(awaitingSent, Path) => InStep(awaitingSent, Path')
    BY <1>1, <1>3, <2>1, <2>3, <2>5, SpeaksSilently DEF Inv
  <2>7. VerdictsMatch'
    BY <1>1, <2>6, Matches DEF Inv, trackerVars
  <2>8. Moves({"inbox"}, "inbox", 1, "fromRadio", Len(fromRadio) + 1)
    <3>1. UNCHANGED <<events, holding, loop, work, reply, awaitingSent, awaitingAck, unasked>>
      BY <1>1 DEF trackerVars
    <3>2. ASSUME NEW r \in Reply, NEW n \in Nat, NEW s, NEW k, At(s, k, r, n)'
          PROVE  IF s = "fromRadio" /\ k = Len(fromRadio) + 1 THEN At("inbox", 1, r, n)
                 ELSE IF s \in {"inbox"} THEN At(s, k + 1, r, n)
                 ELSE At(s, k, r, n)
      BY <2>2, <2>4, <3>1, <3>2 DEF At
    <3> QED BY <3>2 DEF Moves, Queues
  <2>9. Once' /\ Within' /\ CopiesBounded'
    BY <1>1, <2>5, <2>8, Handed DEF Inv
  <2> QED BY <2>5, <2>7, <2>9 DEF Inv
<1> QED BY <1>4, <1>5

LEMMA Arrives == ASSUME Inv, MessageArrives PROVE Inv'
<1>1. PICK c \in Command \cap unasked : unasked' = unasked \ {c} /\ inbox' = Append(inbox, c)
  BY DEF MessageArrives
<1>2. /\ Sends(Event("msgWaiting")) \/ UNCHANGED fromRadio
      /\ inbox \in Seq(Command \cup Chatter) /\ DOMAIN inbox = 1 .. Len(inbox)
      /\ Len(inbox) \in Nat
      /\ UNCHANGED <<cmd, events, holding, loop, work, reply, trackerVars, onAir, copies, lostVerdict>>
  BY DEF Inv, Types, MessageArrives, clientVars
<1>3. /\ inbox' \in Seq(Command \cup Chatter)
      /\ \A i \in DOMAIN inbox' : \/ i \in DOMAIN inbox /\ inbox'[i] = inbox[i]
                                  \/ i = Len(inbox) + 1 /\ inbox'[i] = c
  BY <1>1, <1>2, EndJoins
<1>4. /\ Event("msgWaiting") \in Item /\ ~IsVerdict(Event("msgWaiting"))
      /\ Event("msgWaiting").kind # "message"
  BY Shapes DEF IsVerdict
<1>5. fromRadio' \in Seq(Item) /\ \A i, r : Waits(fromRadio', i, r) => Waits(fromRadio, i, r)
  <2>1. CASE UNCHANGED fromRadio
    BY <2>1 DEF Inv, Types, Waits
  <2>2. CASE Sends(Event("msgWaiting"))
    BY <1>4, <2>2, SendsEffect DEF Inv
  <2> QED BY <1>2, <2>1, <2>2
<1>6. Types'
  BY <1>1, <1>2, <1>3, <1>5 DEF Inv, Types, trackerVars
<1>7. VerdictsMatch'
  <2>1. InStep(awaitingSent, Path) => InStep(awaitingSent, Path')
    <3>1. CASE UNCHANGED fromRadio
      BY <1>2, <3>1 DEF Path
    <3>2. CASE Sends(Event("msgWaiting"))
      <4>1. Path = (events \o holding \o fromRadio) \o cmd'
        BY <1>2 DEF Path
      <4> QED BY <1>2, <1>4, <1>6, <3>2, <4>1, SpeaksSilently DEF Inv
    <3> QED BY <1>2, <3>1, <3>2
  <2> QED BY <1>2, <2>1, Matches DEF Inv, trackerVars
<1>8. Moves({}, "unasked", 1, "inbox", Len(inbox) + 1)
  <2>1. UNCHANGED <<events, holding, loop, work, reply, awaitingSent, awaitingAck>>
    BY <1>2 DEF trackerVars
  <2>2. ASSUME NEW r \in Reply, NEW n \in Nat, NEW s, NEW k, At(s, k, r, n)'
        PROVE  IF s = "inbox" /\ k = Len(inbox) + 1 THEN At("unasked", 1, r, n)
               ELSE At(s, k, r, n)
    <3>1. CASE s = "inbox"
      <4>1. k \in DOMAIN inbox' /\ inbox'[k] = r /\ n = 0
        BY <2>2, <3>1 DEF At
      <4>2. CASE k \in DOMAIN inbox /\ inbox'[k] = inbox[k]
        <5>1. k # Len(inbox) + 1
          BY <1>2, <4>2
        <5> QED BY <3>1, <4>1, <4>2, <5>1 DEF At
      <4>3. CASE k = Len(inbox) + 1 /\ inbox'[k] = c
        BY <1>1, <3>1, <4>1, <4>3 DEF At
      <4> QED BY <1>3, <4>1, <4>2, <4>3
    <3>2. CASE s # "inbox"
      BY <1>1, <1>5, <2>1, <2>2, <3>2 DEF At
    <3> QED BY <3>1, <3>2
  <2>3. \A r \in Reply, n, m \in Nat : At("inbox", Len(inbox) + 1, r, m)' => ~At("unasked", 1, r, n)'
    <3> SUFFICES ASSUME NEW r \in Reply, NEW n \in Nat, NEW m \in Nat,
                        At("inbox", Len(inbox) + 1, r, m)', At("unasked", 1, r, n)'
                 PROVE  FALSE
      OBVIOUS
    <3>1. inbox'[Len(inbox) + 1] = r /\ Len(inbox) + 1 \in DOMAIN inbox' /\ r \in unasked'
      BY DEF At
    <3>2. Len(inbox) + 1 \notin DOMAIN inbox
      BY <1>2
    <3> QED BY <1>1, <1>3, <3>1, <3>2
  <2> QED BY <2>2, <2>3 DEF Moves, Queues
<1>9. Once' /\ Within' /\ CopiesBounded'
  BY <1>2, <1>6, <1>8, Handed DEF Inv
<1> QED BY <1>6, <1>7, <1>9 DEF Inv

LEMMA Confirms == ASSUME Inv, DestinationConfirms PROVE Inv'
<1>1. PICK crc \in onAir : /\ onAir' = onAir \ {crc}
                           /\ Sends([kind |-> "confirmed", id |-> crc[1], attempt |-> crc[2]])
  BY DEF DestinationConfirms
<1> DEFINE e == [kind |-> "confirmed", id |-> crc[1], attempt |-> crc[2]]
<1>2. UNCHANGED <<cmd, events, holding, loop, work, reply, trackerVars, inbox, unasked, copies,
                  lostVerdict>>
  BY DEF DestinationConfirms, clientVars
<1>3. Sends(e) /\ e \in Item /\ ~IsVerdict(e) /\ e.kind # "message"
  <2>1. crc \in Sending
    BY DEF Inv, Types
  <2> QED BY <1>1, <2>1, Confirmations
<1> HIDE DEF e
<1>4. fromRadio' \in Seq(Item) /\ \A i, r : Waits(fromRadio', i, r) => Waits(fromRadio, i, r)
  BY <1>3, SendsEffect DEF Inv
<1>5. Types'
  BY <1>1, <1>2, <1>4 DEF Inv, Types, trackerVars
<1>6. InStep(awaitingSent, Path) => InStep(awaitingSent, Path')
  <2>1. Path = (events \o holding \o fromRadio) \o cmd'
    BY <1>2 DEF Path
  <2> QED BY <1>2, <1>3, <1>5, <2>1, SpeaksSilently DEF Inv
<1>7. VerdictsMatch'
  BY <1>2, <1>6, Matches DEF Inv, trackerVars
<1>8. \A r \in Reply, n \in Nat : \A c, k : At(c, k, r, n)' => At(c, k, r, n)
  BY <1>2, <1>4 DEF At, trackerVars
<1> QED BY <1>2, <1>5, <1>7, <1>8, Fewer DEF Inv

(* What the client has not read may be gone, and with it verdicts: from then
   on nothing is said of them. *)
LEMMA Breaks == ASSUME Inv, LinkBreaks PROVE Inv'
<1>1. /\ fromRadio' \in {<<>>, fromRadio}
      /\ ~lostVerdict' => /\ ~lostVerdict
                          /\ fromRadio' = <<>> => \A i \in DOMAIN fromRadio : ~IsVerdict(fromRadio[i])
      /\ UNCHANGED <<cmd, events, holding, loop, work, reply, trackerVars, inbox, onAir, unasked,
                     copies>>
  BY DEF LinkBreaks, clientVars, OwesVerdict, ToSet
<1>2. Types'
  <2>1. fromRadio' \in Seq(Item)
    <3>1. fromRadio' = <<>> \/ fromRadio' = fromRadio
      BY <1>1
    <3>2. <<>> \in Seq(Item) /\ fromRadio \in Seq(Item)
      BY DEF Inv, Types
    <3> QED BY <3>1, <3>2
  <2> QED BY <1>1, <2>1 DEF Inv, Types, trackerVars
<1>3. ~lostVerdict' /\ InStep(awaitingSent, Path) => InStep(awaitingSent, Path')
  <2> SUFFICES ASSUME ~lostVerdict', InStep(awaitingSent, Path) PROVE InStep(awaitingSent, Path')
    OBVIOUS
  <2>1. CASE fromRadio' = fromRadio
    BY <1>1, <2>1 DEF Path
  <2>2. CASE fromRadio' = <<>>
    <3> DEFINE E == events \o holding
    <3>1. /\ E \in Seq(Item) /\ fromRadio \in Seq(Item) /\ cmd \in Seq(Item)
          /\ Path = E \o (fromRadio \o cmd)
      BY Stages DEF Inv, Types
    <3>2. Path' = E \o <<>> \o cmd
      BY <1>1, <2>2 DEF Path
    <3> HIDE DEF E
    <3>3. Path' = E \o cmd
      BY <3>1, <3>2, ConcatEmptySeq
    <3> QED BY <1>1, <2>2, <3>1, <3>3, Silent
  <2> QED BY <1>1, <2>1, <2>2
<1>4. VerdictsMatch'
  BY <1>1, <1>3, Matches DEF Inv, trackerVars
<1>5. \A r \in Reply, n \in Nat : \A c, k : At(c, k, r, n)' => At(c, k, r, n)
  BY <1>1 DEF At, Waits, trackerVars
<1> QED BY <1>1, <1>2, <1>4, <1>5, Fewer DEF Inv

(* What the invariant does not speak of may change. *)
LEMMA Unseen ==
  ASSUME Inv, UNCHANGED <<cmd, events, holding, loop, work, reply, trackerVars, fromRadio, inbox,
                          onAir, unasked, copies, lostVerdict>>
  PROVE  Inv'
<1>1. Types'
  BY DEF Inv, Types, trackerVars
<1>2. VerdictsMatch'
  <2>1. Path' = Path
    BY DEF Path
  <2> QED BY <2>1, Matches DEF Inv, trackerVars
<1>3. \A r \in Reply, n \in Nat : \A c, k : At(c, k, r, n)' => At(c, k, r, n)
  BY DEF At, trackerVars
<1> QED BY <1>1, <1>2, <1>3, Fewer DEF Inv

LEMMA Returns == ASSUME Inv, RadioReturns PROVE Inv'
BY Unseen DEF RadioReturns, clientVars

-----------------------------------------------------------------------------
(* Every step of the event loop keeps the invariant. *)

(* An event that is no verdict: what it was about is now what the loop has to
   send first, or is nothing any more. *)
LEMMA TakesEvent ==
  ASSUME Inv, events # <<>>, events' = Tail(events), ~IsVerdict(Head(events)),
         loop' \in Seq(Item), Kinds(loop', {"text", "sync", "work"}),
         \A r \in Reply, n \in Nat : \A i : At("loop", i, r, n)' => i = 1 /\ At("events", 1, r, n),
         awaitingSent' = awaitingSent, DOMAIN awaitingAck' \subseteq DOMAIN awaitingAck,
         \A c \in DOMAIN awaitingAck' : awaitingAck'[c] = awaitingAck[c],
         UNCHANGED <<cmd, holding, work, reply, fromRadio, inbox, onAir, unasked, copies, lostVerdict>>
  PROVE  Inv'
<1>1. /\ events' \in Seq(Item) /\ Head(events) \in Item
      /\ \A i \in DOMAIN events' : i + 1 \in DOMAIN events /\ events'[i] = events[i + 1]
  BY HeadLeaves DEF Inv, Types
<1>2. IsFiniteSet(DOMAIN awaitingAck')
  BY FS_Subset DEF Inv, Types
<1>3. Types'
  BY <1>1, <1>2 DEF Inv, Types
<1>4. InStep(awaitingSent, Path) => InStep(awaitingSent, Path')
  <2>1. Path = <<Head(events)>> \o Path' /\ Path' \in Seq(Item)
    BY <1>3, PathTaken DEF Inv
  <2> DEFINE h == Head(events)
  <2>2. <<h>> \in Seq(Item) /\ \A i \in DOMAIN <<h>> : ~IsVerdict(<<h>>[i])
    BY <1>1
  <2> HIDE DEF h
  <2>3. <<>> \in Seq(Item) /\ <<>> \o Path' = Path' /\ <<>> \o (<<h>> \o Path') = <<h>> \o Path'
    <3>1. <<h>> \o Path' \in Seq(Item)
      BY <2>1, <2>2, Joins
    <3> QED BY <2>1, <3>1, ConcatEmptySeq
  <2>4. InStep(awaitingSent, <<>> \o (<<h>> \o Path')) => InStep(awaitingSent, <<>> \o Path')
    BY <2>1, <2>2, <2>3, Silent
  <2> QED BY <2>1, <2>3, <2>4 DEF h
<1>5. VerdictsMatch'
  BY <1>4, Matches DEF Inv
<1>6. Moves({"events"}, "events", 1, "loop", 1)
  <2>1. ASSUME NEW r \in Reply, NEW n \in Nat, NEW s, NEW k, At(s, k, r, n)'
        PROVE  IF s = "loop" /\ k = 1 THEN At("events", 1, r, n)
               ELSE IF s \in {"events"} THEN At(s, k + 1, r, n)
               ELSE At(s, k, r, n)
    <3>1. CASE s = "loop"
      BY <2>1, <3>1
    <3>2. CASE s = "events"
      BY <1>1, <2>1, <3>2 DEF At, Waits
    <3>3. CASE s \notin {"loop", "events"}
      BY <2>1, <3>3 DEF At, Waits
    <3> QED BY <3>1, <3>2, <3>3
  <2> QED BY <2>1 DEF Moves, Queues
<1>7. Once' /\ Within' /\ CopiesBounded'
  BY <1>3, <1>6, Handed DEF Inv
<1> QED BY <1>3, <1>5, <1>7 DEF Inv

(* What makes the loop ask the radio for its next message. *)
LEMMA AsksNext ==
  ASSUME Inv, events # <<>>, events' = Tail(events), ~IsVerdict(Head(events)),
         loop' = <<Frame("sync")>>,
         UNCHANGED <<cmd, clientVars, work, reply, trackerVars, radioVars, unasked, outcome, copies,
                     lostVerdict, outages>>
  PROVE  Inv'
<1>1. /\ loop' \in Seq(Item) /\ Kinds(loop', {"text", "sync", "work"})
      /\ \A r \in Reply, n \in Nat : \A i : ~At("loop", i, r, n)'
  <2>1. Frame("sync") \in Item /\ Frame("sync").kind = "sync"
    BY Shapes
  <2> QED BY <2>1 DEF Kinds, At
<1> QED BY <1>1, TakesEvent DEF clientVars, radioVars, trackerVars

LEMMA ConnectedTaken == ASSUME Inv, OnConnected PROVE Inv'
<1>1. ~IsVerdict(Event("connected"))
  BY DEF Event, IsVerdict
<1> QED BY <1>1, AsksNext DEF OnConnected, LoopTakes

LEMMA MsgWaitingTaken == ASSUME Inv, OnMsgWaiting PROVE Inv'
<1>1. ~IsVerdict(Event("msgWaiting"))
  BY DEF Event, IsVerdict
<1> QED BY <1>1, AsksNext DEF OnMsgWaiting, LoopTakes

LEMMA ChannelMsgTaken == ASSUME Inv, OnChannelMsg PROVE Inv'
<1>1. PICK g \in Chatter : LoopTakes(Message(g))
  BY DEF OnChannelMsg
<1>2. ~IsVerdict(Message(g))
  BY DEF Message, IsVerdict
<1> QED BY <1>1, <1>2, AsksNext DEF OnChannelMsg, LoopTakes

LEMMA DisconnectedTaken == ASSUME Inv, OnDisconnected PROVE Inv'
<1>1. ~IsVerdict(Event("disconnected"))
  BY DEF Event, IsVerdict
<1>2. loop = <<>> /\ loop' = loop /\ loop \in Seq(Item) /\ Kinds(loop, {"text", "sync", "work"})
  BY DEF OnDisconnected, LoopTakes, Inv, Types
<1>3. \A r \in Reply, n \in Nat : \A i : ~At("loop", i, r, n)'
  BY <1>2 DEF At
<1> QED BY <1>1, <1>2, <1>3, TakesEvent
        DEF OnDisconnected, LoopTakes, clientVars, radioVars, trackerVars

LEMMA MessageTaken == ASSUME Inv, OnMessage PROVE Inv'
<1>1. PICK c \in Command : LoopTakes(Message(c)) /\ loop' = <<HandOver(c), Frame("sync")>>
  BY DEF OnMessage
<1>2. /\ ~IsVerdict(Message(c)) /\ Message(c).kind = "message" /\ Message(c).id = c
      /\ HandOver(c) \in Item /\ HandOver(c).kind = "work" /\ HandOver(c).id = c
      /\ Frame("sync") \in Item /\ Frame("sync").kind = "sync"
  BY Shapes DEF IsVerdict
<1>3. events # <<>> /\ events' = Tail(events) /\ Head(events) = Message(c)
  BY <1>1 DEF LoopTakes
<1>4. 1 \in DOMAIN events /\ events[1] = Message(c)
  BY <1>3, HeadLeaves DEF Inv, Types
<1>5. loop' \in Seq(Item) /\ Kinds(loop', {"text", "sync", "work"})
  BY <1>1, <1>2 DEF Kinds
<1>6. \A r \in Reply, n \in Nat : \A i : At("loop", i, r, n)' => i = 1 /\ At("events", 1, r, n)
  <2> SUFFICES ASSUME NEW r \in Reply, NEW n \in Nat, NEW i, At("loop", i, r, n)'
               PROVE  i = 1 /\ At("events", 1, r, n)
    OBVIOUS
  <2>1. /\ i \in DOMAIN loop' /\ loop'[i].id = r
        /\ \/ loop'[i].kind = "work" /\ n = 0
           \/ loop'[i].kind = "text"
    BY DEF At
  <2>2. i = 1 \/ i = 2
    BY <1>1, <2>1
  <2>3. loop'[1] = HandOver(c) /\ loop'[2] = Frame("sync")
    BY <1>1
  <2>4. i = 1 /\ r = c /\ n = 0
    BY <1>2, <2>1, <2>2, <2>3
  <2> QED BY <1>2, <1>4, <2>4 DEF At, Waits
<1> QED BY <1>2, <1>3, <1>5, <1>6, TakesEvent DEF OnMessage, clientVars, radioVars, trackerVars

LEMMA ConfirmedTaken == ASSUME Inv, OnConfirmed PROVE Inv'
<1>1. /\ loop = <<>> /\ loop' = loop /\ events # <<>> /\ events' = Tail(events)
      /\ ~IsVerdict(Head(events)) /\ loop \in Seq(Item) /\ Kinds(loop, {"text", "sync", "work"})
  BY DEF OnConfirmed, IsVerdict, Inv, Types
<1>2. /\ DOMAIN awaitingAck' \subseteq DOMAIN awaitingAck
      /\ \A c \in DOMAIN awaitingAck' : awaitingAck'[c] = awaitingAck[c]
  BY DEF OnConfirmed, Forget
<1>3. \A r \in Reply, n \in Nat : \A i : ~At("loop", i, r, n)'
  BY <1>1 DEF At
<1> QED BY <1>1, <1>2, <1>3, TakesEvent DEF OnConfirmed, clientVars, radioVars

(* The radio's verdict: the oldest send moves to the table of the sends that
   wait for a confirmation, or is over. *)
LEMMA SentTaken == ASSUME Inv, OnSent PROVE Inv'
<1> DEFINE v == Head(events)
           rec == Head(awaitingSent)
           crc == Crc(v)
           failed == v.kind = "sendFailed"
<1>1. /\ events \in Seq(Item) /\ events # <<>> /\ events' = Tail(events) /\ IsVerdict(v)
      /\ awaitingSent \in Seq(Sending) /\ IsFiniteSet(DOMAIN awaitingAck)
      /\ UNCHANGED <<cmd, holding, loop, work, reply, fromRadio, inbox, onAir, unasked, copies,
                     lostVerdict>>
  BY DEF Inv, Types, OnSent, clientVars, radioVars, IsVerdict
<1>2. /\ events' \in Seq(Item)
      /\ \A i \in DOMAIN events' : i + 1 \in DOMAIN events /\ events'[i] = events[i + 1]
  BY <1>1, HeadLeaves
<1>3. CASE awaitingSent = <<>>
  <2>1. UNCHANGED <<awaitingSent, awaitingAck>>
    BY <1>3 DEF OnSent, trackerVars
  <2>2. Types'
    BY <1>1, <1>2, <2>1 DEF Inv, Types
  <2>3. lostVerdict
    <3>1. Path # <<>> /\ Head(Path) = v /\ Path \in Seq(Item)
      BY <1>1, <2>2, PathTaken, Stages DEF Inv
    <3>2. ~InStep(awaitingSent, Path)
      BY <1>1, <1>3, <3>1, Answered
    <3> QED BY <3>2 DEF Inv, VerdictsMatch, Path
  <2>4. VerdictsMatch'
    BY <1>1, <2>3 DEF VerdictsMatch
  <2>5. Moves({"events"}, "events", 1, "nowhere", 0)
    <3>1. ASSUME NEW r \in Reply, NEW n \in Nat, NEW s, NEW k, At(s, k, r, n)'
          PROVE  IF s = "nowhere" /\ k = 0 THEN At("events", 1, r, n)
                 ELSE IF s \in {"events"} THEN At(s, k + 1, r, n)
                 ELSE At(s, k, r, n)
      BY <1>1, <1>2, <2>1, <3>1 DEF At, Waits
    <3> QED BY <3>1 DEF Moves, Queues
  <2>6. Once' /\ Within' /\ CopiesBounded'
    BY <1>1, <2>2, <2>5, Handed DEF Inv
  <2> QED BY <2>2, <2>4, <2>6 DEF Inv
<1>4. CASE awaitingSent # <<>>
  <2>1. Correlate(v)
    BY <1>4 DEF OnSent
  <2>2. /\ awaitingSent' = Tail(awaitingSent)
        /\ IF failed THEN awaitingAck' = awaitingAck
           ELSE awaitingAck' = [c \in DOMAIN awaitingAck \cup {crc} |->
                                  IF c = crc THEN rec ELSE awaitingAck[c]]
    BY <2>1 DEF Correlate
  <2>3. /\ rec \in Sending /\ rec = awaitingSent[1] /\ 1 \in DOMAIN awaitingSent
        /\ awaitingSent' \in Seq(Sending)
        /\ \A i \in DOMAIN awaitingSent' :
             i + 1 \in DOMAIN awaitingSent /\ awaitingSent'[i] = awaitingSent[i + 1]
    BY <1>1, <1>4, <2>2, HeadLeaves
  <2> HIDE DEF rec, crc, failed
  <2>4. /\ IsFiniteSet(DOMAIN awaitingAck')
        /\ \A c \in DOMAIN awaitingAck' :
             \/ c \in DOMAIN awaitingAck /\ awaitingAck'[c] = awaitingAck[c]
             \/ ~failed /\ c = crc /\ awaitingAck'[c] = rec
    <3>1. IsFiniteSet(DOMAIN awaitingAck \cup {crc})
      BY <1>1, FS_AddElement
    <3> QED BY <1>1, <2>2, <3>1
  <2>5. Types'
    BY <1>1, <1>2, <2>3, <2>4 DEF Inv, Types
  <2>6. VerdictsMatch'
    <3> SUFFICES ASSUME ~lostVerdict' PROVE VerdictsMatch'
      BY DEF VerdictsMatch
    <3>1. InStep(awaitingSent, Path) /\ \A c \in DOMAIN awaitingAck : awaitingAck[c] = c
      BY <1>1 DEF Inv, VerdictsMatch, Path
    <3>2. Path # <<>> /\ Head(Path) = v /\ Tail(Path) = Path' /\ Path \in Seq(Item)
      BY <1>1, <2>5, PathTaken, Stages DEF Inv
    <3>3. rec = crc /\ InStep(awaitingSent', Path')
      BY <1>1, <2>2, <3>1, <3>2, Answered DEF rec, crc
    <3>4. \A c \in DOMAIN awaitingAck' : awaitingAck'[c] = c
      BY <2>4, <3>1, <3>3
    <3> QED BY <3>3, <3>4 DEF VerdictsMatch, Path
  <2>7. Moves({"events", "awaitingSent"}, "awaitingSent", 1,
              IF failed THEN "nowhere" ELSE "awaitingAck", crc)
    <3>1. ASSUME NEW r \in Reply, NEW n \in Nat, NEW s, NEW k, At(s, k, r, n)'
          PROVE  IF s = (IF failed THEN "nowhere" ELSE "awaitingAck") /\ k = crc
                 THEN At("awaitingSent", 1, r, n)
                 ELSE IF s \in {"events", "awaitingSent"} THEN At(s, k + 1, r, n)
                 ELSE At(s, k, r, n)
      <4>1. CASE s = "awaitingAck"
        <5>1. k \in DOMAIN awaitingAck' /\ awaitingAck'[k] = <<r, n>>
          BY <3>1, <4>1 DEF At
        <5>2. CASE ~failed /\ k = crc /\ awaitingAck'[k] = rec
          BY <2>3, <4>1, <5>1, <5>2 DEF At
        <5>3. CASE ~(~failed /\ k = crc /\ awaitingAck'[k] = rec)
          <6>1. k \in DOMAIN awaitingAck /\ awaitingAck[k] = <<r, n>>
            BY <2>4, <5>1, <5>3
          <6>2. ~(s = (IF failed THEN "nowhere" ELSE "awaitingAck") /\ k = crc)
            BY <2>2, <4>1, <5>3, <5>1
          <6> QED BY <4>1, <6>1, <6>2 DEF At
        <5> QED BY <5>2, <5>3
      <4>2. CASE s = "awaitingSent"
        BY <2>3, <3>1, <4>2 DEF At
      <4>3. CASE s = "events"
        BY <1>2, <3>1, <4>3 DEF At, Waits
      <4>4. CASE s \notin {"awaitingAck", "awaitingSent", "events"}
        BY <1>1, <3>1, <4>4 DEF At, Waits
      <4> QED BY <4>1, <4>2, <4>3, <4>4
    <3> QED BY <3>1 DEF Moves, Queues
  <2>8. Once' /\ Within' /\ CopiesBounded'
    BY <1>1, <2>5, <2>7, Handed DEF Inv
  <2> QED BY <2>5, <2>6, <2>8 DEF Inv
<1> QED BY <1>3, <1>4

(* A text takes its slot and is recorded: one more copy, and one fewer can come
   of the record. *)
LEMMA PlacesText ==
  ASSUME Inv, NEW s \in {"loop", "reply"}, NEW f \in Item, f.kind = "text", Place(f),
         At(s, 1, f.id, f.attempt - 1),
         \A r \in Reply, n \in Nat : \A c \in {"loop", "reply"} : \A k :
           At(c, k, r, n)' => IF c = s THEN At(c, k + 1, r, n) ELSE At(c, k, r, n),
         loop' \in Seq(Item), Kinds(loop', {"text", "sync", "work"}),
         reply' \in Seq(Item), Kinds(reply', {"text"}),
         UNCHANGED <<events, holding, work, awaitingAck, fromRadio, inbox, onAir, unasked,
                     lostVerdict>>
  PROVE  Inv'
<1> DEFINE N == Len(awaitingSent) + 1
<1>1. /\ cmd' = Append(cmd, f) /\ awaitingSent' = Append(awaitingSent, Crc(f))
      /\ copies' = [copies EXCEPT ![f.id] = @ + 1]
  BY DEF Place, Record
<1>2. /\ f.id \in Reply /\ f.attempt \in Attempt /\ f.attempt - 1 \in Nat /\ f.attempt \in Nat
      /\ Crc(f) = <<f.id, f.attempt>> /\ Crc(f) \in Sending /\ IsVerdict(f)
  BY AttemptsAssumption DEF Item, Attempt, Crc, Sending, IsVerdict
<1>3. /\ awaitingSent' \in Seq(Sending)
      /\ \A i \in DOMAIN awaitingSent' :
           \/ i \in DOMAIN awaitingSent /\ awaitingSent'[i] = awaitingSent[i] /\ i # N
           \/ i = N /\ awaitingSent'[i] = <<f.id, f.attempt>>
  <2>1. awaitingSent \in Seq(Sending)
    BY DEF Inv, Types
  <2>2. \A i \in DOMAIN awaitingSent : i # N
    BY <2>1
  <2> HIDE DEF N
  <2>3. /\ Append(awaitingSent, Crc(f)) \in Seq(Sending)
        /\ \A i \in DOMAIN Append(awaitingSent, Crc(f)) :
             \/ i \in DOMAIN awaitingSent /\ Append(awaitingSent, Crc(f))[i] = awaitingSent[i]
             \/ i = N /\ Append(awaitingSent, Crc(f))[i] = Crc(f)
    BY <1>2, <2>1, EndJoins DEF N
  <2> QED BY <1>1, <1>2, <2>2, <2>3
<1> HIDE DEF N
<1>4. /\ copies \in [Reply -> Nat] /\ copies' \in [Reply -> Nat]
      /\ copies'[f.id] = copies[f.id] + 1 /\ \A r \in Reply \ {f.id} : copies'[r] = copies[r]
      /\ copies[f.id] <= f.attempt - 1
  <2>1. copies \in [Reply -> Nat]
    BY DEF Inv, Types
  <2>2. copies[f.id] <= f.attempt - 1
    BY <1>2 DEF Inv, Within
  <2> QED BY <1>1, <1>2, <2>1, <2>2
<1>5. cmd' \in Seq(Item) /\ Kinds(cmd', {"text", "sync"})
  BY <1>1, EndJoins, KindsJoin DEF Inv, Types
<1>6. Types'
  BY <1>3, <1>4, <1>5 DEF Inv, Types
<1>7. VerdictsMatch'
  <2> SUFFICES ASSUME ~lostVerdict' PROVE VerdictsMatch'
    BY DEF VerdictsMatch
  <2>1. InStep(awaitingSent, Path) /\ \A c \in DOMAIN awaitingAck : awaitingAck[c] = c
    BY DEF Inv, VerdictsMatch, Path
  <2>2. Path' = Append(Path, f) /\ Path \in Seq(Item) /\ awaitingSent \in Seq(Sending)
    <3>1. Path' = Append(Path, f)
      BY <1>1, PathExtended DEF Inv
    <3>2. Path \in Seq(Item) /\ awaitingSent \in Seq(Sending)
      BY Stages DEF Inv, Types
    <3> QED BY <3>1, <3>2
  <2>3. InStep(awaitingSent', Path')
    BY <1>1, <1>2, <2>1, <2>2, Recorded
  <2> QED BY <2>1, <2>3 DEF VerdictsMatch, Path
<1>8. ASSUME NEW r \in Reply, NEW n \in Nat, NEW c, NEW k, At(c, k, r, n)'
      PROVE  IF c = "awaitingSent" /\ k = N THEN r = f.id /\ n = f.attempt
             ELSE IF c \in {s} THEN At(c, k + 1, r, n)
             ELSE At(c, k, r, n)
  <2>1. CASE c \in {"loop", "reply"}
    BY <1>8, <2>1
  <2>2. CASE c = "awaitingSent"
    <3>1. k \in DOMAIN awaitingSent' /\ awaitingSent'[k] = <<r, n>>
      BY <1>8, <2>2 DEF At
    <3>2. CASE k = N
      BY <1>3, <2>2, <3>1, <3>2
    <3>3. CASE k # N
      BY <1>3, <2>2, <3>1, <3>3 DEF At
    <3> QED BY <3>2, <3>3
  <2>3. CASE c \notin {"loop", "reply", "awaitingSent"}
    BY <1>8, <2>3 DEF At, Waits
  <2> QED BY <2>1, <2>2, <2>3
<1>9. Follows({s}, s, 1, "awaitingSent", N)
  <2>1. ASSUME NEW r \in Reply, NEW n \in Nat, NEW c, NEW k, At(c, k, r, n)'
        PROVE  IF c = "awaitingSent" /\ k = N THEN \E u \in Nat : At(s, 1, r, u)
               ELSE IF c \in {s} THEN At(c, k + 1, r, n)
               ELSE At(c, k, r, n)
    BY <1>2, <1>8, <2>1
  <2> QED BY <2>1 DEF Follows, Queues
<1>10. Once'
  BY <1>6, <1>9, StillOnce DEF Inv
<1>11. Within'
  <2> SUFFICES ASSUME NEW r \in Reply, NEW c, NEW k, NEW n \in Nat, At(c, k, r, n)'
               PROVE  copies'[r] <= n
    BY DEF Within
  <2>1. CASE c = "awaitingSent" /\ k = N
    <3>1. r = f.id /\ n = f.attempt
      BY <1>8, <2>1
    <3> QED BY <1>2, <1>4, <3>1
  <2>2. CASE ~(c = "awaitingSent" /\ k = N)
    <3>1. PICK l : At(c, l, r, n) /\ (c = s => l = k + 1)
      BY <1>8, <2>2
    <3>2. copies[r] <= n
      BY <3>1 DEF Inv, Within
    <3>3. CASE r # f.id
      BY <1>4, <3>2, <3>3
    <3>4. CASE r = f.id
      <4>1. c = s /\ l = 1
        BY <1>2, <3>1, <3>4 DEF Inv, Once
      <4>2. k \in Nat \ {0}
        <5>1. k \in DOMAIN loop' \/ k \in DOMAIN reply'
          BY <4>1 DEF At
        <5> QED BY <5>1
      <4> QED BY <3>1, <4>1, <4>2
    <3> QED BY <3>3, <3>4
  <2> QED BY <2>1, <2>2
<1>12. CopiesBounded'
  <2> SUFFICES ASSUME NEW r \in Reply PROVE copies'[r] <= MaxAttempts
    BY DEF CopiesBounded
  <2>1. CASE r = f.id
    <3>1. f.attempt <= MaxAttempts /\ MaxAttempts \in Nat
      BY <1>2, AttemptsAssumption DEF Attempt
    <3> QED BY <1>2, <1>4, <2>1, <3>1
  <2>2. CASE r # f.id
    BY <1>4, <2>2 DEF Inv, CopiesBounded
  <2> QED BY <2>1, <2>2
<1> QED BY <1>6, <1>7, <1>10, <1>11, <1>12 DEF Inv

(* Frames that are no texts are not recorded. *)
LEMMA PlacesOther ==
  ASSUME Inv, NEW f \in Item, f.kind = "sync", Place(f),
         loop # <<>>, f = Head(loop), loop' = Tail(loop),
         UNCHANGED <<events, holding, work, reply, awaitingAck, fromRadio, inbox, onAir, unasked,
                     lostVerdict>>
  PROVE  Inv'
<1>1. cmd' = Append(cmd, f) /\ UNCHANGED <<awaitingSent, copies>>
  BY DEF Place
<1>2. /\ loop' \in Seq(Item) /\ Kinds(loop', {"text", "sync", "work"})
      /\ \A i \in DOMAIN loop' : i + 1 \in DOMAIN loop /\ loop'[i] = loop[i + 1]
  BY HeadLeaves, KindsLeave DEF Inv, Types
<1>3. cmd' \in Seq(Item) /\ Kinds(cmd', {"text", "sync"})
  BY <1>1, EndJoins, KindsJoin DEF Inv, Types
<1>4. Types'
  BY <1>1, <1>2, <1>3 DEF Inv, Types
<1>5. InStep(awaitingSent, Path) => InStep(awaitingSent, Path')
  <2>1. Path' = Append(Path, f) /\ Path \in Seq(Item)
    <3>1. Path' = Append(Path, f)
      BY <1>1, PathExtended DEF Inv
    <3>2. Path \in Seq(Item)
      BY Stages DEF Inv
    <3> QED BY <3>1, <3>2
  <2> HIDE DEF Path
  <2>2. <<f>> \in Seq(Item) /\ <<>> \in Seq(Item) /\ \A i \in DOMAIN <<f>> : ~IsVerdict(<<f>>[i])
    BY DEF IsVerdict
  <2>3. Path \o <<>> = Path /\ Path \o (<<f>> \o <<>>) = Append(Path, f)
    <3>1. Path \o <<>> = Path /\ <<f>> \o <<>> = <<f>>
      BY <2>1, <2>2, ConcatEmptySeq
    <3>2. Path \o <<f>> = Append(Path, f)
      BY <2>1, EndJoins
    <3> QED BY <3>1, <3>2
  <2>4. InStep(awaitingSent, Path \o <<>>) => InStep(awaitingSent, Path \o (<<f>> \o <<>>))
    BY <2>1, <2>2, Silent
  <2> QED BY <2>1, <2>3, <2>4
<1>6. VerdictsMatch'
  BY <1>1, <1>5, Matches DEF Inv
<1>7. Moves({"loop"}, "loop", 1, "nowhere", 0)
  <2>1. ASSUME NEW r \in Reply, NEW n \in Nat, NEW c, NEW k, At(c, k, r, n)'
        PROVE  IF c = "nowhere" /\ k = 0 THEN At("loop", 1, r, n)
               ELSE IF c \in {"loop"} THEN At(c, k + 1, r, n)
               ELSE At(c, k, r, n)
    BY <1>1, <1>2, <2>1 DEF At, Waits
  <2> QED BY <2>1 DEF Moves, Queues
<1>8. Once' /\ Within' /\ CopiesBounded'
  BY <1>1, <1>4, <1>7, Handed DEF Inv
<1> QED BY <1>4, <1>6, <1>8 DEF Inv

LEMMA LoopPlaces == ASSUME Inv, LoopSends PROVE Inv'
<1> DEFINE f == Head(loop)
<1>1. /\ loop \in Seq(Item) /\ loop # <<>> /\ loop' = Tail(loop) /\ Place(f)
      /\ Kinds(loop, {"text", "sync", "work"}) /\ f.kind # "work"
      /\ UNCHANGED <<events, holding, work, reply, awaitingAck, fromRadio, inbox, onAir, unasked,
                     lostVerdict>>
  BY DEF Inv, Types, LoopSends, clientVars, radioVars
<1>2. /\ f \in Item /\ f = loop[1] /\ 1 \in DOMAIN loop /\ f.kind \in {"text", "sync"}
      /\ loop' \in Seq(Item) /\ Kinds(loop', {"text", "sync", "work"})
      /\ \A i \in DOMAIN loop' : i + 1 \in DOMAIN loop /\ loop'[i] = loop[i + 1]
  BY <1>1, HeadLeaves, KindsLeave
<1>3. CASE f.kind = "sync"
  BY <1>1, <1>2, <1>3, PlacesOther
<1>4. CASE f.kind = "text"
  <2> HIDE DEF f
  <2>1. f.attempt \in Attempt
    BY <1>2, <1>4 DEF Item
  <2>2. f.attempt = (f.attempt - 1) + 1
    BY <2>1, AttemptsAssumption DEF Attempt
  <2>3. At("loop", 1, f.id, f.attempt - 1)
    BY <1>2, <1>4, <2>2 DEF At
  <2>4. reply' \in Seq(Item) /\ Kinds(reply', {"text"})
    BY <1>1 DEF Inv, Types
  <2>5. \A r \in Reply, n \in Nat : \A c \in {"loop", "reply"} : \A k :
          At(c, k, r, n)' => IF c = "loop" THEN At(c, k + 1, r, n) ELSE At(c, k, r, n)
    <3> SUFFICES ASSUME NEW r \in Reply, NEW n \in Nat, NEW c \in {"loop", "reply"}, NEW k,
                        At(c, k, r, n)'
                 PROVE  IF c = "loop" THEN At(c, k + 1, r, n) ELSE At(c, k, r, n)
      OBVIOUS
    <3>1. CASE c = "loop"
      BY <1>2, <3>1 DEF At
    <3>2. CASE c = "reply"
      BY <1>1, <3>2 DEF At
    <3> QED BY <3>1, <3>2
  <2> QED BY <1>1, <1>2, <1>4, <2>3, <2>4, <2>5, PlacesText
<1> QED BY <1>2, <1>3, <1>4

LEMMA WorkerPlaces == ASSUME Inv, WorkerSends PROVE Inv'
<1> DEFINE f == Head(reply)
<1>1. /\ reply \in Seq(Item) /\ reply # <<>> /\ reply' = Tail(reply) /\ Place(f)
      /\ Kinds(reply, {"text"})
      /\ UNCHANGED <<events, holding, work, loop, awaitingAck, fromRadio, inbox, onAir, unasked,
                     lostVerdict>>
  BY DEF Inv, Types, WorkerSends, clientVars, radioVars
<1>2. /\ f \in Item /\ f = reply[1] /\ 1 \in DOMAIN reply /\ f.kind = "text"
      /\ reply' \in Seq(Item) /\ Kinds(reply', {"text"})
      /\ \A i \in DOMAIN reply' : i + 1 \in DOMAIN reply /\ reply'[i] = reply[i + 1]
  BY <1>1, HeadLeaves, KindsLeave
<1> HIDE DEF f
<1>3. f.attempt \in Attempt
  BY <1>2 DEF Item
<1>4. f.attempt = (f.attempt - 1) + 1
  BY <1>3, AttemptsAssumption DEF Attempt
<1>5. At("reply", 1, f.id, f.attempt - 1)
  BY <1>2, <1>4 DEF At
<1>6. loop' \in Seq(Item) /\ Kinds(loop', {"text", "sync", "work"})
  BY <1>1 DEF Inv, Types
<1>7. \A r \in Reply, n \in Nat : \A c \in {"loop", "reply"} : \A k :
        At(c, k, r, n)' => IF c = "reply" THEN At(c, k + 1, r, n) ELSE At(c, k, r, n)
  <2> SUFFICES ASSUME NEW r \in Reply, NEW n \in Nat, NEW c \in {"loop", "reply"}, NEW k,
                      At(c, k, r, n)'
               PROVE  IF c = "reply" THEN At(c, k + 1, r, n) ELSE At(c, k, r, n)
    OBVIOUS
  <2>1. CASE c = "reply"
    BY <1>2, <2>1 DEF At
  <2>2. CASE c = "loop"
    BY <1>1, <2>2 DEF At
  <2> QED BY <2>1, <2>2
<1> QED BY <1>1, <1>2, <1>5, <1>6, <1>7, PlacesText

(* Off the path of the sends nothing happens to verdicts. *)
LEMMA OffPath ==
  ASSUME Inv, UNCHANGED <<cmd, events, holding, fromRadio, awaitingSent, lostVerdict>>,
         \A c \in DOMAIN awaitingAck' : c \in DOMAIN awaitingAck /\ awaitingAck'[c] = awaitingAck[c]
  PROVE  VerdictsMatch'
<1>1. Path' = Path
  BY DEF Path
<1> QED BY <1>1, Matches DEF Inv

LEMMA HandsOver == ASSUME Inv, LoopHandsOver PROVE Inv'
<1> DEFINE c == Head(loop).id
           N == Len(work) + 1
<1>1. /\ loop \in Seq(Item) /\ loop # <<>> /\ loop' = Tail(loop) /\ Head(loop).kind = "work"
      /\ Kinds(loop, {"text", "sync", "work"}) /\ work \in Seq(Command) /\ work' = Append(work, c)
      /\ UNCHANGED <<cmd, events, holding, reply, awaitingSent, awaitingAck, fromRadio, inbox, onAir,
                     unasked, copies, lostVerdict>>
  BY DEF Inv, Types, LoopHandsOver, clientVars, radioVars, trackerVars
<1>2. /\ Head(loop) \in Item /\ Head(loop) = loop[1] /\ 1 \in DOMAIN loop
      /\ loop' \in Seq(Item) /\ Kinds(loop', {"text", "sync", "work"})
      /\ \A i \in DOMAIN loop' : i + 1 \in DOMAIN loop /\ loop'[i] = loop[i + 1]
  BY <1>1, HeadLeaves, KindsLeave
<1>3. c \in Command
  BY <1>1, <1>2 DEF Item
<1> HIDE DEF c
<1>4. /\ work' \in Seq(Command)
      /\ \A i \in DOMAIN work' : \/ i \in DOMAIN work /\ work'[i] = work[i] /\ i # N
                                 \/ i = N /\ work'[i] = c
  <2>1. \A i \in DOMAIN work : i # N
    BY <1>1
  <2> HIDE DEF N
  <2>2. /\ Append(work, c) \in Seq(Command)
        /\ \A i \in DOMAIN Append(work, c) : \/ i \in DOMAIN work /\ Append(work, c)[i] = work[i]
                                             \/ i = N /\ Append(work, c)[i] = c
    BY <1>1, <1>3, EndJoins DEF N
  <2> QED BY <1>1, <2>1, <2>2
<1> HIDE DEF N
<1>5. Types'
  BY <1>1, <1>2, <1>4 DEF Inv, Types
<1>6. VerdictsMatch'
  BY <1>1, OffPath
<1>7. Moves({"loop"}, "loop", 1, "work", N)
  <2>1. ASSUME NEW r \in Reply, NEW n \in Nat, NEW s, NEW k, At(s, k, r, n)'
        PROVE  IF s = "work" /\ k = N THEN At("loop", 1, r, n)
               ELSE IF s \in {"loop"} THEN At(s, k + 1, r, n)
               ELSE At(s, k, r, n)
    <3>1. CASE s = "work"
      BY <1>1, <1>2, <1>4, <2>1, <3>1 DEF At, c
    <3>2. CASE s = "loop"
      BY <1>2, <2>1, <3>2 DEF At
    <3>3. CASE s \notin {"loop", "work"}
      BY <1>1, <2>1, <3>3 DEF At, Waits
    <3> QED BY <3>1, <3>2, <3>3
  <2> QED BY <2>1 DEF Moves, Queues
<1>8. Once' /\ Within' /\ CopiesBounded'
  BY <1>1, <1>5, <1>7, Handed DEF Inv
<1> QED BY <1>5, <1>6, <1>8 DEF Inv

(* The first attempt at a reply. *)
LEMMA FirstAttempt ==
  ASSUME NEW p \in Reply
  PROVE  /\ <<Text(p, 1)>> \in Seq(Item) /\ Kinds(<<Text(p, 1)>>, {"text"})
         /\ Kinds(<<Text(p, 1)>>, {"text", "sync", "work"})
         /\ \A i \in DOMAIN <<Text(p, 1)>> :
              /\ i = 1 /\ <<Text(p, 1)>>[i].kind = "text" /\ <<Text(p, 1)>>[i].id = p
              /\ \A n \in Nat : <<Text(p, 1)>>[i].attempt = n + 1 => n = 0
<1> DEFINE t == Text(p, 1)
<1>1. t \in Item /\ t.kind = "text" /\ t.id = p /\ t.attempt = 1
  <2>1. 1 \in Attempt
    BY AttemptsAssumption DEF Attempt
  <2> QED BY <2>1, Shapes
<1> HIDE DEF t
<1>2. <<t>> \in Seq(Item) /\ \A i \in DOMAIN <<t>> : i = 1 /\ <<t>>[i] = t
  BY <1>1
<1>3. \A n \in Nat : 1 = n + 1 => n = 0
  OBVIOUS
<1>4. /\ <<t>> \in Seq(Item) /\ Kinds(<<t>>, {"text"}) /\ Kinds(<<t>>, {"text", "sync", "work"})
      /\ \A i \in DOMAIN <<t>> :
           /\ i = 1 /\ <<t>>[i].kind = "text" /\ <<t>>[i].id = p
           /\ \A n \in Nat : <<t>>[i].attempt = n + 1 => n = 0
  BY <1>1, <1>2, <1>3 DEF Kinds
<1> QED BY <1>4 DEF t

LEMMA Takes == ASSUME Inv, WorkerTakes PROVE Inv'
<1> DEFINE c == Head(work)
<1>1. /\ work \in Seq(Command) /\ work # <<>> /\ work' = Tail(work)
      /\ reply' \in {<<Text(c, 1)>>, <<>>}
      /\ UNCHANGED <<cmd, events, holding, loop, awaitingSent, awaitingAck, fromRadio, inbox, onAir,
                     unasked, copies, lostVerdict>>
  BY DEF Inv, Types, WorkerTakes, clientVars, radioVars, trackerVars
<1>2. /\ c \in Command /\ c = work[1] /\ 1 \in DOMAIN work /\ work' \in Seq(Command)
      /\ \A i \in DOMAIN work' : i + 1 \in DOMAIN work /\ work'[i] = work[i + 1]
  BY <1>1, HeadLeaves
<1> HIDE DEF c
<1>3. c \in Reply
  BY <1>2 DEF Reply
<1>r. reply' \in Seq(Item) /\ Kinds(reply', {"text"})
  <2>1. CASE reply' = <<Text(c, 1)>> BY <1>3, <2>1, FirstAttempt
  <2>2. CASE reply' = <<>> BY <2>2 DEF Kinds
  <2> QED BY <1>1, <2>1, <2>2
<1>4. Types'
  BY <1>1, <1>2, <1>r DEF Inv, Types
<1>5. VerdictsMatch'
  BY <1>1, OffPath
<1>6. Moves({"work"}, "work", 1, "reply", 1)
  <2>1. ASSUME NEW r \in Reply, NEW n \in Nat, NEW s, NEW k, At(s, k, r, n)'
        PROVE  IF s = "reply" /\ k = 1 THEN At("work", 1, r, n)
               ELSE IF s \in {"work"} THEN At(s, k + 1, r, n)
               ELSE At(s, k, r, n)
    <3>1. CASE s = "reply"
      <4>0. reply' # <<>> BY <2>1, <3>1 DEF At
      <4>1. /\ k \in DOMAIN <<Text(c, 1)>> /\ <<Text(c, 1)>>[k].id = r
            /\ <<Text(c, 1)>>[k].attempt = n + 1
        BY <1>1, <2>1, <3>1, <4>0 DEF At
      <4>2. k = 1 /\ r = c /\ n = 0
        BY <1>3, <4>1, FirstAttempt
      <4> QED BY <1>2, <3>1, <4>2 DEF At
    <3>2. CASE s = "work"
      BY <1>2, <2>1, <3>2 DEF At
    <3>3. CASE s \notin {"reply", "work"}
      BY <1>1, <2>1, <3>3 DEF At, Waits
    <3> QED BY <3>1, <3>2, <3>3
  <2> QED BY <2>1 DEF Moves, Queues
<1>7. Once' /\ Within' /\ CopiesBounded'
  BY <1>1, <1>4, <1>6, Handed DEF Inv
<1> QED BY <1>4, <1>5, <1>7 DEF Inv

LEMMA Notifies == ASSUME Inv, PushDomainNotification PROVE Inv'
<1>1. PICK p \in Push \cap unasked : unasked' = unasked \ {p} /\ loop' = <<Text(p, 1)>>
  BY DEF PushDomainNotification
<1>2. UNCHANGED <<cmd, events, holding, work, reply, awaitingSent, awaitingAck, fromRadio, inbox,
                  onAir, copies, lostVerdict>>
  BY DEF PushDomainNotification, clientVars, radioVars, trackerVars
<1>3. p \in Reply
  BY DEF Reply
<1>4. Types'
  BY <1>1, <1>2, <1>3, FirstAttempt DEF Inv, Types
<1>5. VerdictsMatch'
  BY <1>2, OffPath
<1>6. ASSUME NEW r \in Reply, NEW n \in Nat, NEW k, At("loop", k, r, n)'
      PROVE  k = 1 /\ r = p /\ n = 0
  <2>1. /\ k \in DOMAIN <<Text(p, 1)>> /\ <<Text(p, 1)>>[k].id = r
        /\ \/ <<Text(p, 1)>>[k].kind = "work"
           \/ <<Text(p, 1)>>[k].attempt = n + 1
    BY <1>1, <1>6 DEF At
  <2> QED BY <1>3, <2>1, FirstAttempt
<1>7. Moves({}, "unasked", 1, "loop", 1)
  <2>1. ASSUME NEW r \in Reply, NEW n \in Nat, NEW s, NEW k, At(s, k, r, n)'
        PROVE  IF s = "loop" /\ k = 1 THEN At("unasked", 1, r, n)
               ELSE At(s, k, r, n)
    <3>1. CASE s = "loop"
      <4>1. k = 1 /\ r = p /\ n = 0
        BY <1>6, <2>1, <3>1
      <4> QED BY <3>1, <4>1 DEF At
    <3>2. CASE s # "loop"
      BY <1>1, <1>2, <2>1, <3>2 DEF At, Waits
    <3> QED BY <3>1, <3>2
  <2>2. \A r \in Reply, n, m \in Nat : At("loop", 1, r, m)' => ~At("unasked", 1, r, n)'
    <3> SUFFICES ASSUME NEW r \in Reply, NEW n \in Nat, NEW m \in Nat, At("loop", 1, r, m)',
                        At("unasked", 1, r, n)'
                 PROVE  FALSE
      OBVIOUS
    <3>1. r \in unasked'
      BY DEF At
    <3> QED BY <1>1, <1>6, <3>1
  <2> QED BY <2>1, <2>2 DEF Moves, Queues
<1>8. Once' /\ Within' /\ CopiesBounded'
  BY <1>2, <1>4, <1>7, Handed DEF Inv
<1> QED BY <1>4, <1>5, <1>8 DEF Inv

(* The sends whose wait is over are given up or become texts with the next
   attempt, each once, whatever the order. *)
LEMMA Retries == ASSUME Inv, RetryTick PROVE Inv'
<1>0. PICK due \in SUBSET DOMAIN awaitingAck \ {{}} :
        /\ Forget(due)
        /\ \E order \in SetToSeqs(ToRetry(due)) :
             loop' = [i \in DOMAIN order |-> Text(order[i][1], order[i][2] + 1)]
  BY DEF RetryTick
<1>1. PICK order \in SetToSeqs(ToRetry(due)) :
        /\ Forget(due)
        /\ loop' = [i \in DOMAIN order |-> Text(order[i][1], order[i][2] + 1)]
  BY <1>0
<1>2. /\ due \subseteq DOMAIN awaitingAck
      /\ DOMAIN awaitingAck' = DOMAIN awaitingAck \ due
      /\ \A c \in DOMAIN awaitingAck' : c \in DOMAIN awaitingAck /\ awaitingAck'[c] = awaitingAck[c]
      /\ IsFiniteSet(DOMAIN awaitingAck) /\ \A c \in DOMAIN awaitingAck : awaitingAck[c] \in Sending
      /\ UNCHANGED <<cmd, events, holding, work, reply, awaitingSent, fromRadio, inbox, onAir,
                     unasked, copies, lostVerdict>>
  BY <1>1 DEF Inv, Types, RetryTick, Forget, clientVars, radioVars
<1>3. /\ ToRetry(due) \subseteq Sending /\ IsFiniteSet(ToRetry(due))
      /\ \A rec \in ToRetry(due) : rec[2] < MaxAttempts /\ \E c \in due : awaitingAck[c] = rec
  <2>1. IsFiniteSet(due)
    BY <1>2, FS_Subset
  <2>2. IsFiniteSet({awaitingAck[c] : c \in due})
    <3> DEFINE T == {awaitingAck[c] : c \in due}
               g == [c \in due |-> awaitingAck[c]]
    <3>1. g \in Surjection(due, T)
      BY DEF Surjection
    <3> HIDE DEF g, T
    <3>2. IsFiniteSet(T)
      BY <2>1, <3>1, FS_Surjection
    <3> QED BY <3>2 DEF T
  <2>3. IsFiniteSet(ToRetry(due))
    BY <2>2, FS_Subset DEF ToRetry
  <2> QED BY <1>2, <2>3 DEF ToRetry
<1> DEFINE C == Cardinality(ToRetry(due))
<1>4. C \in Nat
  BY <1>3, FS_CardinalityType
<1>5. /\ order \in [1 .. C -> ToRetry(due)]
      /\ \A i, j \in 1 .. C : i # j => order[i] # order[j]
  BY DEF SetToSeqs
<1> HIDE DEF C
<1>6. ASSUME NEW i \in 1 .. C
      PROVE  /\ order[i][1] \in Reply /\ order[i][2] \in Attempt
             /\ order[i] = <<order[i][1], order[i][2]>>
             /\ Text(order[i][1], order[i][2] + 1) \in Item
             /\ loop'[i].kind = "text" /\ loop'[i].id = order[i][1]
             /\ loop'[i].attempt = order[i][2] + 1
  <2>1. order[i] \in Sending /\ order[i][2] < MaxAttempts
    BY <1>3, <1>5
  <2>2. order[i][1] \in Reply /\ order[i][2] \in Attempt /\ order[i] = <<order[i][1], order[i][2]>>
    BY <2>1 DEF Sending
  <2>3. order[i][2] + 1 \in Attempt
    BY <2>1, <2>2, AttemptsAssumption DEF Attempt
  <2>4. loop'[i] = Text(order[i][1], order[i][2] + 1)
    BY <1>1, <1>5
  <2> QED BY <2>2, <2>3, <2>4, Shapes
<1>7. loop' \in Seq(Item) /\ Kinds(loop', {"text", "sync", "work"}) /\ DOMAIN loop' = 1 .. C
  <2>1. loop' \in [1 .. C -> Item]
    BY <1>1, <1>5, <1>6
  <2>2. loop' \in Seq(Item)
    BY <1>4, <2>1
  <2> QED BY <1>6, <2>1, <2>2 DEF Kinds
<1>8. IsFiniteSet(DOMAIN awaitingAck')
  BY <1>2, FS_Subset
<1>9. Types'
  BY <1>2, <1>7, <1>8 DEF Inv, Types
<1>10. VerdictsMatch'
  BY <1>2, OffPath
<1>11. ASSUME NEW r \in Reply, NEW n \in Nat, NEW i, At("loop", i, r, n)'
       PROVE  i \in 1 .. C /\ order[i] = <<r, n>> /\ \E c \in due : At("awaitingAck", c, r, n)
  <2>1. /\ i \in DOMAIN loop' /\ loop'[i].id = r
        /\ \/ loop'[i].kind = "work"
           \/ loop'[i].attempt = n + 1
    BY <1>11 DEF At
  <2>2. i \in 1 .. C
    BY <1>7, <2>1
  <2>3. order[i][1] = r /\ order[i][2] + 1 = n + 1 /\ order[i] = <<order[i][1], order[i][2]>>
    BY <1>6, <2>1, <2>2
  <2>4. order[i][2] = n
    <3>1. order[i][2] \in Nat
      BY <1>6, <2>2, AttemptsAssumption DEF Attempt
    <3> QED BY <2>3, <3>1
  <2>5. order[i] = <<r, n>>
    BY <2>3, <2>4
  <2>6. PICK c \in due : awaitingAck[c] = <<r, n>>
    BY <1>3, <1>5, <2>2, <2>5
  <2>7. At("awaitingAck", c, r, n)
    BY <1>2, <2>6 DEF At
  <2> QED BY <2>2, <2>5, <2>7
<1>12. ASSUME NEW r \in Reply, NEW n \in Nat, NEW s, NEW i, At(s, i, r, n)', s # "loop"
       PROVE  At(s, i, r, n) /\ (s = "awaitingAck" => i \notin due)
  <2>1. CASE s = "awaitingAck"
    BY <1>2, <1>12, <2>1 DEF At
  <2>2. CASE s # "awaitingAck"
    BY <1>2, <1>12, <2>2 DEF At, Waits
  <2> QED BY <2>1, <2>2
<1>13. Once'
  <2> SUFFICES ASSUME NEW r \in Reply, NEW n \in Nat, NEW m \in Nat, NEW a, NEW b, NEW i, NEW j,
                      At(a, i, r, n)', At(b, j, r, m)'
               PROVE  a = b /\ i = j
    BY DEF Once
  <2>1. ASSUME NEW x, NEW y, NEW o \in Nat, At(x, y, r, o)', x # "loop",
               NEW z, NEW p \in Nat, At("loop", z, r, p)'
        PROVE  FALSE
    <3>1. PICK c \in due : At("awaitingAck", c, r, p)
      BY <1>11, <2>1
    <3>2. At(x, y, r, o) /\ (x = "awaitingAck" => y \notin due)
      BY <1>12, <2>1
    <3> QED BY <3>1, <3>2 DEF Inv, Once
  <2>2. CASE a = "loop" /\ b = "loop"
    <3>1. PICK c \in due : At("awaitingAck", c, r, n)
      BY <1>11, <2>2
    <3>2. PICK d \in due : At("awaitingAck", d, r, m)
      BY <1>11, <2>2
    <3>3. c = d
      BY <3>1, <3>2 DEF Inv, Once
    <3>4. <<r, n>> = <<r, m>>
      BY <3>1, <3>2, <3>3 DEF At
    <3>5. i \in 1 .. C /\ j \in 1 .. C /\ order[i] = <<r, n>> /\ order[j] = <<r, m>>
      BY <1>11, <2>2
    <3> QED BY <1>5, <2>2, <3>4, <3>5
  <2>3. CASE a # "loop" /\ b # "loop"
    <3>1. At(a, i, r, n) /\ At(b, j, r, m)
      BY <1>12, <2>3
    <3> QED BY <3>1 DEF Inv, Once
  <2>4. CASE a = "loop" /\ b # "loop"
    BY <2>1, <2>4
  <2>5. CASE a # "loop" /\ b = "loop"
    BY <2>1, <2>5
  <2> QED BY <2>2, <2>3, <2>4, <2>5
<1>14. Within'
  <2> SUFFICES ASSUME NEW r \in Reply, NEW s, NEW i, NEW n \in Nat, At(s, i, r, n)'
               PROVE  copies'[r] <= n
    BY DEF Within
  <2>1. \E t, k : At(t, k, r, n)
    BY <1>11, <1>12
  <2> QED BY <1>2, <2>1 DEF Inv, Within
<1>15. CopiesBounded'
  BY <1>2 DEF Inv, CopiesBounded
<1> QED BY <1>9, <1>10, <1>13, <1>14, <1>15 DEF Inv

-----------------------------------------------------------------------------
LEMMA InitInv == ASSUME Init PROVE Inv
<1>1. inbox \in Seq(Command \cup Chatter) /\ \A i \in DOMAIN inbox : inbox[i] \notin Reply
  <2> DEFINE C == Cardinality(Chatter)
  <2>1. C \in Nat
    BY ChatterAssumption, FS_CardinalityType
  <2>2. inbox \in [1 .. C -> Chatter]
    BY DEF Init, SetToSeqs
  <2> HIDE DEF C
  <2>3. inbox \in [1 .. C -> Command \cup Chatter]
    BY <2>2
  <2>4. inbox \in Seq(Command \cup Chatter)
    BY <2>1, <2>3
  <2> QED BY <2>2, <2>4, ChatterAssumption DEF Reply
<1>2. Types
  <2>1. /\ cmd = <<>> /\ events = <<>> /\ holding = <<>> /\ loop = <<>> /\ work = <<>>
        /\ reply = <<>> /\ awaitingSent = <<>> /\ awaitingAck = <<>> /\ fromRadio = <<>>
        /\ onAir = {} /\ unasked = Reply /\ copies = [r \in Reply |-> 0]
    BY DEF Init
  <2>2. /\ <<>> \in Seq(Item) /\ <<>> \in Seq(Command) /\ <<>> \in Seq(Sending) /\ Len(<<>>) <= 1
        /\ DOMAIN <<>> = {} /\ \A K : Kinds(<<>>, K)
    BY DEF Kinds
  <2>3. IsFiniteSet({})
    BY FS_EmptySet
  <2>4. copies \in [Reply -> Nat]
    BY <2>1
  <2> QED BY <1>1, <2>1, <2>2, <2>3, <2>4 DEF Types
<1>3. VerdictsMatch
  <2>1. /\ events \o holding \o fromRadio \o cmd = <<>> /\ awaitingSent = <<>>
        /\ DOMAIN awaitingAck = {}
    BY DEF Init
  <2>2. InStep(<<>>, <<>>)
    <3>1. Verdicts(<<>>) = {} /\ DOMAIN <<>> = {}
      BY DEF Verdicts
    <3> DEFINE at == [k \in {} |-> k]
    <3>2. at \in [DOMAIN <<>> -> Verdicts(<<>>)]
      BY <3>1
    <3> QED BY <3>1, <3>2 DEF InStep
  <2> QED BY <2>1, <2>2 DEF VerdictsMatch
<1>4. \A r \in Reply, n \in Nat : \A a, i : At(a, i, r, n) => a = "unasked" /\ i = 1
  BY <1>1 DEF Init, At, Waits
<1>5. \A r \in Reply : copies[r] = 0
  BY DEF Init
<1> QED BY <1>2, <1>3, <1>4, <1>5, AttemptsAssumption DEF Inv, Once, Within, CopiesBounded

LEMMA StepKeeps == ASSUME Inv, [Next]_vars PROVE Inv'
<1>1. CASE Client
  BY <1>1, Places, Connects, IsRefused, Reads, Transmits, Syncs, WriteFails, ReadFails
     DEF Client, ClientWrites
<1>2. CASE LoopReceives
  BY <1>2, ConnectedTaken, DisconnectedTaken, MsgWaitingTaken, MessageTaken, ChannelMsgTaken,
     SentTaken, ConfirmedTaken DEF LoopReceives
<1>3. CASE LoopContinues
  BY <1>3, LoopPlaces, HandsOver DEF LoopContinues
<1>4. CASE RetryTick \/ PushDomainNotification \/ WorkerTakes \/ WorkerSends
  BY <1>4, Retries, Notifies, Takes, WorkerPlaces
<1>5. CASE MessageArrives \/ DestinationConfirms \/ LinkBreaks \/ RadioReturns
  BY <1>5, Arrives, Confirms, Breaks, Returns
<1>6. CASE UNCHANGED vars
  BY <1>6, Unseen DEF vars, trackerVars
<1> QED BY <1>1, <1>2, <1>3, <1>4, <1>5, <1>6 DEF Next

(* Whatever the tasks do and whenever the link breaks: the verdicts on their way
   are those of the sends the tracker has recorded, and nothing a reply is made
   from is there twice (SendTracker's record_sent, correlate and collect_due,
   enqueue_text, the hand-over to the command worker). *)
THEOREM Invariance == Spec => []Inv
<1>1. Init => Inv
  BY InitInv
<1>2. Inv /\ [Next]_vars => Inv'
  BY StepKeeps
<1> QED BY <1>1, <1>2, PTL DEF Spec

(* A verdict is credited to the send it is about, and a confirmation's CRC finds
   the send it was computed from, as long as no verdict was lost with the link
   (enqueue_text records and places under one lock; SendTracker::correlate takes
   the oldest record). *)
THEOREM VerdictsAreMatched == Spec => []VerdictsMatch
<1>1. Inv => VerdictsMatch
  BY DEF Inv
<1> QED BY <1>1, Invariance, PTL

(* No reply is put on the wire more often than the cap on attempts allows, not
   even when verdicts were lost and later ones credited to other sends
   (SendTracker::collect_due). *)
THEOREM CopiesAreBounded == Spec => []CopiesBounded
<1>1. Inv => CopiesBounded
  BY DEF Inv
<1> QED BY <1>1, Invariance, PTL
=============================================================================
