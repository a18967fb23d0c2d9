---------------------------- MODULE RtmpQueueProofs ----------------------------
(***************************************************************************)
(* Proofs about RtmpQueue for every number of tracks, pattern of frames,   *)
(* threshold and network: the queue of a stream and its semaphore agree,   *)
(* and no packet of an earlier connection is sent; whatever is dropped, a  *)
(* decoder can show what is sent, if the keyframes of the tracks are       *)
(* together; no bitrate is below zero; what a frame that may be dropped    *)
(* waits is bounded; and the bitrate goes up by steps and is shared out,   *)
(* if a connection finds no bitrate of another that is too high for it,    *)
(* as it never does with one track.                                        *)
(***************************************************************************)
EXTENDS RtmpQueue, FoldLemmas, FiniteSetTheorems, TLAPS

-----------------------------------------------------------------------------
(* What is left when frames are dropped                                    *)

\* drop_frames keeps this one.
Stays(p, priority) == ~IsVideo(p) \/ p.drop_priority >= priority

\* new_buf is what the loop of drop_frames has kept after each packet.
KeptBySteps(new_buf, q, priority, S) ==
    /\ new_buf \in [0..Len(q) -> Seq(S)] /\ new_buf[0] = <<>>
    /\ \A i \in 1..Len(q) : new_buf[i] = IF Stays(q[i], priority) THEN Append(new_buf[i - 1], q[i])
                                         ELSE new_buf[i - 1]

(* drop_frames: the loop goes through the queue.                           *)
LEMMA KeptSteps ==
    ASSUME NEW S, NEW q \in Seq(S), NEW priority
    PROVE  \E new_buf : KeptBySteps(new_buf, q, priority, S) /\ Kept(q, priority) = new_buf[Len(q)]
<1> DEFINE n == Len(q)
<1> DEFINE next(i, x) == IF Stays(q[i], priority) THEN Append(x, q[i]) ELSE x
<1> DEFINE X == Seq(S)
<1> DEFINE Eq(f) == f = [i \in 0..n |-> IF i = 0 THEN <<>> ELSE next(i, f[i - 1])]
<1> DEFINE after == CHOOSE f : Eq(f)
<1> DEFINE step == [i \in 1..n |-> [x \in X |-> next(i, x)]]
<1>0. n \in Nat /\ <<>> \in X
  OBVIOUS
<1>1. Kept(q, priority) = after[n]
  BY Zenon DEF Kept, Stays
<1>2. \A i \in 1..n, x \in X : next(i, x) \in X
  OBVIOUS
<1> HIDE DEF next, X
<1>3. step \in [1..n -> [X -> X]] /\ \A i \in 1..n, x \in X : step[i][x] = next(i, x)
  BY <1>2
<1> HIDE DEF step, n
<1>4. PICK f : Solves(f, n, X, <<>>, step)
  BY <1>0, <1>3, RecursionHasSolution
<1>5. f \in [0..n -> X] /\ f[0] = <<>> /\ \A i \in 1..n : f[i] = next(i, f[i - 1])
  <2>1. f \in [0..n -> X] /\ f[0] = <<>> /\ \A i \in 1..n : f[i] = step[i][f[i - 1]]
    BY <1>4, Zenon DEF Solves
  <2>2. \A i \in 1..n : f[i - 1] \in X
    BY <1>0, <2>1
  <2>. QED  BY <1>3, <2>1, <2>2, Zenon
<1>6. Eq(f)
  <2>1. \A i \in 0..n : f[i] = IF i = 0 THEN <<>> ELSE next(i, f[i - 1])
    <3>1. \A i \in 0..n : i # 0 => i \in 1..n
      BY <1>0
    <3>. QED  BY <1>5, <3>1, Zenon
  <2>2. f = [i \in 0..n |-> f[i]]
    BY <1>5
  <2>. QED  BY <2>1, <2>2
<1>7. Eq(after)
  <2> HIDE DEF Eq
  <2>. QED  BY <1>6, Zenon
<1> HIDE DEF after
<1>8. after[0] = <<>> /\ \A i \in 1..n : after[i] = next(i, after[i - 1])
  <2>1. 0 \in 0..n /\ \A i \in 1..n : i \in 0..n /\ i # 0
    BY <1>0
  <2>. QED  BY <1>7, <2>1
<1> HIDE DEF Eq
<1> DEFINE T == {i \in 0..n : after[i] = f[i]}
<1>9. 0 \in T
  BY <1>0, <1>5, <1>8
<1>10. ASSUME NEW i \in 0..n - 1, i \in T PROVE i + 1 \in T
  <2>1. i + 1 \in 1..n /\ i + 1 \in 0..n /\ (i + 1) - 1 = i
    BY <1>0
  <2>2. after[i + 1] = next(i + 1, after[i]) /\ f[i + 1] = next(i + 1, f[i]) /\ after[i] = f[i]
    BY <1>5, <1>8, <1>10, <2>1, Zenon
  <2>. QED  BY <2>1, <2>2
<1>11. after[n] = f[n]
  <2> HIDE DEF T
  <2>1. 0..n \subseteq T
    BY <1>0, <1>9, <1>10, UpToInduction
  <2>. QED  BY <1>0, <2>1 DEF T
<1>12. KeptBySteps(f, q, priority, S)
  BY <1>5, Zenon DEF KeptBySteps, next, X, n
<1>. QED  BY <1>1, <1>11, <1>12, Zenon DEF n

(* drop_frames: what it keeps are packets of the queue, and no more of     *)
(* them.                                                                   *)
LEMMA KeptIsPart ==
    ASSUME NEW S, NEW q \in Seq(S), NEW priority
    PROVE  Kept(q, priority) \in Seq(S) /\ Len(Kept(q, priority)) <= Len(q)
<1> DEFINE n == Len(q)
<1>1. PICK f : KeptBySteps(f, q, priority, S) /\ Kept(q, priority) = f[n]
  BY KeptSteps
<1>2. f \in [0..n -> Seq(S)] /\ f[0] = <<>>
      /\ \A i \in 1..n : f[i] \in {f[i - 1], Append(f[i - 1], q[i])}
  BY <1>1, Zenon DEF KeptBySteps
<1> DEFINE T == {i \in 0..n : Len(f[i]) <= i}
<1>0. n \in Nat
  OBVIOUS
<1> HIDE DEF n
<1>3. 0 \in T
  BY <1>0, <1>2
<1>4. ASSUME NEW i \in 0..n - 1, i \in T PROVE i + 1 \in T
  <2>1. i \in 0..n /\ i + 1 \in 1..n /\ (i + 1) - 1 = i
    BY <1>0
  <2>2. PICK x \in Seq(S) : x = f[i]
    BY <1>2, <2>1
  <2>3. f[i + 1] \in {x, Append(x, q[i + 1])} /\ q[i + 1] \in S /\ Len(x) <= i
    BY <1>2, <1>4, <2>1, <2>2 DEF n
  <2>4. Len(f[i + 1]) <= i + 1
    BY <2>3
  <2>. QED  BY <2>1, <2>4
<1>5. n \in T
  <2> HIDE DEF T
  <2>1. 0..n \subseteq T
    BY <1>0, <1>3, <1>4, UpToInduction
  <2>. QED  BY <1>0, <2>1
<1>. QED  BY <1>0, <1>1, <1>2, <1>5 DEF n

\* new is what is kept of the first m packets of q: of those that stay, in order,
\* all of them.
KeptOf(new, q, m, priority) ==
    \A a \in DOMAIN new : \E i \in 1..m : new[a] = q[i] /\ Stays(q[i], priority)
KeptOrder(new, q, m) ==
    \A a, b \in DOMAIN new : a < b => \E i, j \in 1..m : i < j /\ new[a] = q[i] /\ new[b] = q[j]
KeptAll(new, q, m, priority) ==
    \A i \in 1..m : Stays(q[i], priority) => \E a \in DOMAIN new : new[a] = q[i]
IsKept(new, q, m, priority) ==
    KeptOf(new, q, m, priority) /\ KeptOrder(new, q, m) /\ KeptAll(new, q, m, priority)

(* drop_frames, one packet: it is dropped.                                 *)
LEMMA KeptDrops ==
    ASSUME NEW x, NEW q, NEW m \in Nat, NEW priority, IsKept(x, q, m, priority),
           ~Stays(q[m + 1], priority)
    PROVE  IsKept(x, q, m + 1, priority)
<1>1. \A i \in 1..m : i \in 1..m + 1
  OBVIOUS
<1>2. \A i \in 1..m + 1 : i = m + 1 \/ i \in 1..m
  OBVIOUS
<1>3. KeptOf(x, q, m, priority) /\ KeptOrder(x, q, m) /\ KeptAll(x, q, m, priority)
  BY Zenon DEF IsKept
<1>4. KeptOf(x, q, m + 1, priority)
  BY <1>1, <1>3 DEF KeptOf
<1>5. KeptOrder(x, q, m + 1)
  BY <1>1, <1>3 DEF KeptOrder
<1>6. KeptAll(x, q, m + 1, priority)
  BY <1>2, <1>3 DEF KeptAll
<1>. QED  BY <1>4, <1>5, <1>6, Zenon DEF IsKept

(* drop_frames, one packet: it stays.                                      *)
LEMMA KeptStays ==
    ASSUME NEW S, NEW x \in Seq(S), NEW q, NEW m \in Nat, NEW priority, IsKept(x, q, m, priority),
           Stays(q[m + 1], priority), q[m + 1] \in S
    PROVE  IsKept(Append(x, q[m + 1]), q, m + 1, priority)
<1> DEFINE p == q[m + 1]
<1> DEFINE y == Append(x, p)
<1>1. \A i \in 1..m : i \in 1..m + 1 /\ i < m + 1
  OBVIOUS
<1>2. m + 1 \in 1..m + 1 /\ \A i \in 1..m + 1 : i = m + 1 \/ i \in 1..m
  OBVIOUS
<1>3. KeptOf(x, q, m, priority) /\ KeptOrder(x, q, m) /\ KeptAll(x, q, m, priority)
  BY Zenon DEF IsKept
<1>4. /\ \A a \in DOMAIN y : (a \in DOMAIN x /\ y[a] = x[a]) \/ (a = Len(x) + 1 /\ y[a] = p)
      /\ \A a \in DOMAIN x : a \in DOMAIN y /\ y[a] = x[a]
      /\ Len(x) + 1 \in DOMAIN y /\ y[Len(x) + 1] = p
      /\ ~(Len(x) + 1 < Len(x) + 1) /\ \A a \in DOMAIN x : ~(Len(x) + 1 < a)
  <2> HIDE DEF p
  <2>1. p \in S
    BY DEF p
  <2>. QED  BY <2>1
<1> HIDE DEF y
<1>5. KeptOf(y, q, m + 1, priority)
  <2> SUFFICES ASSUME NEW a \in DOMAIN y
               PROVE  \E i \in 1..m + 1 : y[a] = q[i] /\ Stays(q[i], priority)
    BY Zenon DEF KeptOf
  <2>1. CASE a \in DOMAIN x /\ y[a] = x[a]
    <3>1. PICK i \in 1..m : x[a] = q[i] /\ Stays(q[i], priority)
      BY <1>3, <2>1, Zenon DEF KeptOf
    <3>. QED  BY <1>1, <2>1, <3>1, Zenon
  <2>2. CASE y[a] = p
    BY <1>2, <2>2, Zenon
  <2>. QED  BY <1>4, <2>1, <2>2, Zenon
<1>6. KeptOrder(y, q, m + 1)
  <2> SUFFICES ASSUME NEW a \in DOMAIN y, NEW b \in DOMAIN y, a < b
               PROVE  \E i, j \in 1..m + 1 : i < j /\ y[a] = q[i] /\ y[b] = q[j]
    BY Zenon DEF KeptOrder
  <2>1. a \in DOMAIN x /\ y[a] = x[a]
    BY <1>4, Zenon
  <2>2. CASE b \in DOMAIN x /\ y[b] = x[b]
    <3>1. PICK i \in 1..m, j \in 1..m : i < j /\ x[a] = q[i] /\ x[b] = q[j]
      BY <1>3, <2>1, <2>2, Zenon DEF KeptOrder
    <3>. QED  BY <1>1, <2>1, <2>2, <3>1, Zenon
  <2>3. CASE y[b] = p
    <3>1. PICK i \in 1..m : x[a] = q[i]
      BY <1>3, <2>1, Zenon DEF KeptOf
    <3>2. i \in 1..m + 1 /\ i < m + 1 /\ y[a] = q[i] /\ y[b] = q[m + 1]
      BY <1>1, <2>1, <2>3, <3>1, Zenon
    <3>. QED  BY <1>2, <3>2, Zenon
  <2>. QED  BY <1>4, <2>2, <2>3, Zenon
<1>7. KeptAll(y, q, m + 1, priority)
  <2> SUFFICES ASSUME NEW i \in 1..m + 1, Stays(q[i], priority)
               PROVE  \E a \in DOMAIN y : y[a] = q[i]
    BY Zenon DEF KeptAll
  <2>1. CASE i \in 1..m
    <3>1. PICK a \in DOMAIN x : x[a] = q[i]
      BY <1>3, <2>1, Zenon DEF KeptAll
    <3>. QED  BY <1>4, <3>1, Zenon
  <2>2. CASE i = m + 1
    <3>1. y[Len(x) + 1] = q[i]
      BY <1>4, <2>2, Zenon
    <3>. QED  BY <1>4, <3>1, Zenon
  <2>. QED  BY <1>2, <2>1, <2>2, Zenon
<1>. QED  BY <1>5, <1>6, <1>7, Zenon DEF IsKept, y

(* drop_frames: it keeps the order, audio, and video of the priority.      *)
LEMMA KeptInOrder ==
    ASSUME NEW S, NEW q \in Seq(S), NEW priority
    PROVE  IsKept(Kept(q, priority), q, Len(q), priority)
<1> DEFINE n == Len(q)
<1>1. PICK f : KeptBySteps(f, q, priority, S) /\ Kept(q, priority) = f[n]
  BY KeptSteps
<1>2. f \in [0..n -> Seq(S)] /\ f[0] = <<>>
      /\ \A i \in 1..n : f[i] = IF Stays(q[i], priority) THEN Append(f[i - 1], q[i]) ELSE f[i - 1]
  BY <1>1, Zenon DEF KeptBySteps
<1> DEFINE T == {m \in 0..n : IsKept(f[m], q, m, priority)}
<1>0. n \in Nat /\ \A i \in 1..n : q[i] \in S
  OBVIOUS
<1> HIDE DEF n
<1>3. 0 \in T
  <2>1. DOMAIN f[0] = {} /\ 1..0 = {} /\ 0 \in 0..n
    BY <1>0, <1>2
  <2>2. KeptOf(f[0], q, 0, priority)
    BY <2>1, Zenon DEF KeptOf
  <2>3. KeptOrder(f[0], q, 0)
    BY <2>1, Zenon DEF KeptOrder
  <2>4. KeptAll(f[0], q, 0, priority)
    BY <2>1, Zenon DEF KeptAll
  <2>. QED  BY <2>1, <2>2, <2>3, <2>4 DEF IsKept
<1>4. ASSUME NEW m \in 0..n - 1, m \in T PROVE m + 1 \in T
  <2>1. m \in Nat /\ m \in 0..n /\ m + 1 \in 0..n /\ m + 1 \in 1..n /\ (m + 1) - 1 = m
    BY <1>0
  <2>2. PICK x \in Seq(S) : x = f[m]
    BY <1>2, <2>1
  <2>3. IsKept(x, q, m, priority)
    BY <1>4, <2>2
  <2>4. f[m + 1] = IF Stays(q[m + 1], priority) THEN Append(x, q[m + 1]) ELSE x
    BY <1>2, <2>1, <2>2, Zenon
  <2>5. IsKept(f[m + 1], q, m + 1, priority)
    BY <1>0, <2>1, <2>3, <2>4, KeptStays, KeptDrops, Zenon
  <2>. QED  BY <2>1, <2>5
<1>5. n \in T
  <2> HIDE DEF T
  <2>1. 0..n \subseteq T
    BY <1>0, <1>3, <1>4, UpToInduction
  <2>. QED  BY <1>0, <2>1
<1>. QED  BY <1>1, <1>5 DEF n

(* check_to_drop_frames: nor do both checks, one after the other, add any.  *)
LEMMA DroppedIsPart ==
    ASSUME NEW S, NEW c, c.q \in Seq(S)
    PROVE  Dropped(c).q \in Seq(S) /\ Len(Dropped(c).q) <= Len(c.q)
<1>1. ASSUME NEW d, d.q \in Seq(S), NEW threshold, NEW priority
      PROVE  Drop(d, threshold, priority).q \in Seq(S) /\ Len(Drop(d, threshold, priority).q) <= Len(d.q)
  <2>1. Kept(d.q, priority) \in Seq(S) /\ Len(Kept(d.q, priority)) <= Len(d.q)
    BY <1>1, KeptIsPart
  <2>2. Len(d.q) <= Len(d.q)
    BY <1>1
  <2>. QED  BY <1>1, <2>1, <2>2 DEF Drop
<1>2. PICK d : d = Drop(c, drop_threshold, Priority["p"])
  OBVIOUS
<1>3. d.q \in Seq(S) /\ Len(d.q) <= Len(c.q)
  BY <1>1, <1>2
<1>4. PICK e : e = Drop(d, pframe_drop_threshold, Priority["key"])
  OBVIOUS
<1>5. e.q \in Seq(S) /\ Len(e.q) <= Len(d.q)
  BY <1>1, <1>3, <1>4
<1>6. Dropped(c) = e
  BY <1>2, <1>4, Zenon DEF Dropped
<1>. QED  BY <1>3, <1>5, <1>6

-----------------------------------------------------------------------------
(* Packets and their wakeups                                               *)

\* The packets of this session.
Own == {Packet(i) : i \in Nat}

\* A packet was added that is not announced yet.
Posting == IF epc = "post" THEN 1 ELSE 0

\* The queue holds packets of the session the encoders are in, from the moment
\* the connection empties it; while it is sent from, each of them is announced.
ServedInv ==
    /\ packets \in Seq(Own) /\ send_sem \in Nat /\ k \in Nat
    /\ ~capturing => epc = "idle"
    /\ Sending => send_sem + Posting >= Len(packets)

(* Every packet carries the connection it was encoded for.                 *)
LEMMA OwnSession == \A p \in Own : p.session = sessions
BY DEF Own, Packet

(* Nothing is queued in the beginning.                                     *)
LEMMA InitServed == Init => ServedInv
BY DEF Init, ServedInv, Sending

(* rtmp_stream_data, send_thread: a packet is announced after it was added *)
(* and taken after it was announced; dropping leaves wakeups without       *)
(* packets, never packets without a wakeup.                                *)
LEMMA NextServed ==
    ASSUME ServedInv, [Next]_vars
    PROVE  ServedInv'
<1>0. /\ packets \in Seq(Own) /\ send_sem \in Nat /\ k \in Nat /\ Len(packets) \in Nat
      /\ (~capturing => epc = "idle") /\ (Sending => send_sem + Posting >= Len(packets))
      /\ <<>> \in Seq(Own')
  BY DEF ServedInv
<1>1. CASE Connect
  <2>1. packets' = <<>> /\ send_sem' = 0 /\ k' = 0 /\ capturing' = TRUE /\ epc' = "idle"
    BY <1>1, <1>0 DEF Connect, FreePackets
  <2>. QED  BY <1>0, <2>1 DEF ServedInv, Posting
<1>2. ASSUME sessions' = sessions PROVE Own' = Own
  BY <1>2 DEF Own, Packet
<1>3. CASE Stop
  <2>1. UNCHANGED <<packets, k, capturing, epc, sessions>> /\ send_sem' \in {send_sem, send_sem + 1}
    BY <1>3 DEF Stop, encoder
  <2>2. Sending
    BY <1>3 DEF Stop, Sending
  <2>. QED  BY <1>0, <1>2, <2>1, <2>2 DEF ServedInv, Posting
<1>4. CASE EncodersStop \/ DataEnter \/ DataGone
  <2>1. UNCHANGED <<packets, send_sem, spc, sessions>> /\ k' \in {k, k + 1}
        /\ (~capturing' => epc' = "idle") /\ epc # "post" /\ epc' # "post"
    BY <1>4 DEF EncodersStop, DataEnter, DataGone, queue
  <2>2. Sending' = Sending /\ Posting' = 0 /\ Posting = 0
    BY <2>1 DEF Sending, Posting
  <2>. QED  BY <1>0, <1>2, <2>1, <2>2 DEF ServedInv
<1>5. CASE AddAudio
  <2>1. /\ packets' = Append(packets, Packet(k)) /\ k' = k + 1 /\ epc = "mutex" /\ epc' = "post"
        /\ UNCHANGED <<send_sem, spc, capturing, sessions>>
    BY <1>5 DEF AddAudio, Added
  <2>2. Packet(k) \in Own
    BY <1>0 DEF Own
  <2>3. capturing /\ Posting = 0 /\ Posting' = 1 /\ Sending' = Sending
    BY <1>0, <2>1 DEF Posting, Sending
  <2>. QED  BY <1>0, <1>2, <2>1, <2>2, <2>3 DEF ServedInv
<1>6. CASE AddVideo
  <2>1. PICK c : /\ c = IF dbr_enabled THEN [q |-> packets, min |-> min_priority]
                        ELSE Dropped([q |-> packets, min |-> min_priority])
                 /\ \/ packets' = c.q /\ epc' = "idle"
                    \/ packets' = Append([c EXCEPT !.min = 0].q, Packet(k)) /\ epc' = "post"
    BY <1>6, Zenon DEF AddVideo, Added
  <2>2. k' = k + 1 /\ epc = "mutex" /\ UNCHANGED <<send_sem, spc, capturing, sessions>>
    BY <1>6 DEF AddVideo
  <2>3. c.q \in Seq(Own) /\ Len(c.q) <= Len(packets) /\ Len(c.q) \in Nat
    <3>1. CASE dbr_enabled
      BY <1>0, <2>1, <3>1
    <3>2. CASE ~dbr_enabled
      <4>1. PICK d : d = [q |-> packets, min |-> min_priority]
        OBVIOUS
      <4>2. d.q = packets /\ d.q \in Seq(Own)
        BY <1>0, <4>1
      <4>3. Dropped(d).q \in Seq(Own) /\ Len(Dropped(d).q) <= Len(d.q)
        BY <4>2, DroppedIsPart
      <4>4. c = Dropped(d)
        BY <2>1, <3>2, <4>1, Zenon
      <4>. QED  BY <4>2, <4>3, <4>4
    <3>. QED  BY <3>1, <3>2
  <2>4. Packet(k) \in Own
    BY <1>0 DEF Own
  <2>5. capturing /\ Posting = 0 /\ Sending' = Sending
    BY <1>0, <2>2 DEF Posting, Sending
  <2>6. CASE packets' = c.q /\ epc' = "idle"
    <3>1. Posting' = 0
      BY <2>6 DEF Posting
    <3>. QED  BY <1>0, <1>2, <2>2, <2>3, <2>5, <2>6, <3>1 DEF ServedInv
  <2>7. CASE packets' = Append([c EXCEPT !.min = 0].q, Packet(k)) /\ epc' = "post"
    <3>1. Posting' = 1
      BY <2>7 DEF Posting
    <3>2. [c EXCEPT !.min = 0].q = c.q
      OBVIOUS
    <3>3. packets' \in Seq(Own) /\ Len(packets') = Len(c.q) + 1
      BY <2>3, <2>4, <2>7, <3>2
    <3>. QED  BY <1>0, <1>2, <2>2, <2>3, <2>5, <2>7, <3>1, <3>3 DEF ServedInv
  <2>. QED  BY <2>1, <2>6, <2>7
<1>7. CASE Post
  <2>1. /\ UNCHANGED <<packets, k, capturing, spc, sessions>> /\ send_sem' = send_sem + 1
        /\ epc = "post" /\ epc' = "idle"
    BY <1>7 DEF Post
  <2>2. Posting = 1 /\ Posting' = 0 /\ Sending' = Sending
    BY <2>1 DEF Posting, Sending
  <2>. QED  BY <1>0, <1>2, <2>1, <2>2 DEF ServedInv
<1>8. CASE WakeForNothing
  <2>1. /\ UNCHANGED <<packets, k, capturing, spc, epc, sessions>> /\ send_sem' = send_sem - 1
        /\ packets = <<>> /\ send_sem > 0
    BY <1>8 DEF WakeForNothing, SendStep, encoder
  <2>2. Posting' = Posting /\ Posting \in Nat
    BY <2>1 DEF Posting
  <2>. QED  BY <1>0, <1>2, <2>1, <2>2 DEF ServedInv
<1>9. CASE SendPacket
  <2>1. /\ UNCHANGED <<k, capturing, epc, sessions>> /\ send_sem' = send_sem - 1 /\ send_sem > 0
        /\ packets # <<>> /\ packets' = Tail(packets) /\ spc = "wait"
    BY <1>9 DEF SendPacket, SendStep, encoder
  <2>2. Posting' = Posting /\ Posting \in Nat /\ Sending
    BY <2>1 DEF Posting, Sending
  <2>3. packets' \in Seq(Own) /\ Len(packets') = Len(packets) - 1
    BY <1>0, <2>1
  <2>. QED  BY <1>0, <1>2, <2>1, <2>2, <2>3 DEF ServedInv
<1>10. CASE StopNow \/ StopAtPacket \/ Broken \/ Leave \/ FreeRest \/ GoInactive
  <2>1. /\ UNCHANGED <<k, capturing, epc, sessions>> /\ send_sem' \in {send_sem, send_sem - 1}
        /\ (send_sem' = send_sem - 1 => send_sem > 0)
        /\ spc' \in {"leaving", "free", "inactive", "down"}
    BY <1>0, <1>10 DEF StopNow, StopAtPacket, Broken, Leave, FreeRest, GoInactive, SendStep, encoder
  <2>2. packets' \in Seq(Own)
    <3>1. packets # <<>> => Tail(packets) \in Seq(Own)
      BY <1>0
    <3>2. packets' \in {packets, <<>>} \/ (packets # <<>> /\ packets' = Tail(packets))
      BY <1>10 DEF StopNow, StopAtPacket, Broken, Leave, FreeRest, FreePackets, GoInactive
    <3>3. <<>> \in Seq(Own)
      OBVIOUS
    <3>4. CASE packets' = packets
      BY <1>0, <3>4
    <3>5. CASE packets' = <<>>
      BY <3>3, <3>5
    <3>6. CASE packets # <<>> /\ packets' = Tail(packets)
      BY <3>1, <3>6
    <3>. QED  BY <3>2, <3>4, <3>5, <3>6, Zenon
  <2>3. send_sem' \in Nat /\ ~Sending'
    BY <1>0, <2>1 DEF Sending
  <2>. QED  BY <1>0, <1>2, <2>1, <2>2, <2>3 DEF ServedInv
<1>11. CASE Sent
  <2>1. /\ UNCHANGED <<packets, send_sem, k, capturing, epc, sessions>> /\ spc = "sending"
    BY <1>11 DEF Sent, SendStep, encoder
  <2>2. Sending /\ Posting' = Posting
    BY <2>1 DEF Sending, Posting
  <2>. QED  BY <1>0, <1>2, <2>1, <2>2 DEF ServedInv
<1>12. CASE UNCHANGED vars
  <2>1. UNCHANGED <<packets, send_sem, k, capturing, epc, spc, sessions>>
    BY <1>12 DEF vars, queue, encoder
  <2>2. Sending' = Sending /\ Posting' = Posting
    BY <2>1 DEF Sending, Posting
  <2>. QED  BY <1>0, <1>2, <2>1, <2>2 DEF ServedInv
<1>. QED  BY <1>1, <1>3, <1>4, <1>5, <1>6, <1>7, <1>8, <1>9, <1>10, <1>11, <1>12 DEF Next

(* send_thread: in every session, while any of the threads is at any point *)
(* of its work, the packets that wait are announced and belong to it.      *)
THEOREM PacketsAreServed == Spec => []QueueIsServed
<1>1. ASSUME ServedInv PROVE QueueIsServed
  <2>1. \A i \in DOMAIN packets : packets[i] \in Own
    BY <1>1 DEF ServedInv
  <2>. QED  BY <1>1, <2>1, OwnSession DEF ServedInv, QueueIsServed, NoStuckPacket, OwnPackets, Posting
<1>. QED  BY InitServed, NextServed, <1>1, PTL DEF Spec

-----------------------------------------------------------------------------
(* The packets of a session                                                *)

(* interleave_packets: each track has its place in a frame, and the audio  *)
(* the last one.                                                           *)
LEMMA SourcesAre ==
    /\ Sources \in Seq(VideoTracks \cup {Audio}) /\ Len(Sources) \in Nat \ {0}
    /\ Sources[Len(Sources)] = Audio /\ Audio \notin VideoTracks
    /\ \A i \in 1..Len(Sources) : i # Len(Sources) => Sources[i] \in VideoTracks
    /\ \A i, j \in 1..Len(Sources) : Sources[i] = Sources[j] => i = j
    /\ \A v \in VideoTracks : \E i \in 1..Len(Sources) - 1 : Sources[i] = v
<1> DEFINE n == Cardinality(VideoTracks)
<1> DEFINE seq == SetToSeq(VideoTracks)
<1>1. n \in Nat /\ ExistsBijection(1..n, VideoTracks)
  BY TracksAssumption, FS_CardinalityType
<1>2. PICK f \in Bijection(1..n, VideoTracks) : TRUE
  BY <1>1, Zenon DEF ExistsBijection
<1>3. f \in [1..n -> VideoTracks] /\ IsInjective(f)
  BY <1>2 DEF Bijection, Injection, Surjection, IsInjective
<1>4. seq \in [1..n -> VideoTracks] /\ IsInjective(seq)
  BY <1>3, Zenon DEF SetToSeq
<1>5. seq \in Surjection(1..n, VideoTracks)
  <2>1. seq \in Injection(1..n, VideoTracks)
    BY <1>4, Zenon DEF Injection
  <2>2. IsFiniteSet(1..n) /\ Cardinality(1..n) = n
    BY <1>1, FS_Interval
  <2>. QED  BY <2>1, <2>2, TracksAssumption, FS_Injection, Zenon
<1>6. \A v \in VideoTracks : \E i \in 1..n : seq[i] = v
  BY <1>5, Zenon DEF Surjection
<1>7. \A i, j \in 1..n : seq[i] = seq[j] => i = j
  BY <1>4, Zenon DEF IsInjective
<1> HIDE DEF seq, n
<1>8. Sources = seq \o <<Audio>>
  BY Zenon DEF Sources, seq
<1>9. \A v \in VideoTracks : v # Audio
  BY TracksAssumption DEF Audio
<1>10. seq \in Seq(VideoTracks \cup {Audio}) /\ Len(seq) = n
  BY <1>1, <1>4
<1>11. /\ Sources \in Seq(VideoTracks \cup {Audio}) /\ Len(Sources) = n + 1
       /\ \A i \in 1..n + 1 : Sources[i] = IF i = n + 1 THEN Audio ELSE seq[i]
  BY <1>1, <1>8, <1>10
<1>12. \A i \in 1..n + 1 : i # n + 1 => i \in 1..n /\ seq[i] \in VideoTracks
  BY <1>1, <1>4
<1>. QED
  <2>1. \A i, j \in 1..n + 1 : Sources[i] = Sources[j] => i = j
    BY <1>7, <1>9, <1>11, <1>12
  <2>2. \A v \in VideoTracks : \E i \in 1..n : Sources[i] = v
    <3>1. \A i \in 1..n : i \in 1..n + 1 /\ i # n + 1
      BY <1>1
    <3>. QED  BY <1>6, <1>11, <3>1
  <2>3. n + 1 \in Nat \ {0} /\ (n + 1) - 1 = n
    BY <1>1
  <2>. QED  BY <1>11, <1>12, <2>1, <2>2, <2>3

\* The place of a track in a frame, and the next of its frames, once i packets
\* were delivered.
Place == [v \in VideoTracks |-> CHOOSE j \in 1..Len(Sources) - 1 : Sources[j] = v]
NextOf(i) == [v \in VideoTracks |-> IF Place[v] <= i % Len(Sources) THEN Frame(i) + 1 ELSE Frame(i)]

(* Division by the number of sources, and what it gives for the next       *)
(* packet.                                                                 *)
LEMMA DivisionStep ==
    ASSUME NEW i \in Nat, NEW d \in Nat \ {0}
    PROVE  /\ i \div d \in Nat /\ i % d \in 0..d - 1
           /\ i % d = d - 1 => (i + 1) % d = 0 /\ (i + 1) \div d = (i \div d) + 1
           /\ i % d # d - 1 => (i + 1) % d = (i % d) + 1 /\ (i + 1) \div d = i \div d
<1>1. PICK q \in Nat, r \in 0..d - 1 : q = i \div d /\ r = i % d /\ i = d * q + r
  OBVIOUS
<1>2. PICK q2 \in Nat, r2 \in 0..d - 1 : q2 = (i + 1) \div d /\ r2 = (i + 1) % d /\ i + 1 = d * q2 + r2
  OBVIOUS
<1>3. r = d - 1 => r2 = 0 /\ q2 = q + 1
  <2> SUFFICES ASSUME r = d - 1 PROVE r2 = 0 /\ q2 = q + 1
    OBVIOUS
  <2>1. d * (q + 1) = d * q2 + r2
    BY <1>1, <1>2
  <2>. QED  BY <2>1
<1>4. r # d - 1 => r2 = r + 1 /\ q2 = q
  BY <1>1, <1>2
<1>. QED  BY <1>1, <1>2, <1>3, <1>4

(* interleave_packets: a packet takes its track to the next frame, and     *)
(* that of the audio all of them to the next round.                        *)
LEMMA NextPacket ==
    ASSUME NEW i \in Nat
    PROVE  LET src == Sources[(i % Len(Sources)) + 1]
           IN /\ src \in VideoTracks \cup {Audio} /\ Frame(i) \in Nat
              /\ NextOf(i) \in [VideoTracks -> Nat]
              /\ \A w \in VideoTracks : NextOf(i)[w] \in {Frame(i), Frame(i) + 1}
              /\ src = Audio => NextOf(i + 1) = NextOf(i)
              /\ src # Audio => /\ NextOf(i)[src] = Frame(i)
                               /\ NextOf(i + 1) = [NextOf(i) EXCEPT ![src] = Frame(i) + 1]
<1> DEFINE d == Len(Sources)
<1> DEFINE r == i % d
<1> DEFINE src == Sources[r + 1]
<1>1. d \in Nat \ {0} /\ r \in 0..d - 1 /\ Frame(i) \in Nat /\ Frame(i + 1) \in Nat
      /\ (r = d - 1 => (i + 1) % d = 0 /\ Frame(i + 1) = Frame(i) + 1)
      /\ (r # d - 1 => (i + 1) % d = r + 1 /\ Frame(i + 1) = Frame(i))
  <2>1. d \in Nat \ {0} /\ i + 1 \in Nat
    BY SourcesAre
  <2> HIDE DEF d
  <2>2. /\ i \div d \in Nat /\ i % d \in 0..d - 1 /\ (i + 1) \div d \in Nat
        /\ i % d = d - 1 => (i + 1) % d = 0 /\ (i + 1) \div d = (i \div d) + 1
        /\ i % d # d - 1 => (i + 1) % d = (i % d) + 1 /\ (i + 1) \div d = i \div d
    BY <2>1, DivisionStep
  <2>. QED  BY <2>1, <2>2, Zenon DEF Frame, d
<1>2. \A v \in VideoTracks : Place[v] \in 1..d - 1 /\ Sources[Place[v]] = v
  <2>1. \A v \in VideoTracks : \E j \in 1..d - 1 : Sources[j] = v
    BY SourcesAre
  <2>. QED  BY <2>1, Zenon DEF Place
<1>3. /\ NextOf(i) = [v \in VideoTracks |-> IF Place[v] <= r THEN Frame(i) + 1 ELSE Frame(i)]
      /\ NextOf(i + 1) = [v \in VideoTracks |->
                            IF Place[v] <= (i + 1) % d THEN Frame(i + 1) + 1 ELSE Frame(i + 1)]
  BY Zenon DEF NextOf
<1>4. r + 1 \in 1..d /\ src \in VideoTracks \cup {Audio}
      /\ (r + 1 = d <=> src = Audio)
  <2>1. r + 1 \in 1..d
    BY <1>1
  <2> HIDE DEF r
  <2>. QED  BY <2>1, SourcesAre
<1>5. /\ NextOf(i) \in [VideoTracks -> Nat]
      /\ \A w \in VideoTracks : NextOf(i)[w] \in {Frame(i), Frame(i) + 1}
  BY <1>1, <1>3
<1>6. CASE src = Audio
  <2>1. r = d - 1 /\ (i + 1) % d = 0 /\ Frame(i + 1) = Frame(i) + 1
    BY <1>1, <1>4, <1>6
  <2> HIDE DEF r, d
  <2>2. \A v \in VideoTracks :
           (IF Place[v] <= r THEN Frame(i) + 1 ELSE Frame(i)) =
           (IF Place[v] <= (i + 1) % d THEN Frame(i + 1) + 1 ELSE Frame(i + 1))
    BY <1>1, <1>2, <2>1
  <2>3. NextOf(i + 1) = NextOf(i)
    BY <1>3, <2>2, Zenon
  <2>. QED  BY <1>1, <1>4, <1>5, <1>6, <2>3, Zenon DEF r, d
<1>7. CASE src # Audio
  <2>1. r # d - 1 /\ (i + 1) % d = r + 1 /\ Frame(i + 1) = Frame(i) /\ src \in VideoTracks
    BY <1>1, <1>4, <1>7
  <2>2. Place[src] = r + 1
    <3>1. Place[src] \in 1..d /\ Sources[Place[src]] = src
      BY <1>1, <1>2, <2>1
    <3> HIDE DEF r
    <3>. QED  BY <1>4, <3>1, SourcesAre
  <2>3. ASSUME NEW v \in VideoTracks, v # src PROVE Place[v] # r + 1
    <3>1. Sources[Place[v]] = v
      BY <1>2
    <3>. QED  BY <2>3, <3>1, Zenon DEF src
  <2> HIDE DEF r, d, src
  <2>4. NextOf(i)[src] = Frame(i)
    BY <1>1, <1>3, <2>1, <2>2
  <2>5. \A v \in VideoTracks :
           (IF Place[v] <= (i + 1) % d THEN Frame(i + 1) + 1 ELSE Frame(i + 1)) =
           [NextOf(i) EXCEPT ![src] = Frame(i) + 1][v]
    BY <1>1, <1>2, <1>3, <2>1, <2>2, <2>3
  <2>6. NextOf(i + 1) = [NextOf(i) EXCEPT ![src] = Frame(i) + 1]
    <3>1. [NextOf(i) EXCEPT ![src] = Frame(i) + 1] =
             [v \in VideoTracks |-> [NextOf(i) EXCEPT ![src] = Frame(i) + 1][v]]
      BY <1>5
    <3>. QED  BY <1>3, <2>5, <3>1, Zenon
  <2>. QED  BY <1>1, <1>4, <1>5, <1>7, <2>4, <2>6, Zenon DEF r, d, src
<1>. QED  BY <1>6, <1>7

(* obs_parse_avc_packet: a frame has one of three kinds, and the first one *)
(* of a stream is a keyframe.                                              *)
LEMMA KindIs ==
    ASSUME NEW v \in VideoTracks
    PROVE  Kind(v, 0) = "key" /\ \A n \in Nat : Kind(v, n) \in {"key", "p", "b"}
<1>1. PICK s \in Seq({"key", "p", "b"}) : s = Pattern[v] /\ s # <<>> /\ s[1] = "key"
  BY PatternAssumption
<1>2. Len(s) \in Nat \ {0}
  BY <1>1
<1>3. \A n \in Nat : Kind(v, n) = s[(n % Len(s)) + 1]
  BY <1>1, Zenon DEF Kind
<1>4. \A n \in Nat : (n % Len(s)) + 1 \in 1..Len(s)
  BY <1>2
<1>5. (0 % Len(s)) + 1 = 1 /\ 0 \in Nat
  BY <1>2
<1>6. Kind(v, 0) = "key"
  BY <1>1, <1>3, <1>5, Zenon
<1>7. \A i \in 1..Len(s) : s[i] \in {"key", "p", "b"}
  BY <1>1
<1>. QED  BY <1>3, <1>4, <1>6, <1>7, Zenon

\* Frame m is the one that frame n of a track is predicted from.
IsReference(v, n, m) == m \in 0..n - 1 /\ Kind(v, m) # "b" /\ \A l \in m + 1..n - 1 : Kind(v, l) = "b"

(* Every frame but the first one is predicted from exactly one.            *)
LEMMA ReferenceIs ==
    ASSUME NEW v \in VideoTracks, NEW n \in Nat, n # 0
    PROVE  /\ IsReference(v, n, ReferenceOf(v, n))
           /\ \A m : IsReference(v, n, m) => m = ReferenceOf(v, n)
<1> DEFINE s == {l \in 1..n : Kind(v, l - 1) # "b"}
<1>1. 1 \in s
  BY KindIs
<1>2. Max(s) \in s /\ \A y \in s : y <= Max(s)
  <2>1. s \in SUBSET (1..n) /\ s # {}
    BY <1>1
  <2> HIDE DEF s
  <2>. QED  BY <2>1, MaxInSet
<1>3. Max(s) \in Nat /\ \A l \in s : l <= Max(s)
  BY <1>2
<1> DEFINE r == Max(s) - 1
<1>4. IsReference(v, n, r)
  <2>1. r \in 0..n - 1 /\ Kind(v, r) # "b" /\ r + 1 = Max(s)
    BY <1>2
  <2>2. ASSUME NEW l \in r + 1..n - 1 PROVE Kind(v, l) = "b"
    <3>1. l + 1 \in 1..n /\ (l + 1) - 1 = l /\ ~(l + 1 <= Max(s))
      BY <2>1, <1>2
    <3>2. l + 1 \notin s
      BY <1>3, <3>1
    <3>. QED  BY <3>1, <3>2
  <2> HIDE DEF r
  <2>. QED  BY <2>1, <2>2 DEF IsReference
<1>5. ASSUME NEW a, NEW b, IsReference(v, n, a), IsReference(v, n, b) PROVE a = b
  <2>1. a \in 0..n - 1 /\ b \in 0..n - 1
    BY <1>5 DEF IsReference
  <2>2. ~(a < b) /\ ~(b < a)
    <3>1. a < b => b \in a + 1..n - 1
      BY <2>1
    <3>2. b < a => a \in b + 1..n - 1
      BY <2>1
    <3>. QED  BY <3>1, <3>2, <1>5 DEF IsReference
  <2>. QED  BY <2>1, <2>2
<1>6. IsReference(v, n, ReferenceOf(v, n))
  <2>1. \E m \in 0..n - 1 : Kind(v, m) # "b" /\ \A l \in m + 1..n - 1 : Kind(v, l) = "b"
    <3> HIDE DEF r
    <3>. QED  BY <1>4 DEF IsReference
  <2>. QED  BY <2>1, Zenon DEF ReferenceOf, IsReference
<1>. QED  BY <1>5, <1>6, Zenon

(* What the frame after frame n is predicted from.                         *)
LEMMA ReferenceStep ==
    ASSUME NEW v \in VideoTracks, NEW n \in Nat, NEW m, IsReference(v, n + 1, m)
    PROVE  /\ m \in Nat
           /\ (m = n /\ Kind(v, n) # "b") \/ (Kind(v, n) = "b" /\ IsReference(v, n, m))
<1>1. m \in 0..(n + 1) - 1 /\ Kind(v, m) # "b" /\ \A l \in m + 1..(n + 1) - 1 : Kind(v, l) = "b"
  BY DEF IsReference
<1>2. CASE m = n
  BY <1>1, <1>2
<1>3. CASE m # n
  <2>1. m \in 0..n - 1 /\ n \in m + 1..(n + 1) - 1 /\ \A l \in m + 1..n - 1 : l \in m + 1..(n + 1) - 1
    BY <1>1, <1>3
  <2>. QED  BY <1>1, <2>1 DEF IsReference
<1>. QED  BY <1>2, <1>3

-----------------------------------------------------------------------------
(* What a queue keeps decodable                                            *)

Frames ==
    {p \in [track : VideoTracks \cup {Audio}, ts : Nat, kind : {"key", "p", "b"},
            drop_priority : {0, 2, 3}, session : Nat] :
        p.drop_priority = Priority[p.kind] /\ (IsVideo(p) => p.kind = Kind(p.track, p.ts))}

\* Frame m of track v waits in the queue q, or it is the last one sent of those
\* that others are predicted from.
Alive(q, ref, v, m) == ref[v] = m \/ \E i \in DOMAIN q : q[i].track = v /\ q[i].ts = m

\* A queue q, with the priority min that frames are dropped below, after which
\* the tracks go on with the frames next: the frames of a track are in order.
InSequence(q, ref, next) ==
    /\ \A i \in DOMAIN q : IsVideo(q[i]) => ref[q[i].track] < q[i].ts /\ q[i].ts < next[q[i].track]
    /\ \A i, j \in DOMAIN q : i < j /\ IsVideo(q[i]) /\ q[j].track = q[i].track => q[i].ts < q[j].ts
    /\ \A v \in VideoTracks :
          ref[v] = -1 \/ (ref[v] \in Nat /\ ref[v] < next[v] /\ Kind(v, ref[v]) # "b")

\* The frames in the queue have what they are predicted from.
QueueFollows(q, ref) ==
    \A i \in DOMAIN q : IsVideo(q[i]) /\ q[i].kind # "key" =>
        \A m : IsReference(q[i].track, q[i].ts, m) => Alive(q, ref, q[i].track, m)

\* The next one has it too, or it will be dropped: no keyframe is lost, and what is
\* dropped below the keyframes holds until the next of them.
NextFollows(q, min, ref, next) ==
    \A v \in VideoTracks : \A m : IsReference(v, next[v], m) =>
        \/ Alive(q, ref, v, m)
        \/ Kind(v, m) # "key" /\ (min = 3 \/ Kind(v, next[v]) = "key")

QueueTypes(q, min, ref, next) ==
    /\ q \in Seq(Frames) /\ min \in {0, 2, 3}
    /\ ref \in [VideoTracks -> Int] /\ next \in [VideoTracks -> Nat]

Follows(q, min, ref, next) ==
    /\ QueueTypes(q, min, ref, next) /\ InSequence(q, ref, next)
    /\ QueueFollows(q, ref) /\ NextFollows(q, min, ref, next)

\* The frames of an encoder group: the keyframes of all tracks at the same time.
KeyframesTogether ==
    \A v, w \in VideoTracks, n \in Nat : Kind(v, n) = "key" <=> Kind(w, n) = "key"

(* A frame in the queue is what its place in the track says.               *)
LEMMA FrameIs ==
    ASSUME NEW p \in Frames
    PROVE  /\ p.track \in VideoTracks \cup {Audio} /\ p.ts \in Nat /\ p.kind \in {"key", "p", "b"}
           /\ p.drop_priority = IF p.kind = "key" THEN 3 ELSE IF p.kind = "p" THEN 2 ELSE 0
           /\ IsVideo(p) => p.track \in VideoTracks /\ p.kind = Kind(p.track, p.ts)
<1>1. p.track \in VideoTracks \cup {Audio} /\ p.ts \in Nat /\ p.kind \in {"key", "p", "b"}
  BY DEF Frames
<1>2. p.drop_priority = Priority[p.kind] /\ (IsVideo(p) => p.kind = Kind(p.track, p.ts))
  BY DEF Frames
<1>. QED  BY <1>1, <1>2 DEF Priority, IsVideo

(* get_next_packet: the first packet of the queue goes out.                *)
LEMMA SentFollows ==
    ASSUME NEW q, NEW min, NEW ref, NEW next, Follows(q, min, ref, next), q # <<>>,
           NEW ref2, ref2 = IF IsVideo(Head(q)) /\ Head(q).kind # "b"
                            THEN [ref EXCEPT ![Head(q).track] = Head(q).ts] ELSE ref
    PROVE  Follows(Tail(q), min, ref2, next)
<1> DEFINE p == Head(q)
<1> DEFINE rest == Tail(q)
<1>0. /\ q \in Seq(Frames) /\ min \in {0, 2, 3}
      /\ ref \in [VideoTracks -> Int] /\ next \in [VideoTracks -> Nat]
  BY Zenon DEF Follows, QueueTypes
<1>1. /\ rest \in Seq(Frames) /\ p \in Frames /\ p = q[1] /\ 1 \in DOMAIN q
      /\ \A i \in DOMAIN rest : i + 1 \in DOMAIN q /\ rest[i] = q[i + 1] /\ i \in Nat \ {0}
      /\ \A i \in DOMAIN q : i \in Nat \ {0} /\ (i = 1 \/ (i - 1 \in DOMAIN rest /\ rest[i - 1] = q[i]))
  BY <1>0
<1>2. IsVideo(p) => p.track \in VideoTracks
  BY <1>1, FrameIs
<1>3. ref2 \in [VideoTracks -> Int] /\ \A v \in VideoTracks :
        ref2[v] = IF v = p.track /\ p.kind # "b" THEN p.ts ELSE ref[v]
  <2>1. p.ts \in Int
    BY <1>1, FrameIs
  <2>2. \A v \in VideoTracks : v = p.track => IsVideo(p)
    BY SourcesAre DEF IsVideo
  <2> HIDE DEF p
  <2>. QED  BY <1>0, <1>2, <2>1, <2>2 DEF p
<1>4. /\ \A i \in DOMAIN q : IsVideo(q[i]) => ref[q[i].track] < q[i].ts /\ q[i].ts < next[q[i].track]
      /\ \A i, j \in DOMAIN q : i < j /\ IsVideo(q[i]) /\ q[j].track = q[i].track => q[i].ts < q[j].ts
      /\ \A v \in VideoTracks :
            ref[v] = -1 \/ (ref[v] \in Nat /\ ref[v] < next[v] /\ Kind(v, ref[v]) # "b")
  BY Zenon DEF Follows, InSequence
<1>5. \A v \in VideoTracks : v = p.track => IsVideo(p) /\ p.kind = Kind(v, p.ts) /\ p.ts \in Nat
                                            /\ ref[v] < p.ts /\ p.ts < next[v]
  <2>1. \A v \in VideoTracks : v = p.track => IsVideo(p)
    BY SourcesAre DEF IsVideo
  <2>. QED  BY <1>1, <1>4, <2>1, FrameIs
<1> HIDE DEF p, rest
<1>a. ASSUME NEW i \in DOMAIN q, 1 < i, q[i].track \in VideoTracks, q[i].track = p.track
      PROVE  p.ts < q[i].ts
  <2>1. IsVideo(q[1]) /\ q[i].track = q[1].track
    BY <1>1, <1>5, <1>a, Zenon
  <2>2. q[1].ts < q[i].ts
    BY <1>1, <1>4, <1>a, <2>1, Zenon
  <2>. QED  BY <1>1, <2>2, Zenon
<1>6. InSequence(rest, ref2, next)
  <2>1. ASSUME NEW i \in DOMAIN rest, IsVideo(rest[i])
        PROVE  ref2[rest[i].track] < rest[i].ts /\ rest[i].ts < next[rest[i].track]
    <3>1. rest[i] = q[i + 1] /\ i + 1 \in DOMAIN q /\ 1 < i + 1 /\ rest[i] \in Frames
      BY <1>1
    <3>2. rest[i].track \in VideoTracks
      BY <2>1, <3>1, FrameIs
    <3>3. ref[rest[i].track] < rest[i].ts /\ rest[i].ts < next[rest[i].track]
      BY <1>4, <2>1, <3>1, Zenon
    <3>4. rest[i].track = p.track => p.ts < rest[i].ts
      BY <1>a, <3>1, <3>2, Zenon
    <3>. QED  BY <1>3, <3>2, <3>3, <3>4
  <2>2. ASSUME NEW i \in DOMAIN rest, NEW j \in DOMAIN rest, i < j, IsVideo(rest[i]),
               rest[j].track = rest[i].track
        PROVE  rest[i].ts < rest[j].ts
    <3>1. /\ i + 1 < j + 1 /\ i + 1 \in DOMAIN q /\ j + 1 \in DOMAIN q
          /\ rest[i] = q[i + 1] /\ rest[j] = q[j + 1]
      BY <1>1, <2>2
    <3>2. IsVideo(q[i + 1]) /\ q[j + 1].track = q[i + 1].track
      BY <2>2, <3>1, Zenon
    <3>3. q[i + 1].ts < q[j + 1].ts
      BY <1>4, <3>1, <3>2, Zenon
    <3>. QED  BY <3>1, <3>3, Zenon
  <2>3. ASSUME NEW v \in VideoTracks
        PROVE  ref2[v] = -1 \/ (ref2[v] \in Nat /\ ref2[v] < next[v] /\ Kind(v, ref2[v]) # "b")
    BY <1>3, <1>4, <1>5, Zenon
  <2>. QED  BY <2>1, <2>2, <2>3, Zenon DEF InSequence
<1>7. ASSUME NEW v \in VideoTracks, NEW n \in Nat, NEW m, IsReference(v, n, m), Alive(q, ref, v, m),
             v = p.track => p.ts < n
      PROVE  Alive(rest, ref2, v, m)
  <2>0. m \in 0..n - 1 /\ Kind(v, m) # "b" /\ \A l \in m + 1..n - 1 : Kind(v, l) = "b"
    BY <1>7, Zenon DEF IsReference
  <2>1. CASE ref[v] = m
    <3>1. CASE v = p.track /\ p.kind # "b"
      <4>1. p.ts \in m + 1..n - 1 /\ Kind(v, p.ts) # "b"
        BY <1>5, <1>7, <2>0, <2>1, <3>1
      <4>. QED  BY <2>0, <4>1
    <3>2. CASE ~(v = p.track /\ p.kind # "b")
      <4>1. ref2[v] = m
        BY <1>3, <2>1, <3>2
      <4>. QED  BY <4>1, Zenon DEF Alive
    <3>. QED  BY <3>1, <3>2
  <2>2. CASE \E i \in DOMAIN q : q[i].track = v /\ q[i].ts = m
    <3>1. PICK i \in DOMAIN q : q[i].track = v /\ q[i].ts = m
      BY <2>2, Zenon
    <3>2. CASE i = 1
      <4>1. v = p.track /\ p.ts = m
        BY <1>1, <3>1, <3>2, Zenon
      <4>2. p.kind # "b"
        BY <1>5, <2>0, <4>1, Zenon
      <4>3. ref2[v] = m
        BY <1>3, <4>1, <4>2, Zenon
      <4>. QED  BY <4>3, Zenon DEF Alive
    <3>3. CASE i # 1
      <4>1. i - 1 \in DOMAIN rest /\ rest[i - 1] = q[i]
        BY <1>1, <3>3, Zenon
      <4>. QED  BY <3>1, <4>1, Zenon DEF Alive
    <3>. QED  BY <3>2, <3>3
  <2>. QED  BY <1>7, <2>1, <2>2, Zenon DEF Alive
<1>8. QueueFollows(rest, ref2)
  <2> SUFFICES ASSUME NEW i \in DOMAIN rest, IsVideo(rest[i]), rest[i].kind # "key",
                      NEW m, IsReference(rest[i].track, rest[i].ts, m)
               PROVE  Alive(rest, ref2, rest[i].track, m)
    BY Zenon DEF QueueFollows
  <2>1. rest[i] = q[i + 1] /\ i + 1 \in DOMAIN q /\ 1 < i + 1 /\ rest[i] \in Frames
    BY <1>1
  <2>2. rest[i].track \in VideoTracks /\ rest[i].ts \in Nat
    BY <2>1, FrameIs
  <2>3. rest[i].track = p.track => p.ts < rest[i].ts
    BY <1>a, <2>1, <2>2, Zenon
  <2>4. Alive(q, ref, rest[i].track, m)
    BY <2>1, Zenon DEF Follows, QueueFollows
  <2>. QED  BY <1>7, <2>2, <2>3, <2>4, Zenon
<1>9. NextFollows(rest, min, ref2, next)
  <2> SUFFICES ASSUME NEW v \in VideoTracks, NEW m, IsReference(v, next[v], m)
               PROVE  \/ Alive(rest, ref2, v, m)
                      \/ Kind(v, m) # "key" /\ (min = 3 \/ Kind(v, next[v]) = "key")
    BY Zenon DEF NextFollows
  <2>1. next[v] \in Nat /\ (v = p.track => p.ts < next[v])
    BY <1>0, <1>5
  <2>2. Alive(q, ref, v, m) => Alive(rest, ref2, v, m)
    BY <1>7, <2>1, Zenon
  <2>. QED  BY <2>2, Zenon DEF Follows, NextFollows
<1>. QED  BY <1>0, <1>1, <1>3, <1>6, <1>8, <1>9, Zenon DEF Follows, QueueTypes, rest

-----------------------------------------------------------------------------
(* Dropping, adding and skipping keep the queue decodable                  *)

(* drop_frames: when frames are dropped below a priority, what is left has *)
(* what it is predicted from, and what comes next will be dropped too if   *)
(* it has not.                                                             *)
LEMMA KeptFollows ==
    ASSUME NEW q, NEW min, NEW ref, NEW next, Follows(q, min, ref, next),
           NEW priority \in {2, 3}, NEW min2 \in {0, 2, 3}, min2 >= min, min2 >= priority
    PROVE  Follows(Kept(q, priority), min2, ref, next)
<1> DEFINE new == Kept(q, priority)
<1>0. /\ q \in Seq(Frames) /\ min \in {0, 2, 3}
      /\ ref \in [VideoTracks -> Int] /\ next \in [VideoTracks -> Nat]
  BY Zenon DEF Follows, QueueTypes
<1>1. DOMAIN q = 1..Len(q) /\ \A i \in DOMAIN q : q[i] \in Frames
  BY <1>0
<1>2. /\ \A a \in DOMAIN new : \E i \in DOMAIN q : new[a] = q[i] /\ Stays(q[i], priority)
      /\ \A a, b \in DOMAIN new : a < b =>
            \E i, j \in DOMAIN q : i < j /\ new[a] = q[i] /\ new[b] = q[j]
      /\ \A i \in DOMAIN q : Stays(q[i], priority) => \E a \in DOMAIN new : new[a] = q[i]
  <2>1. IsKept(new, q, Len(q), priority)
    BY <1>0, KeptInOrder
  <2> HIDE DEF new
  <2>2. KeptOf(new, q, Len(q), priority) /\ KeptOrder(new, q, Len(q)) /\ KeptAll(new, q, Len(q), priority)
    BY <2>1, Zenon DEF IsKept
  <2>3. \A a \in DOMAIN new : \E i \in DOMAIN q : new[a] = q[i] /\ Stays(q[i], priority)
    BY <1>1, <2>2, Zenon DEF KeptOf
  <2>4. \A a, b \in DOMAIN new : a < b =>
            \E i, j \in DOMAIN q : i < j /\ new[a] = q[i] /\ new[b] = q[j]
    <3> SUFFICES ASSUME NEW a \in DOMAIN new, NEW b \in DOMAIN new, a < b
                 PROVE  \E i, j \in DOMAIN q : i < j /\ new[a] = q[i] /\ new[b] = q[j]
      BY Zenon
    <3>1. PICK i \in 1..Len(q), j \in 1..Len(q) : i < j /\ new[a] = q[i] /\ new[b] = q[j]
      BY <2>2, Zenon DEF KeptOrder
    <3>2. i \in DOMAIN q /\ j \in DOMAIN q
      BY <1>1, <3>1, Zenon
    <3>. QED  BY <3>1, <3>2, Zenon
  <2>5. \A i \in DOMAIN q : Stays(q[i], priority) => \E a \in DOMAIN new : new[a] = q[i]
    BY <1>1, <2>2, Zenon DEF KeptAll
  <2>. QED  BY <2>3, <2>4, <2>5, Zenon
<1>3. new \in Seq(Frames)
  BY <1>0, KeptIsPart
<1>4. /\ \A i \in DOMAIN q : IsVideo(q[i]) => ref[q[i].track] < q[i].ts /\ q[i].ts < next[q[i].track]
      /\ \A i, j \in DOMAIN q : i < j /\ IsVideo(q[i]) /\ q[j].track = q[i].track => q[i].ts < q[j].ts
      /\ \A v \in VideoTracks :
            ref[v] = -1 \/ (ref[v] \in Nat /\ ref[v] < next[v] /\ Kind(v, ref[v]) # "b")
  BY Zenon DEF Follows, InSequence
<1> HIDE DEF new
<1>5. InSequence(new, ref, next)
  <2>1. \A a \in DOMAIN new : IsVideo(new[a]) => ref[new[a].track] < new[a].ts /\ new[a].ts < next[new[a].track]
    BY <1>2, <1>4, Zenon
  <2>2. ASSUME NEW a \in DOMAIN new, NEW b \in DOMAIN new, a < b, IsVideo(new[a]), new[b].track = new[a].track
        PROVE  new[a].ts < new[b].ts
    <3>1. PICK i \in DOMAIN q, j \in DOMAIN q : i < j /\ new[a] = q[i] /\ new[b] = q[j]
      BY <1>2, <2>2, Zenon
    <3>2. IsVideo(q[i]) /\ q[j].track = q[i].track
      BY <2>2, <3>1, Zenon
    <3>3. q[i].ts < q[j].ts
      BY <1>4, <3>1, <3>2, Zenon
    <3>. QED  BY <3>1, <3>3, Zenon
  <2>. QED  BY <1>4, <2>1, <2>2, Zenon DEF InSequence
\* Of what others are predicted from, nothing is lost but frames that are no keyframes.
<1>6. ASSUME NEW v \in VideoTracks, NEW n \in Nat, NEW m, IsReference(v, n, m), Alive(q, ref, v, m)
      PROVE  Alive(new, ref, v, m) \/ (priority = 3 /\ Kind(v, m) # "key")
  <2>1. CASE ref[v] = m
    BY <2>1, Zenon DEF Alive
  <2>2. CASE \E i \in DOMAIN q : q[i].track = v /\ q[i].ts = m
    <3>1. PICK i \in DOMAIN q : q[i].track = v /\ q[i].ts = m
      BY <2>2, Zenon
    <3>2. IsVideo(q[i]) /\ q[i].kind = Kind(v, m) /\ q[i] \in Frames
      <4>1. IsVideo(q[i])
        BY <3>1, SourcesAre DEF IsVideo
      <4>. QED  BY <1>1, <3>1, <4>1, FrameIs, Zenon
    <3>3. Kind(v, m) # "b"
      BY <1>6, Zenon DEF IsReference
    <3>4. CASE Stays(q[i], priority)
      <4>1. \E a \in DOMAIN new : new[a] = q[i]
        BY <1>2, <3>4, Zenon
      <4>. QED  BY <3>1, <4>1, Zenon DEF Alive
    <3>5. CASE ~Stays(q[i], priority)
      <4>1. ~(q[i].drop_priority >= priority)
        BY <3>5, Zenon DEF Stays
      <4>2. /\ q[i].drop_priority = IF q[i].kind = "key" THEN 3 ELSE IF q[i].kind = "p" THEN 2 ELSE 0
            /\ q[i].kind \in {"key", "p", "b"}
        BY <3>2, FrameIs
      <4>. QED  BY <3>2, <3>3, <4>1, <4>2
    <3>. QED  BY <3>4, <3>5
  <2>. QED  BY <1>6, <2>1, <2>2, Zenon DEF Alive
<1>7. QueueFollows(new, ref)
  <2> SUFFICES ASSUME NEW a \in DOMAIN new, IsVideo(new[a]), new[a].kind # "key",
                      NEW m, IsReference(new[a].track, new[a].ts, m)
               PROVE  Alive(new, ref, new[a].track, m)
    BY Zenon DEF QueueFollows
  <2>1. PICK i \in DOMAIN q : new[a] = q[i] /\ Stays(q[i], priority)
    BY <1>2, Zenon
  <2>a. IsVideo(q[i]) /\ q[i].kind # "key"
    BY <2>1, Zenon
  <2>b. IsReference(q[i].track, q[i].ts, m)
    BY <2>1, Zenon
  <2>2. q[i] \in Frames /\ IsVideo(q[i]) /\ q[i].kind # "key" /\ IsReference(q[i].track, q[i].ts, m)
    BY <1>1, <2>a, <2>b, Zenon
  <2>3. q[i].track \in VideoTracks /\ q[i].ts \in Nat
    BY <2>2, FrameIs
  <2>4. Alive(q, ref, q[i].track, m)
    BY <2>1, <2>2, Zenon DEF Follows, QueueFollows
  <2>5. priority # 3
    <3>1. q[i].drop_priority >= priority
      BY <2>1, <2>2, Zenon DEF Stays
    <3>2. q[i].drop_priority \in {0, 2}
      BY <2>2, FrameIs
    <3>. QED  BY <3>1, <3>2
  <2>6. Alive(new, ref, q[i].track, m)
    BY <1>6, <2>2, <2>3, <2>4, <2>5, Zenon
  <2>. QED  BY <2>1, <2>6, Zenon
<1>8. NextFollows(new, min2, ref, next)
  <2> SUFFICES ASSUME NEW v \in VideoTracks, NEW m, IsReference(v, next[v], m)
               PROVE  \/ Alive(new, ref, v, m)
                      \/ Kind(v, m) # "key" /\ (min2 = 3 \/ Kind(v, next[v]) = "key")
    BY Zenon DEF NextFollows
  <2>1. priority = 3 => min2 = 3
    OBVIOUS
  <2>2. min = 3 => min2 = 3
    OBVIOUS
  <2>3. next[v] \in Nat
    BY <1>0
  <2>4. Alive(q, ref, v, m) => Alive(new, ref, v, m) \/ (priority = 3 /\ Kind(v, m) # "key")
    BY <1>6, <2>3, Zenon
  <2>5. Alive(q, ref, v, m) \/ (Kind(v, m) # "key" /\ (min = 3 \/ Kind(v, next[v]) = "key"))
    BY Zenon DEF Follows, NextFollows
  <2>. QED  BY <2>1, <2>2, <2>4, <2>5, Zenon
<1>. QED  BY <1>0, <1>3, <1>5, <1>7, <1>8, Zenon DEF Follows, QueueTypes, new

(* add_video_packet: a frame of at least the priority, with what it is     *)
(* predicted from; a keyframe ends the dropping for all tracks.            *)
LEMMA AppendFollows ==
    ASSUME NEW q, NEW min, NEW ref, NEW next, Follows(q, min, ref, next), KeyframesTogether,
           NEW p \in Frames, IsVideo(p), p.ts = next[p.track], p.drop_priority >= min,
           \A w \in VideoTracks : next[w] \in {p.ts, p.ts + 1},
           NEW next2, next2 = [next EXCEPT ![p.track] = p.ts + 1]
    PROVE  Follows(Append(q, p), 0, ref, next2)
<1> DEFINE new == Append(q, p)
<1> DEFINE v == p.track
<1> DEFINE n == p.ts
<1>0. /\ q \in Seq(Frames) /\ min \in {0, 2, 3}
      /\ ref \in [VideoTracks -> Int] /\ next \in [VideoTracks -> Nat]
  BY Zenon DEF Follows, QueueTypes
<1>1. v \in VideoTracks /\ n \in Nat /\ p.kind = Kind(v, n) /\ p.kind \in {"key", "p", "b"}
      /\ (min = 3 => p.kind = "key") /\ (p.kind = "b" => min = 0)
  BY <1>0, FrameIs
<1>2. next2 \in [VideoTracks -> Nat] /\ next2[v] = n + 1 /\ next[v] = n
      /\ \A w \in VideoTracks : w # v => next2[w] = next[w]
  BY <1>0, <1>1
<1>3. /\ new \in Seq(Frames) /\ DOMAIN q = 1..Len(q) /\ DOMAIN new = 1..Len(q) + 1 /\ Len(q) \in Nat
      /\ \A i \in DOMAIN new : (i \in DOMAIN q /\ new[i] = q[i]) \/ (i = Len(q) + 1 /\ new[i] = p)
      /\ \A i \in DOMAIN q : i \in DOMAIN new /\ new[i] = q[i]
      /\ Len(q) + 1 \in DOMAIN new /\ new[Len(q) + 1] = p
      /\ \A i \in DOMAIN q : q[i] \in Frames
  BY <1>0
<1>4. /\ \A i \in DOMAIN q : IsVideo(q[i]) => ref[q[i].track] < q[i].ts /\ q[i].ts < next[q[i].track]
      /\ \A i, j \in DOMAIN q : i < j /\ IsVideo(q[i]) /\ q[j].track = q[i].track => q[i].ts < q[j].ts
      /\ \A w \in VideoTracks :
            ref[w] = -1 \/ (ref[w] \in Nat /\ ref[w] < next[w] /\ Kind(w, ref[w]) # "b")
  BY Zenon DEF Follows, InSequence
<1> HIDE DEF new, v, n
<1>5. InSequence(new, ref, next2)
  <2>1. ASSUME NEW i \in DOMAIN new, IsVideo(new[i])
        PROVE  ref[new[i].track] < new[i].ts /\ new[i].ts < next2[new[i].track]
    <3>1. CASE i \in DOMAIN q /\ new[i] = q[i]
      <4>1. q[i].track \in VideoTracks /\ q[i].ts \in Nat
        BY <1>3, <2>1, <3>1, FrameIs
      <4>2. ref[q[i].track] < q[i].ts /\ q[i].ts < next[q[i].track]
        BY <1>4, <2>1, <3>1, Zenon
      <4>3. q[i].ts < next2[q[i].track]
        <5>1. CASE q[i].track = v
          BY <1>1, <1>2, <4>1, <4>2, <5>1
        <5>2. CASE q[i].track # v
          BY <1>2, <4>1, <4>2, <5>2, Zenon
        <5>. QED  BY <5>1, <5>2
      <4>. QED  BY <3>1, <4>2, <4>3, Zenon
    <3>2. CASE new[i] = p
      <4>1. ref[v] < n
        BY <1>0, <1>1, <1>2, <1>4
      <4>2. n < next2[v]
        BY <1>1, <1>2
      <4>. QED  BY <3>2, <4>1, <4>2, Zenon DEF v, n
    <3>. QED  BY <1>3, <3>1, <3>2, Zenon
  <2>2. ASSUME NEW i \in DOMAIN new, NEW j \in DOMAIN new, i < j, IsVideo(new[i]), new[j].track = new[i].track
        PROVE  new[i].ts < new[j].ts
    <3>1. i \in DOMAIN q /\ new[i] = q[i]
      BY <1>3, <2>2
    <3>2. CASE j \in DOMAIN q /\ new[j] = q[j]
      <4>1. IsVideo(q[i]) /\ q[j].track = q[i].track
        BY <2>2, <3>1, <3>2, Zenon
      <4>2. q[i].ts < q[j].ts
        BY <1>4, <2>2, <3>1, <3>2, <4>1, Zenon
      <4>. QED  BY <3>1, <3>2, <4>2, Zenon
    <3>3. CASE new[j] = p
      <4>1. IsVideo(q[i]) /\ q[i].track = v
        BY <2>2, <3>1, <3>3, Zenon DEF v
      <4>2. q[i].ts < next[v]
        BY <1>4, <3>1, <4>1, Zenon
      <4>. QED  BY <1>2, <3>1, <3>3, <4>2, Zenon DEF n
    <3>. QED  BY <1>3, <3>2, <3>3, Zenon
  <2>3. ASSUME NEW w \in VideoTracks
        PROVE  ref[w] = -1 \/ (ref[w] \in Nat /\ ref[w] < next2[w] /\ Kind(w, ref[w]) # "b")
    <3>1. CASE w = v
      BY <1>1, <1>2, <1>4, <3>1
    <3>2. CASE w # v
      BY <1>2, <1>4, <3>2, Zenon
    <3>. QED  BY <3>1, <3>2
  <2>. QED  BY <2>1, <2>2, <2>3, Zenon DEF InSequence
<1>6. \A w, m : Alive(q, ref, w, m) => Alive(new, ref, w, m)
  BY <1>3, Zenon DEF Alive
<1>7. Alive(new, ref, v, n)
  BY <1>3, Zenon DEF Alive, v, n
<1>8. \A w \in VideoTracks : \A m : IsReference(w, next[w], m) =>
         Alive(q, ref, w, m) \/ (Kind(w, m) # "key" /\ (min = 3 \/ Kind(w, next[w]) = "key"))
  BY Zenon DEF Follows, NextFollows
<1>9. QueueFollows(new, ref)
  <2> SUFFICES ASSUME NEW i \in DOMAIN new, IsVideo(new[i]), new[i].kind # "key",
                      NEW m, IsReference(new[i].track, new[i].ts, m)
               PROVE  Alive(new, ref, new[i].track, m)
    BY Zenon DEF QueueFollows
  <2>1. CASE i \in DOMAIN q /\ new[i] = q[i]
    <3>1. Alive(q, ref, q[i].track, m)
      BY <2>1, Zenon DEF Follows, QueueFollows
    <3>. QED  BY <1>6, <2>1, <3>1, Zenon
  <2>2. CASE new[i] = p
    <3>1. IsReference(v, next[v], m) /\ p.kind # "key"
      BY <1>2, <2>2, Zenon DEF v, n
    <3>2. Alive(q, ref, v, m)
      BY <1>1, <1>2, <1>8, <3>1, Zenon
    <3>. QED  BY <1>6, <2>2, <3>2, Zenon DEF v
  <2>. QED  BY <1>3, <2>1, <2>2, Zenon
<1>10. NextFollows(new, 0, ref, next2)
  <2> SUFFICES ASSUME NEW w \in VideoTracks, NEW m, IsReference(w, next2[w], m)
               PROVE  \/ Alive(new, ref, w, m)
                      \/ Kind(w, m) # "key" /\ (0 = 3 \/ Kind(w, next2[w]) = "key")
    BY Zenon DEF NextFollows
  <2>1. CASE w = v
    <3>1. \/ m = n
          \/ Kind(v, n) = "b" /\ IsReference(v, n, m)
      BY <1>1, <1>2, <2>1, ReferenceStep
    <3>2. CASE m = n
      BY <1>7, <2>1, <3>2, Zenon
    <3>3. CASE Kind(v, n) = "b" /\ IsReference(v, n, m)
      <4>1. min # 3
        BY <1>1, <3>3
      <4>2. Kind(v, next[v]) # "key" /\ IsReference(v, next[v], m)
        BY <1>2, <3>3
      <4>3. Alive(q, ref, v, m)
        BY <1>1, <1>8, <4>1, <4>2, Zenon
      <4>. QED  BY <1>6, <2>1, <4>3, Zenon
    <3>. QED  BY <3>1, <3>2, <3>3
  <2>2. CASE w # v
    <3>1. next2[w] = next[w] /\ next[w] \in {n, n + 1} /\ IsReference(w, next[w], m)
      BY <1>2, <2>2, Zenon DEF n
    <3>2. CASE Alive(q, ref, w, m)
      BY <1>6, <3>2, Zenon
    <3>3. CASE Kind(w, m) # "key" /\ Kind(w, next[w]) = "key"
      BY <3>1, <3>3, Zenon
    <3>4. CASE Kind(w, m) # "key" /\ min = 3
      <4>1. Kind(w, n) = "key"
        BY <1>1, <3>4, Zenon DEF KeyframesTogether
      <4>2. CASE next[w] = n
        BY <3>1, <3>4, <4>1, <4>2, Zenon
      <4>3. CASE next[w] = n + 1
        <5>1. IsReference(w, n + 1, m)
          BY <3>1, <4>3
        <5>2. m = n
          BY <1>1, <4>1, <5>1, ReferenceStep
        <5>. QED  BY <3>4, <4>1, <5>2, Zenon
      <4>. QED  BY <3>1, <4>2, <4>3
    <3>. QED  BY <1>8, <3>1, <3>2, <3>3, <3>4, Zenon
  <2>. QED  BY <2>1, <2>2
<1>. QED  BY <1>0, <1>2, <1>3, <1>5, <1>9, <1>10, Zenon DEF Follows, QueueTypes, new

(* add_video_packet: a frame below the priority is dropped, and what is    *)
(* predicted from it will be.                                              *)
LEMMA SkipFollows ==
    ASSUME NEW q, NEW min, NEW ref, NEW next, Follows(q, min, ref, next),
           NEW p \in Frames, IsVideo(p), p.ts = next[p.track], p.drop_priority < min,
           NEW next2, next2 = [next EXCEPT ![p.track] = p.ts + 1]
    PROVE  Follows(q, min, ref, next2)
<1> DEFINE v == p.track
<1> DEFINE n == p.ts
<1>0. /\ q \in Seq(Frames) /\ min \in {0, 2, 3}
      /\ ref \in [VideoTracks -> Int] /\ next \in [VideoTracks -> Nat]
  BY Zenon DEF Follows, QueueTypes
<1>1. v \in VideoTracks /\ n \in Nat /\ p.kind = Kind(v, n) /\ p.kind \in {"p", "b"}
      /\ (p.kind = "p" => min = 3)
  BY <1>0, FrameIs
<1>2. next2 \in [VideoTracks -> Nat] /\ next2[v] = n + 1 /\ next[v] = n
      /\ \A w \in VideoTracks : w # v => next2[w] = next[w]
  BY <1>0, <1>1
<1>3. \A i \in DOMAIN q : q[i] \in Frames
  BY <1>0
<1>4. /\ \A i \in DOMAIN q : IsVideo(q[i]) => ref[q[i].track] < q[i].ts /\ q[i].ts < next[q[i].track]
      /\ \A i, j \in DOMAIN q : i < j /\ IsVideo(q[i]) /\ q[j].track = q[i].track => q[i].ts < q[j].ts
      /\ \A w \in VideoTracks :
            ref[w] = -1 \/ (ref[w] \in Nat /\ ref[w] < next[w] /\ Kind(w, ref[w]) # "b")
  BY Zenon DEF Follows, InSequence
<1> HIDE DEF v, n
<1>5. InSequence(q, ref, next2)
  <2>1. \A w \in VideoTracks, m \in Int : m < next[w] => m < next2[w]
    BY <1>0, <1>1, <1>2
  <2>2. \A i \in DOMAIN q : IsVideo(q[i]) => q[i].track \in VideoTracks /\ q[i].ts \in Int
    BY <1>3, FrameIs
  <2>3. \A w \in VideoTracks : ref[w] \in Int
    BY <1>0
  <2>. QED  BY <1>4, <2>1, <2>2, <2>3, Zenon DEF InSequence
<1>6. NextFollows(q, min, ref, next2)
  <2> SUFFICES ASSUME NEW w \in VideoTracks, NEW m, IsReference(w, next2[w], m)
               PROVE  \/ Alive(q, ref, w, m)
                      \/ Kind(w, m) # "key" /\ (min = 3 \/ Kind(w, next2[w]) = "key")
    BY Zenon DEF NextFollows
  <2>0. \A m2 : IsReference(w, next[w], m2) =>
          Alive(q, ref, w, m2) \/ (Kind(w, m2) # "key" /\ (min = 3 \/ Kind(w, next[w]) = "key"))
    BY Zenon DEF Follows, NextFollows
  <2>1. CASE w = v
    <3>1. \/ m = n /\ Kind(v, n) # "b"
          \/ Kind(v, n) = "b" /\ IsReference(v, n, m)
      BY <1>1, <1>2, <2>1, ReferenceStep
    <3>2. CASE m = n /\ Kind(v, n) # "b"
      BY <1>1, <2>1, <3>2
    <3>3. CASE Kind(v, n) = "b" /\ IsReference(v, n, m)
      <4>1. Kind(w, next[w]) # "key" /\ IsReference(w, next[w], m)
        BY <1>2, <2>1, <3>3
      <4>. QED  BY <2>0, <4>1, Zenon
    <3>. QED  BY <3>1, <3>2, <3>3
  <2>2. CASE w # v
    <3>1. next2[w] = next[w]
      BY <1>2, <2>2
    <3>. QED  BY <2>0, <3>1, Zenon
  <2>. QED  BY <2>1, <2>2
<1>. QED  BY <1>0, <1>2, <1>5, <1>6, Zenon DEF Follows, QueueTypes

(* rtmp_stream_data: audio changes nothing of that.                        *)
LEMMA AudioFollows ==
    ASSUME NEW q, NEW min, NEW ref, NEW next, Follows(q, min, ref, next),
           NEW p \in Frames, ~IsVideo(p)
    PROVE  Follows(Append(q, p), min, ref, next)
<1> DEFINE new == Append(q, p)
<1>0. /\ q \in Seq(Frames) /\ min \in {0, 2, 3}
      /\ ref \in [VideoTracks -> Int] /\ next \in [VideoTracks -> Nat]
  BY Zenon DEF Follows, QueueTypes
<1>1. /\ new \in Seq(Frames)
      /\ \A i \in DOMAIN new : (i \in DOMAIN q /\ new[i] = q[i]) \/ new[i] = p
      /\ \A i \in DOMAIN q : i \in DOMAIN new /\ new[i] = q[i]
  BY <1>0
<1>2. /\ \A i \in DOMAIN q : IsVideo(q[i]) => ref[q[i].track] < q[i].ts /\ q[i].ts < next[q[i].track]
      /\ \A i, j \in DOMAIN q : i < j /\ IsVideo(q[i]) /\ q[j].track = q[i].track => q[i].ts < q[j].ts
      /\ \A w \in VideoTracks :
            ref[w] = -1 \/ (ref[w] \in Nat /\ ref[w] < next[w] /\ Kind(w, ref[w]) # "b")
  BY Zenon DEF Follows, InSequence
<1> HIDE DEF new
<1>3. \A i \in DOMAIN new : IsVideo(new[i]) => i \in DOMAIN q /\ new[i] = q[i]
  BY <1>1, Zenon
<1>4. InSequence(new, ref, next)
  <2>1. \A i \in DOMAIN new : IsVideo(new[i]) => ref[new[i].track] < new[i].ts /\ new[i].ts < next[new[i].track]
    BY <1>2, <1>3, Zenon
  <2>2. ASSUME NEW i \in DOMAIN new, NEW j \in DOMAIN new, i < j, IsVideo(new[i]), new[j].track = new[i].track
        PROVE  new[i].ts < new[j].ts
    <3>1. IsVideo(new[j])
      BY <2>2, Zenon DEF IsVideo
    <3>2. new[i] = q[i] /\ new[j] = q[j] /\ i \in DOMAIN q /\ j \in DOMAIN q
      BY <1>3, <2>2, <3>1, Zenon
    <3>3. IsVideo(q[i]) /\ q[j].track = q[i].track
      BY <2>2, <3>2, Zenon
    <3>4. q[i].ts < q[j].ts
      BY <1>2, <2>2, <3>2, <3>3, Zenon
    <3>. QED  BY <3>2, <3>4, Zenon
  <2>. QED  BY <1>2, <2>1, <2>2, Zenon DEF InSequence
<1>5. \A w, m : Alive(q, ref, w, m) => Alive(new, ref, w, m)
  BY <1>1, Zenon DEF Alive
<1>6. QueueFollows(new, ref)
  <2> SUFFICES ASSUME NEW i \in DOMAIN new, IsVideo(new[i]), new[i].kind # "key",
                      NEW m, IsReference(new[i].track, new[i].ts, m)
               PROVE  Alive(new, ref, new[i].track, m)
    BY Zenon DEF QueueFollows
  <2>1. i \in DOMAIN q /\ new[i] = q[i]
    BY <1>3, Zenon
  <2>2. Alive(q, ref, q[i].track, m)
    BY <2>1, Zenon DEF Follows, QueueFollows
  <2>. QED  BY <1>5, <2>1, <2>2, Zenon
<1>7. NextFollows(new, min, ref, next)
  BY <1>5, Zenon DEF Follows, NextFollows
<1>. QED  BY <1>0, <1>1, <1>4, <1>6, <1>7, Zenon DEF Follows, QueueTypes, new

(* check_to_drop_frames, both times: what the queue keeps is decodable.    *)
LEMMA DroppedFollows ==
    ASSUME NEW c, NEW ref, NEW next, Follows(c.q, c.min, ref, next)
    PROVE  Follows(Dropped(c).q, Dropped(c).min, ref, next)
<1>1. ASSUME NEW d, Follows(d.q, d.min, ref, next), NEW threshold, NEW priority \in {2, 3}
      PROVE  Follows(Drop(d, threshold, priority).q, Drop(d, threshold, priority).min, ref, next)
  <2>1. CASE Buffered(d.q) <= threshold
    BY <1>1, <2>1, Zenon DEF Drop
  <2>2. CASE ~(Buffered(d.q) <= threshold)
    <3>1. d.min \in {0, 2, 3}
      BY <1>1, Zenon DEF Follows, QueueTypes
    <3>2. PICK m : m = Max({d.min, priority})
      OBVIOUS
    <3>3. m = IF d.min >= priority THEN d.min ELSE priority
      BY <3>1, <3>2, MaxOfTwo
    <3>4. m \in {0, 2, 3} /\ m >= d.min /\ m >= priority
      BY <3>1, <3>3
    <3>5. Follows(Kept(d.q, priority), m, ref, next)
      BY <1>1, <3>4, KeptFollows
    <3>6. Drop(d, threshold, priority) = [q |-> Kept(d.q, priority), min |-> m]
      BY <2>2, <3>2, Zenon DEF Drop
    <3>7. Drop(d, threshold, priority).q = Kept(d.q, priority) /\ Drop(d, threshold, priority).min = m
      BY <3>6
    <3>. QED  BY <3>5, <3>7, Zenon
  <2>. QED  BY <2>1, <2>2
<1>2. Priority["p"] \in {2, 3} /\ Priority["key"] \in {2, 3}
  BY DEF Priority
<1>3. PICK d : d = Drop(c, drop_threshold, Priority["p"])
  OBVIOUS
<1>4. Follows(d.q, d.min, ref, next)
  BY <1>1, <1>2, <1>3
<1>5. Dropped(c) = Drop(d, pframe_drop_threshold, Priority["key"])
  BY <1>3, Zenon DEF Dropped
<1>. QED  BY <1>1, <1>2, <1>4, <1>5

(* init_connect: the queue of a new connection is empty, and every track   *)
(* begins with its first frame, a keyframe.                                *)
LEMMA StartFollows == Follows(<<>>, 0, [v \in VideoTracks |-> -1], NextOf(0))
<1> DEFINE ref == [v \in VideoTracks |-> -1]
<1>1. NextOf(0) \in [VideoTracks -> Nat] /\ \A v \in VideoTracks : NextOf(0)[v] = 0
  <2>1. Len(Sources) \in Nat \ {0}
    BY SourcesAre
  <2>2. 0 % Len(Sources) = 0 /\ 0 \div Len(Sources) = 0
    BY <2>1
  <2>3. Frame(0) = 0
    BY <2>2, Zenon DEF Frame
  <2>4. \A v \in VideoTracks : Place[v] \in 1..Len(Sources) - 1
    <3>1. \A v \in VideoTracks : \E j \in 1..Len(Sources) - 1 : Sources[j] = v
      BY SourcesAre
    <3>. QED  BY <3>1, Zenon DEF Place
  <2>5. \A v \in VideoTracks : ~(Place[v] <= 0)
    BY <2>1, <2>4
  <2>. QED  BY <2>2, <2>3, <2>5 DEF NextOf
<1>2. QueueTypes(<<>>, 0, ref, NextOf(0))
  BY <1>1 DEF QueueTypes
<1>3. InSequence(<<>>, ref, NextOf(0))
  BY DEF InSequence
<1>4. QueueFollows(<<>>, ref)
  BY DEF QueueFollows
<1>5. NextFollows(<<>>, 0, ref, NextOf(0))
  <2>1. ASSUME NEW v \in VideoTracks, NEW m, IsReference(v, NextOf(0)[v], m) PROVE FALSE
    <3>1. m \in 0..0 - 1
      BY <1>1, <2>1, Zenon DEF IsReference
    <3>. QED  BY <3>1
  <2>. QED  BY <2>1, Zenon DEF NextFollows
<1>. QED  BY <1>2, <1>3, <1>4, <1>5, Zenon DEF Follows

(* A queue that keeps its frames decodable is what the property says.      *)
LEMMA FollowsDecodable ==
    ASSUME NEW q, NEW min, NEW ref, NEW next, Follows(q, min, ref, next), NEW i \in DOMAIN q,
           IsVideo(q[i]), q[i].kind # "key"
    PROVE  LET p == q[i]
               before == {q[j].ts : j \in {j \in 1..i - 1 : q[j].track = p.track /\ q[j].kind # "b"}}
           IN ReferenceOf(p.track, p.ts) = Max(before \cup {ref[p.track]})
<1> DEFINE p == q[i]
<1> DEFINE v == p.track
<1> DEFINE before == {q[j].ts : j \in {j \in 1..i - 1 : q[j].track = v /\ q[j].kind # "b"}}
<1> DEFINE s == before \cup {ref[v]}
<1> DEFINE r == ReferenceOf(v, p.ts)
<1>0. /\ q \in Seq(Frames) /\ DOMAIN q = 1..Len(q) /\ \A j \in DOMAIN q : q[j] \in Frames
      /\ Len(q) \in Nat /\ ref \in [VideoTracks -> Int]
  <2>1. q \in Seq(Frames) /\ ref \in [VideoTracks -> Int]
    BY Zenon DEF Follows, QueueTypes
  <2>. QED  BY <2>1
<1>1. v \in VideoTracks /\ p.ts \in Nat /\ p.kind = Kind(v, p.ts)
  BY <1>0, FrameIs
<1>2. p.ts # 0
  BY <1>1, KindIs, Zenon
<1>3. IsReference(v, p.ts, r)
  BY <1>1, <1>2, ReferenceIs, Zenon
<1>4. r \in 0..p.ts - 1 /\ Kind(v, r) # "b" /\ \A l \in r + 1..p.ts - 1 : Kind(v, l) = "b"
  BY <1>3, Zenon DEF IsReference
<1>5. /\ \A j \in DOMAIN q : IsVideo(q[j]) => ref[q[j].track] < q[j].ts
      /\ \A j, l \in DOMAIN q : j < l /\ IsVideo(q[j]) /\ q[l].track = q[j].track => q[j].ts < q[l].ts
      /\ ref[v] = -1 \/ (ref[v] \in Nat /\ Kind(v, ref[v]) # "b")
  BY <1>1, Zenon DEF Follows, InSequence
<1>6. \A j \in DOMAIN q : q[j].track = v => IsVideo(q[j]) /\ q[j].kind = Kind(v, q[j].ts) /\ q[j].ts \in Nat
  <2>1. \A j \in DOMAIN q : q[j].track = v => IsVideo(q[j])
    BY <1>1, SourcesAre, Zenon DEF IsVideo
  <2>. QED  BY <1>0, <2>1, FrameIs, Zenon
<1>7. r \in s
  <2>1. Alive(q, ref, v, r)
    BY <1>3, Zenon DEF Follows, QueueFollows
  <2>2. CASE ref[v] = r
    BY <2>2
  <2>3. CASE \E j \in DOMAIN q : q[j].track = v /\ q[j].ts = r
    <3>1. PICK j \in DOMAIN q : q[j].track = v /\ q[j].ts = r
      BY <2>3, Zenon
    <3>2. q[j].kind # "b" /\ IsVideo(q[j])
      BY <1>4, <1>6, <3>1, Zenon
    <3>3. ~(i < j) /\ i # j
      <4>1. i < j => p.ts < r
        BY <1>5, <3>1, Zenon
      <4>2. i = j => p.ts = r
        BY <3>1, Zenon
      <4>. QED  BY <1>1, <1>4, <4>1, <4>2
    <3>4. j \in 1..i - 1
      BY <1>0, <3>3
    <3>. QED  BY <3>1, <3>2, <3>4
  <2>. QED  BY <2>1, <2>2, <2>3, Zenon DEF Alive
<1>8. \A x \in s : x \in Int /\ x <= r
  <2> SUFFICES ASSUME NEW x \in s PROVE x \in Int /\ x <= r
    OBVIOUS
  <2>1. x \in Int /\ x < p.ts /\ (x = -1 \/ (x \in Nat /\ Kind(v, x) # "b"))
    <3>1. CASE x = ref[v]
      BY <1>0, <1>1, <1>5, <3>1
    <3>2. CASE x \in before
      <4>1. PICK j \in 1..i - 1 : q[j].track = v /\ q[j].kind # "b" /\ x = q[j].ts
        BY <3>2
      <4>2. j \in DOMAIN q /\ j < i
        BY <1>0, <4>1
      <4>3. q[j].ts \in Nat /\ IsVideo(q[j]) /\ q[j].kind = Kind(v, q[j].ts)
        BY <1>6, <4>1, <4>2, Zenon
      <4>4. q[j].ts < p.ts
        BY <1>5, <4>1, <4>2, <4>3, Zenon
      <4>. QED  BY <4>1, <4>3, <4>4
    <3>. QED  BY <3>1, <3>2
  <2>2. ~(x > r)
    <3>1. x > r => x \in r + 1..p.ts - 1
      BY <1>1, <1>4, <2>1
    <3>. QED  BY <1>4, <2>1, <3>1
  <2>. QED  BY <1>4, <2>1, <2>2
<1> DEFINE IsMax(x) == x \in s /\ \A y \in s : x >= y
<1>9. Max(s) = CHOOSE x : IsMax(x)
  BY Zenon DEF Max
<1> HIDE DEF s, r
<1>10. IsMax(r) /\ r \in Int
  BY <1>4, <1>7, <1>8
<1>11. IsMax(Max(s))
  <2> HIDE DEF IsMax
  <2>. QED  BY <1>9, <1>10, Zenon
<1>12. Max(s) = r
  <2>1. PICK x : x = Max(s)
    OBVIOUS
  <2>2. x \in s /\ x >= r
    BY <1>7, <1>11, <2>1, Zenon
  <2>3. x \in Int /\ x <= r
    BY <1>8, <2>2, Zenon
  <2>4. x = r
    BY <1>10, <2>2, <2>3
  <2>. QED  BY <2>1, <2>4, Zenon
<1>. QED  BY <1>12, Zenon DEF s, r

-----------------------------------------------------------------------------
(* What is sent is decodable                                               *)

\* The frames of the tracks that come next.
Upcoming == NextOf(k)

\* A connection that sends has its stream, and a queue that keeps its frames decodable.
DecodeInv ==
    /\ k \in Nat /\ sessions \in Nat
    /\ Sending => active /\ ~disconnected /\ Follows(packets, min_priority, reference, Upcoming)

(* add_video_packet, rtmp_stream_data: the packet the encoders deliver.    *)
LEMMA PacketIs ==
    ASSUME k \in Nat, sessions \in Nat
    PROVE  /\ Packet(k) \in Frames
           /\ \A w \in VideoTracks : Upcoming[w] \in {Packet(k).ts, Packet(k).ts + 1}
           /\ ~IsVideo(Packet(k)) => NextOf(k + 1) = Upcoming
           /\ IsVideo(Packet(k)) =>
                 /\ Packet(k).ts = Upcoming[Packet(k).track]
                 /\ NextOf(k + 1) = [Upcoming EXCEPT ![Packet(k).track] = Packet(k).ts + 1]
<1> DEFINE src == Sources[(k % Len(Sources)) + 1]
<1> DEFINE kind == IF src = Audio THEN "key" ELSE Kind(src, Frame(k))
<1> DEFINE p == Packet(k)
<1>1. p = [track |-> src, ts |-> Frame(k), kind |-> kind, drop_priority |-> Priority[kind],
           session |-> sessions]
  BY Zenon DEF Packet
<1>2. /\ src \in VideoTracks \cup {Audio} /\ Frame(k) \in Nat
      /\ \A w \in VideoTracks : NextOf(k)[w] \in {Frame(k), Frame(k) + 1}
      /\ src = Audio => NextOf(k + 1) = NextOf(k)
      /\ src # Audio => /\ NextOf(k)[src] = Frame(k)
                        /\ NextOf(k + 1) = [NextOf(k) EXCEPT ![src] = Frame(k) + 1]
  BY NextPacket, Zenon
<1> HIDE DEF src
<1>3. kind \in {"key", "p", "b"}
  BY <1>2, KindIs
<1> HIDE DEF kind
<1>4. Priority[kind] \in {0, 2, 3}
  BY <1>3 DEF Priority
<1> HIDE DEF p
<1>5. p.track = src /\ p.ts = Frame(k) /\ p.kind = kind /\ p.drop_priority = Priority[kind]
  BY <1>1
<1>6. IsVideo(p) <=> src # Audio
  BY <1>5 DEF IsVideo
<1>7. p \in Frames
  <2>1. p \in [track : VideoTracks \cup {Audio}, ts : Nat, kind : {"key", "p", "b"},
               drop_priority : {0, 2, 3}, session : Nat]
    BY <1>1, <1>2, <1>3, <1>4
  <2>2. IsVideo(p) => p.kind = Kind(p.track, p.ts)
    BY <1>5, <1>6, Zenon DEF kind
  <2>. QED  BY <1>5, <2>1, <2>2 DEF Frames
<1>. QED  BY <1>2, <1>5, <1>6, <1>7, Zenon DEF p, Upcoming

LEMMA InitDecode == Init => DecodeInv
BY DEF Init, DecodeInv, Sending

LEMMA NextDecode ==
    ASSUME KeyframesTogether, DecodeInv, [Next]_vars
    PROVE  DecodeInv'
<1>0. /\ k \in Nat /\ sessions \in Nat
      /\ (Sending => active /\ ~disconnected /\ Follows(packets, min_priority, reference, Upcoming))
  BY DEF DecodeInv
<1>1. CASE Connect
  <2>1. /\ packets' = <<>> /\ min_priority' = 0 /\ active' = TRUE /\ disconnected' = FALSE /\ k' = 0
        /\ sessions' = sessions + 1 /\ reference' = [v \in VideoTracks |-> -1]
    BY <1>1 DEF Connect, FreePackets
  <2>2. Follows(packets, min_priority, reference, Upcoming)'
    BY <2>1, StartFollows, Zenon DEF Upcoming
  <2>. QED  BY <1>0, <2>1, <2>2 DEF DecodeInv
\* Nothing of it changes.
<1>2. ASSUME k' = k, sessions' = sessions, Sending' => Sending, 
             UNCHANGED <<packets, min_priority, reference, active, disconnected>>
      PROVE  DecodeInv'
  <2>1. Upcoming' = Upcoming
    BY <1>2 DEF Upcoming
  <2>2. Follows(packets, min_priority, reference, Upcoming) =>
           Follows(packets, min_priority, reference, Upcoming)'
    BY <1>2, <2>1
  <2>. QED  BY <1>0, <1>2, <2>2, Zenon DEF DecodeInv
<1>3. CASE Stop \/ Post \/ WakeForNothing \/ Sent \/ UNCHANGED vars
  <2>1. /\ k' = k /\ sessions' = sessions
        /\ UNCHANGED <<packets, min_priority, reference, active, disconnected>>
    BY <1>3 DEF Stop, Post, WakeForNothing, Sent, SendStep, vars, queue, state, encoder
  <2>2. Sending' => Sending
    BY <1>3 DEF Stop, Post, WakeForNothing, Sent, SendStep, Sending, vars
  <2>. QED  BY <1>2, <2>1, <2>2, Zenon
\* The connection does not send.
<1>4. ASSUME k' \in {k, k + 1}, sessions' = sessions, ~Sending'
      PROVE  DecodeInv'
  <2>1. k' \in Nat /\ sessions' \in Nat
    BY <1>0, <1>4
  <2>. QED  BY <1>4, <2>1, Zenon DEF DecodeInv
<1>5. CASE EncodersStop \/ StopNow \/ StopAtPacket \/ Broken \/ Leave \/ FreeRest \/ GoInactive
  <2>1. k' = k /\ sessions' = sessions /\ spc' \in {"leaving", "free", "inactive", "down"}
    BY <1>5 DEF EncodersStop, StopNow, StopAtPacket, Broken, Leave, FreeRest, GoInactive, SendStep, encoder
  <2>2. ~Sending'
    BY <2>1 DEF Sending
  <2>. QED  BY <1>4, <2>1, <2>2, Zenon
<1>6. CASE DataEnter \/ DataGone
  <2>1. /\ sessions' = sessions /\ k' \in {k, k + 1} /\ UNCHANGED <<packets, min_priority, reference, spc, active, disconnected>>
        /\ k' = k \/ ~(active /\ ~disconnected)
    BY <1>6 DEF DataEnter, DataGone, queue, state
  <2>2. Sending' = Sending
    BY <2>1 DEF Sending
  <2>3. CASE Sending
    <3>1. k' = k
      BY <1>0, <2>1, <2>3, Zenon
    <3>. QED  BY <1>2, <2>1, <2>2, <3>1, Zenon
  <2>4. CASE ~Sending
    BY <1>4, <2>1, <2>2, <2>4, Zenon
  <2>. QED  BY <2>3, <2>4
<1>7. CASE AddAudio
  <2>1. /\ packets' = Append(packets, Packet(k)) /\ min_priority' = min_priority /\ k' = k + 1
        /\ UNCHANGED <<reference, sessions, spc, active, disconnected>> /\ ~IsVideo(Packet(k))
    BY <1>7 DEF AddAudio, Added, state
  <2>2. Sending' = Sending
    BY <2>1 DEF Sending
  <2>3. Packet(k) \in Frames /\ Upcoming' = Upcoming
    BY <1>0, <2>1, PacketIs, Zenon DEF Upcoming
  <2>4. Sending => Follows(Append(packets, Packet(k)), min_priority, reference, Upcoming)
    BY <1>0, <2>1, <2>3, AudioFollows, Zenon
  <2>5. Sending' => Follows(packets, min_priority, reference, Upcoming)'
    BY <2>1, <2>2, <2>3, <2>4, Zenon
  <2>6. k' \in Nat
    BY <1>0, <2>1
  <2>. QED  BY <1>0, <2>1, <2>2, <2>5, <2>6, Zenon DEF DecodeInv
<1>8. CASE AddVideo
  <2> DEFINE p == Packet(k)
  <2>1. PICK c : /\ c = IF dbr_enabled THEN [q |-> packets, min |-> min_priority]
                        ELSE Dropped([q |-> packets, min |-> min_priority])
                 /\ IF TooLow(p, c) THEN packets' = c.q /\ min_priority' = c.min
                    ELSE Added(p, [c EXCEPT !.min = 0])
    BY <1>8, Zenon DEF AddVideo
  <2>2. k' = k + 1 /\ UNCHANGED <<reference, sessions, spc, active, disconnected>> /\ IsVideo(p)
    BY <1>8 DEF AddVideo, state
  <2>3. /\ p \in Frames /\ p.ts = Upcoming[p.track] /\ Upcoming' = [Upcoming EXCEPT ![p.track] = p.ts + 1]
        /\ \A w \in VideoTracks : Upcoming[w] \in {p.ts, p.ts + 1}
    BY <1>0, <2>2, PacketIs, Zenon DEF Upcoming
  <2>4. k' \in Nat /\ Sending' = Sending
    BY <1>0, <2>2 DEF Sending
  <2> HIDE DEF p
  <2>5. ASSUME Sending PROVE Follows(c.q, c.min, reference, Upcoming)
    <3>1. PICK now : now = [q |-> packets, min |-> min_priority]
      OBVIOUS
    <3>2. now.q = packets /\ now.min = min_priority
      BY <3>1
    <3>3. Follows(now.q, now.min, reference, Upcoming)
      BY <1>0, <2>5, <3>2, Zenon
    <3>4. Follows(Dropped(now).q, Dropped(now).min, reference, Upcoming)
      BY <3>3, DroppedFollows, Zenon
    <3>. QED  BY <2>1, <3>1, <3>3, <3>4, Zenon
  <2>6. ASSUME Sending PROVE Follows(packets, min_priority, reference, Upcoming)'
    <3>1. PICK up : up = Upcoming'
      OBVIOUS
    <3>2. CASE TooLow(p, c)
      <4>1. Follows(c.q, c.min, reference, up)
        BY <2>2, <2>3, <2>5, <2>6, <3>1, <3>2, SkipFollows, Zenon DEF TooLow
      <4>. QED  BY <2>1, <2>2, <3>1, <3>2, <4>1, Zenon
    <3>3. CASE ~TooLow(p, c)
      <4>1. p.drop_priority >= c.min
        <5>1. p.drop_priority \in {0, 2, 3} /\ c.min \in {0, 2, 3}
          <6>1. c.min \in {0, 2, 3}
            BY <2>5, <2>6, Zenon DEF Follows, QueueTypes
          <6>. QED  BY <2>3, <6>1 DEF Frames
        <5>2. ~(p.drop_priority < c.min)
          BY <3>3, Zenon DEF TooLow
        <5>. QED  BY <5>1, <5>2
      <4>2. Follows(Append(c.q, p), 0, reference, up)
        BY <2>2, <2>3, <2>5, <2>6, <3>1, <4>1, AppendFollows, Zenon
      <4>3. packets' = Append(c.q, p) /\ min_priority' = 0
        <5>1. Added(p, [c EXCEPT !.min = 0])
          BY <2>1, <3>3, Zenon
        <5>2. [c EXCEPT !.min = 0].q = c.q
          OBVIOUS
        <5>3. \E a, b : c = [q |-> a, min |-> b]
          BY <2>1, Zenon DEF Dropped, Drop
        <5>4. [c EXCEPT !.min = 0].min = 0
          BY <5>3
        <5>. QED  BY <5>1, <5>2, <5>4, Zenon DEF Added
      <4>. QED  BY <2>2, <3>1, <4>2, <4>3, Zenon
    <3>. QED  BY <3>2, <3>3
  <2>. QED  BY <1>0, <2>2, <2>4, <2>6, Zenon DEF DecodeInv
<1>9. CASE SendPacket
  <2>1. /\ k' = k /\ UNCHANGED <<sessions, min_priority, active, disconnected>>
        /\ packets # <<>> /\ packets' = Tail(packets) /\ spc = "wait"
        /\ reference' = IF IsVideo(Head(packets)) /\ Head(packets).kind # "b"
                        THEN [reference EXCEPT ![Head(packets).track] = Head(packets).ts] ELSE reference
    BY <1>9 DEF SendPacket, SendStep, encoder, state
  <2>2. Sending /\ Upcoming' = Upcoming
    BY <2>1 DEF Sending, Upcoming
  <2>3. PICK ref2 : ref2 = reference'
    OBVIOUS
  <2>4. Follows(Tail(packets), min_priority, ref2, Upcoming)
    BY <1>0, <2>1, <2>2, <2>3, SentFollows, Zenon
  <2>5. Follows(packets, min_priority, reference, Upcoming)'
    BY <2>1, <2>2, <2>3, <2>4, Zenon
  <2>. QED  BY <1>0, <2>1, <2>2, <2>5, Zenon DEF DecodeInv
<1>. QED  BY <1>1, <1>3, <1>5, <1>6, <1>7, <1>8, <1>9, Zenon DEF Next

(* add_video_packet, drop_frames: when the keyframes of the tracks are     *)
(* together, as encoder groups make them, a decoder can show whatever is   *)
(* sent.                                                                   *)
THEOREM SentIsDecodable ==
    ASSUME KeyframesTogether
    PROVE  Spec => []Decodable
<1>1. DecodeInv => Decodable
  <2> SUFFICES ASSUME DecodeInv, Sending PROVE Decodable
    BY Zenon DEF Decodable
  <2>1. Follows(packets, min_priority, reference, Upcoming)
    BY Zenon DEF DecodeInv
  <2>. QED  BY <2>1, FollowsDecodable, Zenon DEF Decodable
<1>2. DecodeInv /\ [Next]_vars => DecodeInv'
  BY NextDecode
<1>. QED  BY InitDecode, <1>1, <1>2, PTL DEF Spec

-----------------------------------------------------------------------------
(* The bitrate                                                             *)

\* F adds up the rates of a set of tracks, as Total goes through them.
SumsTo(F, rates) ==
    \A s \in SUBSET VideoTracks :
        F[s] = IF s = {} THEN 0
               ELSE F[s \ {CHOOSE x \in s : TRUE}] + rates[CHOOSE x \in s : TRUE]

(* dbr_set_bitrate: the loop over the tracks adds up their rates.          *)
LEMMA TotalSteps ==
    ASSUME NEW rates, NEW X, 0 \in X, \A v \in VideoTracks, x \in X : x + rates[v] \in X
    PROVE  \E F : SumsTo(F, rates) /\ F[VideoTracks] = Total(rates)
<1> DEFINE S == VideoTracks
<1> DEFINE c(s) == CHOOSE x \in s : TRUE
<1> DEFINE step == [v \in S |-> [x \in X |-> x + rates[v]]]
<1> DEFINE Eq(F) == F = [s \in SUBSET S |-> IF s = {} THEN 0 ELSE F[s \ {c(s)}] + rates[c(s)]]
<1> DEFINE iter == CHOOSE F : Eq(F)
<1>1. Total(rates) = iter[S]
  BY Zenon DEF Total, FoldSet, MapThenFoldSet
<1>2. step \in [S -> [X -> X]] /\ \A v \in S, x \in X : step[v][x] = x + rates[v]
  OBVIOUS
<1>3. IsFiniteSet(S)
  BY TracksAssumption
<1> HIDE DEF S, step
<1>a. PICK F \in [SUBSET S -> X] : FoldsFrom(F, S, 0, step)
  BY <1>2, <1>3, SetFoldExists
<1>4. \A s \in SUBSET S : F[s] = IF s = {} THEN 0 ELSE step[c(s)][F[s \ {c(s)}]]
  BY <1>a, Zenon DEF FoldsFrom
<1>5. \A s \in SUBSET S : s # {} => c(s) \in S /\ s \ {c(s)} \in SUBSET S
  OBVIOUS
<1> HIDE DEF c
<1>6. Eq(F)
  <2>1. \A s \in SUBSET S : F[s] = IF s = {} THEN 0 ELSE F[s \ {c(s)}] + rates[c(s)]
    <3> SUFFICES ASSUME NEW s \in SUBSET S, s # {} PROVE F[s] = F[s \ {c(s)}] + rates[c(s)]
      BY <1>4, Zenon
    <3>1. F[s] = step[c(s)][F[s \ {c(s)}]]
      BY <1>4, Zenon
    <3>2. F[s \ {c(s)}] \in X /\ c(s) \in S
      BY <1>4, <1>5
    <3>. QED  BY <1>2, <3>1, <3>2, Zenon
  <2>2. F = [s \in SUBSET S |-> F[s]]
    BY <1>4
  <2>. QED  BY <2>1, <2>2, Zenon
<1>7. Eq(iter)
  <2> HIDE DEF Eq
  <2>. QED  BY <1>6, Zenon
<1> HIDE DEF iter
\* The recursion is the same function.
<1>8. \A s \in SUBSET S : iter[s] = IF s = {} THEN 0 ELSE iter[s \ {c(s)}] + rates[c(s)]
  BY <1>7, Zenon
<1>9. SumsTo(iter, rates)
  BY <1>8, Zenon DEF SumsTo, c, S
<1>. QED  BY <1>1, <1>9, Zenon DEF S

(* dbr_set_bitrate: a sum over the tracks is in every set that has 0 and   *)
(* is closed under adding the rate of a track.                             *)
LEMMA TotalIn ==
    ASSUME NEW rates, NEW X, 0 \in X, \A v \in VideoTracks, x \in X : x + rates[v] \in X
    PROVE  Total(rates) \in X
<1> DEFINE S == VideoTracks
<1> DEFINE c(s) == CHOOSE x \in s : TRUE
<1>1. PICK F : SumsTo(F, rates) /\ F[S] = Total(rates)
  BY TotalSteps
<1>2. \A s \in SUBSET S : F[s] = IF s = {} THEN 0 ELSE F[s \ {c(s)}] + rates[c(s)]
  BY <1>1, Zenon DEF SumsTo
<1>3. IsFiniteSet(S)
  BY TracksAssumption
<1>4. \A s \in SUBSET S : s # {} => c(s) \in S /\ s \ {c(s)} \in SUBSET S
  OBVIOUS
<1> HIDE DEF c
<1> DEFINE P == {s \in SUBSET S : F[s] \in X}
<1>5. {} \in P
  BY <1>2, Zenon
<1>6. ASSUME NEW s \in SUBSET S, s # {}, s \ {c(s)} \in P PROVE s \in P
  <2>1. F[s] = F[s \ {c(s)}] + rates[c(s)]
    BY <1>2, <1>6, Zenon
  <2>2. F[s \ {c(s)}] \in X /\ c(s) \in VideoTracks
    BY <1>4, <1>6
  <2>. QED  BY <2>1, <2>2
<1>7. S \in P
  <2> HIDE DEF P
  <2>. QED  BY <1>3, <1>5, <1>6, SubsetInduction, Zenon DEF c
<1>. QED  BY <1>1, <1>7

(* dbr_set_bitrate: the bitrate of all tracks together.                    *)
LEMMA TotalIsNat ==
    ASSUME NEW rates \in [VideoTracks -> Nat]
    PROVE  Total(rates) \in Nat
<1>1. \A v \in VideoTracks, x \in Nat : x + rates[v] \in Nat
  OBVIOUS
<1>2. PICK X : X = Nat
  OBVIOUS
<1>3. 0 \in X /\ \A v \in VideoTracks, x \in X : x + rates[v] \in X
  BY <1>1, <1>2
<1>. QED  BY <1>2, <1>3, TotalIn

(* dbr_set_bitrate: between equal columns there is nothing to share.       *)
LEMMA TotalOfNothing ==
    ASSUME NEW rates, \A v \in VideoTracks : rates[v] = 0
    PROVE  Total(rates) = 0
<1>1. PICK X : X = {0}
  OBVIOUS
<1>2. 0 \in X /\ \A v \in VideoTracks, x \in X : x + rates[v] \in X
  BY <1>1
<1>3. Total(rates) \in X
  BY <1>2, TotalIn
<1>. QED  BY <1>1, <1>3

(* dbr_set_bitrate: what holds of nothing and is kept when a track adds its *)
(* rate holds of the sums of all tracks.                                   *)
LEMMA TotalsRelate ==
    ASSUME NEW r1 \in [VideoTracks -> Nat], NEW r2 \in [VideoTracks -> Nat],
           NEW R, <<0, 0, 0>> \in R,
           \A v \in VideoTracks, a, b, n \in Nat :
               <<a, b, n>> \in R => <<a + r1[v], b + r2[v], n + 1>> \in R
    PROVE  <<Total(r1), Total(r2), Cardinality(VideoTracks)>> \in R
<1> DEFINE S == VideoTracks
<1> DEFINE c(s) == CHOOSE x \in s : TRUE
<1>0. IsFiniteSet(S)
  BY TracksAssumption
<1>1. 0 \in Nat /\ \A v \in S, x \in Nat : x + r1[v] \in Nat /\ x + r2[v] \in Nat
  OBVIOUS
<1>2. PICK F1 : SumsTo(F1, r1) /\ F1[S] = Total(r1)
  BY <1>1, TotalSteps
<1>3. PICK F2 : SumsTo(F2, r2) /\ F2[S] = Total(r2)
  BY <1>1, TotalSteps
<1>4. /\ \A s \in SUBSET S : F1[s] = IF s = {} THEN 0 ELSE F1[s \ {c(s)}] + r1[c(s)]
      /\ \A s \in SUBSET S : F2[s] = IF s = {} THEN 0 ELSE F2[s \ {c(s)}] + r2[c(s)]
  BY <1>2, <1>3, Zenon DEF SumsTo
<1>5. \A s \in SUBSET S : s # {} => c(s) \in s /\ c(s) \in S /\ s \ {c(s)} \in SUBSET S
  OBVIOUS
<1>6. \A s \in SUBSET S : /\ Cardinality(s) \in Nat
                          /\ s # {} => Cardinality(s \ {c(s)}) = Cardinality(s) - 1
  BY <1>0, <1>5, FS_Subset, FS_CardinalityType, FS_RemoveElement
<1>a. Cardinality({}) = 0
  BY FS_EmptySet
<1> HIDE DEF c, S
<1> DEFINE P == {s \in SUBSET S : /\ F1[s] \in Nat /\ F2[s] \in Nat
                                  /\ <<F1[s], F2[s], Cardinality(s)>> \in R}
<1>7. {} \in P
  <2>1. F1[{}] = 0 /\ F2[{}] = 0
    BY <1>4
  <2>. QED  BY <1>1, <1>a, <2>1
<1>8. ASSUME NEW s \in SUBSET S, s # {}, s \ {c(s)} \in P PROVE s \in P
  <2> DEFINE r == s \ {c(s)}
  <2>1. PICK a \in Nat, b \in Nat, n \in Nat :
           a = F1[r] /\ b = F2[r] /\ n = Cardinality(r) /\ <<a, b, n>> \in R
    BY <1>5, <1>6, <1>8
  <2>2. F1[s] = a + r1[c(s)] /\ F2[s] = b + r2[c(s)]
    BY <1>4, <1>8, <2>1, Zenon
  <2>3. Cardinality(s) = n + 1
    <3>1. Cardinality(s) \in Nat /\ n = Cardinality(s) - 1
      BY <1>6, <1>8, <2>1, Zenon
    <3>. QED  BY <3>1
  <2>4. c(s) \in S
    BY <1>5, <1>8
  <2>5. <<a + r1[c(s)], b + r2[c(s)], n + 1>> \in R
    BY <2>1, <2>4, Zenon DEF S
  <2>6. a + r1[c(s)] \in Nat /\ b + r2[c(s)] \in Nat
    BY <1>1, <2>1, <2>4, Zenon
  <2>. QED  BY <2>2, <2>3, <2>5, <2>6
<1>9. S \in P
  <2> HIDE DEF P
  <2>. QED  BY <1>0, <1>7, <1>8, SubsetInduction, Zenon DEF c
<1>. QED  BY <1>2, <1>3, <1>9 DEF S

(* dbr_set_bitrate: less for every track is less in all.                   *)
LEMMA TotalGrows ==
    ASSUME NEW r1 \in [VideoTracks -> Nat], NEW r2 \in [VideoTracks -> Nat],
           \A v \in VideoTracks : r1[v] <= r2[v]
    PROVE  Total(r1) <= Total(r2)
<1> DEFINE R == {t \in Nat \X Nat \X Nat : t[1] <= t[2]}
<1>1. <<0, 0, 0>> \in R
  OBVIOUS
<1>2. ASSUME NEW v \in VideoTracks, NEW a \in Nat, NEW b \in Nat, NEW n \in Nat, <<a, b, n>> \in R
      PROVE  <<a + r1[v], b + r2[v], n + 1>> \in R
  <2>1. r1[v] \in Nat /\ r2[v] \in Nat /\ r1[v] <= r2[v] /\ a <= b
    BY <1>2
  <2>. QED  BY <2>1
<1> HIDE DEF R
<1>3. <<Total(r1), Total(r2), Cardinality(VideoTracks)>> \in R
  BY <1>1, <1>2, TotalsRelate
<1>. QED  BY <1>3 DEF R

(* Division: how much of a product is left.                                *)
LEMMA DivisionBounds ==
    ASSUME NEW a \in Nat, NEW d \in Nat \ {0}
    PROVE  /\ a \div d \in Nat /\ (a \div d) * d <= a /\ a < (a \div d) * d + d
<1>1. PICK q \in Nat, r \in 0..d - 1 : q = a \div d /\ a = d * q + r
  OBVIOUS
<1>. QED  BY <1>1

LEMMA Cancel ==
    ASSUME NEW a \in Nat, NEW b \in Nat, NEW d \in Nat \ {0}, a * d <= b * d
    PROVE  a <= b
<1> SUFFICES ASSUME a > b PROVE FALSE
  OBVIOUS
<1>1. PICK e \in Nat : a = b + 1 + e
  <2>1. a - b - 1 \in Nat /\ a = b + 1 + (a - b - 1)
    OBVIOUS
  <2>. QED  BY <2>1
<1>2. a * d = b * d + d + e * d /\ e * d \in Nat
  BY <1>1
<1>. QED  BY <1>2

\* No product of doubles comes out below the number it is.
Exact == FallsShort = {}

(* dbr_set_bitrate: a share is at most one unit below what it should be,   *)
(* and less than that where doubles are exact.                             *)
LEMMA ScaledIs ==
    ASSUME NEW a \in Nat, NEW s \in Nat, NEW d \in Nat \ {0}
    PROVE  /\ Scaled(a, s, d) \in Nat
           /\ Scaled(a, s, d) * d <= a * s /\ a * s <= Scaled(a, s, d) * d + d
           /\ Exact => a * s < Scaled(a, s, d) * d + d
<1>1. PICK m \in Nat : m = a * s
  OBVIOUS
<1>2. PICK q \in Nat : q = m \div d /\ q * d <= m /\ m < q * d + d
  BY DivisionBounds
<1>3. CASE <<a, s, d>> \notin FallsShort
  <2>1. Scaled(a, s, d) = q
    BY <1>1, <1>2, <1>3, Zenon DEF Scaled
  <2>2. q * d \in Nat
    OBVIOUS
  <2>3. m <= q * d + d
    BY <1>2, <2>2
  <2>. QED  BY <1>1, <1>2, <2>1, <2>3, Zenon
<1>4. CASE <<a, s, d>> \in FallsShort
  <2>1. a > 0 /\ s > 0 /\ m % d = 0
    BY <1>1, <1>4, DoublesAssumption
  <2>2. m = q * d
    BY <1>2, <2>1
  <2>3. m # 0
    BY <1>1, <2>1
  <2>4. q # 0
    BY <2>2, <2>3
  <2>5. PICK p \in Nat : p = q - 1 /\ p * d + d = m
    <3>1. q - 1 \in Nat /\ (q - 1) * d + d = q * d
      BY <2>4
    <3>. QED  BY <2>2, <3>1
  <2>6. Scaled(a, s, d) = p
    BY <1>1, <1>2, <1>4, <2>5, Zenon DEF Scaled
  <2>7. p * d <= m /\ m <= p * d + d
    <3>1. p * d \in Nat
      OBVIOUS
    <3>. QED  BY <2>5, <3>1
  <2>8. ~Exact
    BY <1>4 DEF Exact
  <2>. QED  BY <1>1, <2>6, <2>7, <2>8, Zenon
<1>. QED  BY <1>3, <1>4

(* Nothing is scaled where the columns are the same.                       *)
LEMMA NothingScaled == \A s \in Int : Scaled(0, s, 1) = 0
<1> SUFFICES ASSUME NEW s \in Int PROVE Scaled(0, s, 1) = 0
  OBVIOUS
<1>1. <<0, s, 1>> \notin FallsShort
  BY DoublesAssumption
<1>2. (0 * s) \div 1 = 0
  OBVIOUS
<1>. QED  BY <1>1, <1>2, Zenon DEF Scaled

(* dbr_set_bitrate: the tracks get their shares of a bitrate below that of *)
(* the user.  What is lost in rounding is at most one for every track.     *)
LEMMA SharesFit ==
    ASSUME NEW r \in [VideoTracks -> Nat], NEW cur \in Nat, cur <= Total(r), Total(r) # 0
    PROVE  LET shares == [v \in VideoTracks |-> Scaled(r[v], cur, Total(r))]
           IN /\ shares \in [VideoTracks -> Nat]
              /\ \A v \in VideoTracks : shares[v] <= r[v]
              /\ Total(shares) <= cur /\ cur <= Total(shares) + Cardinality(VideoTracks)
              /\ Exact => cur < Total(shares) + Cardinality(VideoTracks)
<1> DEFINE T == Total(r)
<1> DEFINE shares == [v \in VideoTracks |-> Scaled(r[v], cur, T)]
<1> DEFINE n == Cardinality(VideoTracks)
<1>0. T \in Nat \ {0}
  BY TotalIsNat
<1>n. n \in Nat \ {0}
  <2>1. n \in Nat /\ n # 0
    BY TracksAssumption, FS_CardinalityType, FS_EmptySet
  <2>. QED  BY <2>1
<1> HIDE DEF T, n
<1>1. ASSUME NEW v \in VideoTracks
      PROVE  /\ shares[v] \in Nat /\ shares[v] <= r[v]
             /\ shares[v] * T <= r[v] * cur /\ r[v] * cur <= shares[v] * T + T
             /\ Exact => r[v] * cur < shares[v] * T + T
  <2>1. PICK x \in Nat : x = r[v]
    OBVIOUS
  <2>2. x * cur \in Nat
    OBVIOUS
  <2>3. PICK q \in Nat : /\ q = Scaled(x, cur, T) /\ q * T <= x * cur
                        /\ x * cur <= q * T + T /\ (Exact => x * cur < q * T + T)
    BY <1>0, ScaledIs, Zenon
  <2>4. x * cur <= x * T
    <3>1. PICK e \in Nat : T = cur + e
      <4>1. T - cur \in Nat /\ T = cur + (T - cur)
        BY <1>0 DEF T
      <4>. QED  BY <4>1
    <3>2. x * T = x * cur + x * e /\ x * e \in Nat
      BY <3>1
    <3>. QED  BY <2>2, <3>2
  <2>5. q * T \in Nat /\ x * T \in Nat
    BY <1>0
  <2>6. q * T <= x * T
    BY <2>2, <2>3, <2>4, <2>5
  <2>7. q <= x
    BY <1>0, <2>6, Cancel
  <2>8. shares[v] = q
    BY <2>1, <2>3, Zenon
  <2>. QED  BY <2>1, <2>3, <2>7, <2>8, Zenon
<1>2. shares \in [VideoTracks -> Nat]
  BY <1>1
<1> HIDE DEF shares
<1> DEFINE Near(a, b, m) == /\ b * T <= a * cur /\ a * cur <= b * T + m * T
                            /\ Exact /\ m # 0 => a * cur < b * T + m * T
<1> DEFINE R == {t \in Nat \X Nat \X Nat : Near(t[1], t[2], t[3])}
<1>3. <<0, 0, 0>> \in R
  <2>1. 0 * T <= 0 * cur /\ 0 * cur <= 0 * T + 0 * T
    BY <1>0
  <2>. QED  BY <2>1
<1>4. ASSUME NEW v \in VideoTracks, NEW a \in Nat, NEW b \in Nat, NEW m \in Nat, <<a, b, m>> \in R
      PROVE  <<a + r[v], b + shares[v], m + 1>> \in R
  <2>1. PICK x \in Nat, y \in Nat : x = r[v] /\ y = shares[v]
    BY <1>1
  <2>2. y * T <= x * cur /\ x * cur <= y * T + T /\ (Exact => x * cur < y * T + T)
    BY <1>1, <2>1, Zenon
  <2>3. Near(a, b, m)
    BY <1>4
  <2>4. PICK bT \in Nat, aC \in Nat, mT \in Nat, yT \in Nat, xC \in Nat :
           bT = b * T /\ aC = a * cur /\ mT = m * T /\ yT = y * T /\ xC = x * cur
    BY <1>0
  <2>5. (b + y) * T = bT + yT /\ (a + x) * cur = aC + xC /\ (m + 1) * T = mT + T
    BY <1>0, <2>4
  <2>6. bT <= aC /\ aC <= bT + mT /\ yT <= xC /\ xC <= yT + T /\ (Exact => xC < yT + T)
    BY <2>2, <2>3, <2>4, Zenon
  <2>7. bT + yT <= aC + xC /\ aC + xC <= bT + yT + (mT + T)
    BY <1>0, <2>6
  <2>8. Exact => aC + xC < bT + yT + (mT + T)
    <3>1. xC < yT + T => aC + xC < bT + yT + (mT + T)
      BY <1>0, <2>6
    <3>. QED  BY <2>6, <3>1, Zenon
  <2>9. Near(a + x, b + y, m + 1)
    BY <2>5, <2>7, <2>8, Zenon
  <2> HIDE DEF Near
  <2>10. a + x \in Nat /\ b + y \in Nat /\ m + 1 \in Nat
    OBVIOUS
  <2>. QED  BY <2>1, <2>9, <2>10
<1> HIDE DEF R
<1>5. <<Total(r), Total(shares), n>> \in R
  BY <1>2, <1>3, <1>4, TotalsRelate DEF n
<1>6. PICK U \in Nat : U = Total(shares) /\ Near(T, U, n)
  <2> HIDE DEF Near
  <2>. QED  BY <1>2, <1>5, TotalIsNat DEF R, T
<1>7. U * T <= T * cur /\ T * cur <= U * T + n * T /\ (Exact => T * cur < U * T + n * T)
  <2>1. n # 0
    BY <1>n
  <2>. QED  BY <1>6, <2>1, Zenon
<1>8. T * cur = cur * T /\ U * T + n * T = (U + n) * T
  BY <1>0, <1>n
<1>9. U * T <= cur * T /\ cur * T <= (U + n) * T /\ (Exact => cur * T < (U + n) * T)
  BY <1>7, <1>8, Zenon
<1>10. U <= cur /\ cur <= U + n
  <2>1. U + n \in Nat
    BY <1>n
  <2>. QED  BY <1>0, <1>9, <2>1, Cancel
<1>11. Exact => cur < U + n
  <2>1. cur * T < (U + n) * T => cur # U + n
    BY <1>0, <1>n
  <2>2. cur # U + n => cur < U + n
    BY <1>n, <1>10
  <2>. QED  BY <1>9, <2>1, <2>2, Zenon
<1>. QED  BY <1>1, <1>2, <1>6, <1>10, <1>11, Zenon DEF shares, T, n

\* A table with a column of zeros before every other one.
IsTable(table) ==
    /\ table \in Seq([VideoTracks -> Nat])
    /\ \E n \in Nat : Len(table) = 2 * n
    /\ \A c \in 1..Len(table), n \in Nat : c = 2 * n + 1 => \A v \in VideoTracks : table[c][v] = 0

DbrSet == [est : Nat, prev : Nat, cur : Nat, timer : BOOLEAN, rates : [VideoTracks -> Nat]]

(* init_connect: a default table is as good as the one it is added to.     *)
LEMMA TableGrows ==
    ASSUME NEW table, IsTable(table), NEW rates \in [VideoTracks -> Nat]
    PROVE  /\ IsTable(table \o <<[v \in VideoTracks |-> 0], rates>>)
           /\ table \o <<[v \in VideoTracks |-> 0], rates>> # <<>>
<1> DEFINE zero == [v \in VideoTracks |-> 0]
<1> DEFINE longer == table \o <<zero, rates>>
<1>1. zero \in [VideoTracks -> Nat] /\ \A v \in VideoTracks : zero[v] = 0
  OBVIOUS
<1> HIDE DEF zero
<1>2. table \in Seq([VideoTracks -> Nat]) /\ Len(table) \in Nat
  BY DEF IsTable
<1>3. PICK m \in Nat : Len(table) = 2 * m
  BY DEF IsTable
<1>4. longer \in Seq([VideoTracks -> Nat]) /\ Len(longer) = 2 * (m + 1)
      /\ \A c \in 1..Len(longer) : longer[c] = IF c <= 2 * m THEN table[c] ELSE
                                               IF c = 2 * m + 1 THEN zero ELSE rates
  BY <1>1, <1>2, <1>3
<1> HIDE DEF longer
<1>5. ASSUME NEW c \in 1..Len(longer), NEW n \in Nat, c = 2 * n + 1, NEW v \in VideoTracks
      PROVE  longer[c][v] = 0
  <2>1. CASE n = m
    BY <1>1, <1>4, <1>5, <2>1
  <2>2. CASE n < m
    <3>1. c \in 1..Len(table) /\ c <= 2 * m
      BY <1>3, <1>5, <2>2
    <3>. QED  BY <1>4, <1>5, <3>1 DEF IsTable
  <2>3. CASE n > m
    BY <1>4, <1>5, <2>3
  <2>. QED  BY <2>1, <2>2, <2>3
<1>6. m + 1 \in Nat /\ longer # <<>>
  BY <1>4
<1>. QED  BY <1>4, <1>5, <1>6 DEF IsTable, longer, zero

(* dbr_set_bitrate: the bitrate is between two columns of the table, and   *)
(* no track is below zero.                                                 *)
LEMMA SetBitrateType ==
    ASSUME IsTable(dbr_interpolation_table), dbr_interpolation_table # <<>>, NEW d \in DbrSet
    PROVE  SetBitrate(d) \in DbrSet
<1> DEFINE table == dbr_interpolation_table
<1> DEFINE n == Len(table)
<1> DEFINE over == {c \in DOMAIN table : Total(table[c]) > d.cur}
<1> DEFINE base == IF over = {} \/ 1 \in over THEN Len(table) ELSE Min(over) - 1
<1> DEFINE upper == Min({base + 1, Len(table)})
<1> DEFINE deltas == [v \in VideoTracks |-> table[upper][v] - table[base][v]]
<1> DEFINE overall == Max({1, Total(deltas)})
<1> DEFINE share == Min({d.cur - Total(table[base]), overall})
<1> DEFINE rates == [v \in VideoTracks |-> table[base][v] + Scaled(deltas[v], share, overall)]
<1>1. SetBitrate(d) = [d EXCEPT !.rates = rates]
  BY Zenon DEF SetBitrate
<1>2. /\ table \in Seq([VideoTracks -> Nat]) /\ n \in Nat \ {0} /\ DOMAIN table = 1..n
      /\ \A c \in 1..n : table[c] \in [VideoTracks -> Nat]
  BY DEF IsTable
<1>3. \A c \in 1..n : Total(table[c]) \in Nat
  BY <1>2, TotalIsNat
<1>4. d.cur \in Nat
  BY DEF DbrSet
<1>5. over \in SUBSET (1..n) /\ \A c \in 1..n : c \in over <=> Total(table[c]) > d.cur
  BY <1>2
<1>6. rates \in [VideoTracks -> Nat]
  <2>1. CASE over = {} \/ 1 \in over
    <3>1. base = n
      BY <2>1, Zenon
    <3> HIDE DEF over, base
    <3>2. upper = n
      <4>1. n \in Int /\ n + 1 \in Int /\ n + 1 > n
        BY <1>2
      <4>. QED  BY <3>1, <4>1, MinOfTwo
    <3> HIDE DEF upper
    <3>3. \A v \in VideoTracks : deltas[v] = 0 /\ table[base][v] \in Nat
      BY <1>2, <3>1, <3>2
    <3> HIDE DEF deltas
    <3>4. Total(deltas) = 0
      BY <3>3, TotalOfNothing
    <3>5. overall = 1
      BY <3>4, MaxOfTwo
    <3>6. d.cur - Total(table[base]) \in Int
      BY <1>2, <1>3, <1>4, <3>1
    <3> HIDE DEF overall
    <3>7. share \in Int
      BY <3>5, <3>6, MinOfTwo
    <3> HIDE DEF share, table
    <3>8. \A v \in VideoTracks : Scaled(deltas[v], share, overall) = 0
      BY <3>3, <3>5, <3>7, NothingScaled, Zenon
    <3>. QED  BY <3>3, <3>8
  <2>2. CASE over # {} /\ 1 \notin over
    <3> DEFINE m == Min(over)
    <3>1. base = m - 1
      BY <2>2, Zenon
    <3> HIDE DEF over, base
    <3>2. m \in over /\ \A y \in over : m <= y
      BY <1>2, <1>5, <2>2, MinInSet
    <3> HIDE DEF m
    <3>3. m \in 2..n
      BY <1>2, <1>5, <2>2, <3>2
    <3>4. base \in 1..n /\ base + 1 = m /\ base \notin over
      BY <1>2, <3>1, <3>2, <3>3
    <3>5. upper = m
      <4>1. m \in Int /\ n \in Int /\ m <= n
        BY <1>2, <3>3
      <4>. QED  BY <3>4, <4>1, MinOfTwo
    <3> HIDE DEF upper
    <3>6. \E h \in Nat : base = 2 * h + 1
      <4>1. \E h \in Nat : m = 2 * h \/ m = 2 * h + 1
        <5>1. m \div 2 \in Nat /\ m % 2 \in {0, 1} /\ m = 2 * (m \div 2) + (m % 2)
          BY <3>3
        <5>. QED  BY <5>1
      <4>2. ASSUME NEW h \in Nat, m = 2 * h + 1 PROVE FALSE
        <5>1. m \in 1..Len(table)
          BY <1>2, <3>3
        <5>2. \A v \in VideoTracks : table[m][v] = 0
          BY <4>2, <5>1, Zenon DEF IsTable
        <5>3. Total(table[m]) = 0
          BY <5>2, TotalOfNothing
        <5>. QED  BY <1>4, <1>5, <3>2, <3>3, <5>3
      <4>3. PICK h \in Nat : m = 2 * h
        BY <4>1, <4>2
      <4>4. h - 1 \in Nat /\ base = 2 * (h - 1) + 1
        BY <3>3, <3>4, <4>3
      <4>. QED  BY <4>4
    <3>7. \A v \in VideoTracks : table[base][v] = 0
      BY <3>4, <3>6 DEF IsTable
    <3>8. Total(table[base]) = 0
      BY <3>7, TotalOfNothing
    <3>9. deltas \in [VideoTracks -> Nat]
      BY <1>2, <3>3, <3>5, <3>7
    <3> HIDE DEF deltas, table
    <3>10. overall \in Nat \ {0}
      BY <3>9, TotalIsNat, MaxOfTwo
    <3> HIDE DEF overall
    <3>11. share \in Nat
      BY <1>4, <3>8, <3>10, MinOfTwo
    <3> HIDE DEF share
    <3>12. \A v \in VideoTracks : deltas[v] \in Nat
      BY <3>9
    <3>13. \A v \in VideoTracks : Scaled(deltas[v], share, overall) \in Nat
      BY <3>10, <3>11, <3>12, ScaledIs, Zenon
    <3>. QED  BY <3>7, <3>13
  <2>. QED  BY <2>1, <2>2
<1> HIDE DEF rates
<1>. QED  BY <1>1, <1>6 DEF DbrSet

-----------------------------------------------------------------------------
(* Types                                                                   *)

\* The types, that the encoders are at a frame of the session, and that a
\* stream with dynamic bitrate has a table.
TypeInv ==
    /\ TypeOK
    /\ k \in Nat /\ Frame(k) \in 0..MaxFrames
    /\ epc = "mutex" => Frame(k) < MaxFrames
    /\ IsTable(dbr_interpolation_table)
    /\ dbr_enabled => dbr_interpolation_table # <<>>

LEMMA DbrType ==
    ASSUME TypeOK
    PROVE  Dbr \in DbrSet
BY DEF TypeOK, Dbr, DbrSet

(* dbr_bitrate_lowered, dbr_inc_bitrate: what they leave.                  *)
LEMMA AdaptedType ==
    ASSUME TypeInv, dbr_enabled, NEW timer
    PROVE  Adapted(timer) \in DbrSet
<1>1. \A d \in DbrSet : SetBitrate(d) \in DbrSet
  BY SetBitrateType, Zenon DEF TypeInv
<1>2. dbr_orig_bitrate \in Nat /\ dbr_orig_bitrate \div 10 \in Nat
  <2>1. dbr_orig_bitrate \in Nat
    BY DEF TypeInv, TypeOK
  <2>. QED  BY <2>1
<1>3. ASSUME NEW d \in DbrSet PROVE Increased(d) \in DbrSet
  <2> DEFINE cur == d.cur + dbr_orig_bitrate \div 10
  <2> DEFINE e == [d EXCEPT !.prev = d.cur, !.cur = Min({cur, dbr_orig_bitrate}),
                            !.timer = cur < dbr_orig_bitrate]
  <2>1. cur \in Nat
    BY <1>2 DEF DbrSet
  <2> HIDE DEF cur
  <2>2. Min({cur, dbr_orig_bitrate}) \in Nat
    BY <1>2, <2>1, MinOfTwo
  <2>a. PICK m \in Nat : m = Min({cur, dbr_orig_bitrate})
    BY <2>2
  <2>b. (cur < dbr_orig_bitrate) \in BOOLEAN
    <3>1. CASE cur < dbr_orig_bitrate
      BY <3>1, SMT
    <3>2. CASE ~(cur < dbr_orig_bitrate)
      BY <3>2, SMT
    <3>. QED  BY <3>1, <3>2
  <2>3. PICK b \in BOOLEAN : b = (cur < dbr_orig_bitrate)
    BY <2>b, Zenon
  <2>4. [d EXCEPT !.prev = d.cur, !.cur = m, !.timer = b] \in DbrSet
    BY DEF DbrSet
  <2>5. e \in DbrSet
    BY <2>a, <2>3, <2>4, Zenon
  <2>. QED  BY <1>1, <2>5, Zenon DEF Increased, cur
<1>4. ASSUME NEW d \in DbrSet PROVE Lowered(d) \in DbrSet
  <2> DEFINE new == IF d.est # 0 /\ d.est < d.cur THEN Max({(d.est \div 100) * 100, 50}) ELSE d.prev
  <2>1. new \in Nat
    <3>1. d.est \in Nat /\ d.prev \in Nat
      BY DEF DbrSet
    <3>2. (d.est \div 100) * 100 \in Nat
      BY <3>1
    <3>3. Max({(d.est \div 100) * 100, 50}) \in Nat
      BY <3>2, MaxOfTwo
    <3>. QED  BY <3>1, <3>3
  <2>2. Lowered(d) = IF new \in {0, d.cur} THEN d
                     ELSE SetBitrate([d EXCEPT !.prev = 0, !.cur = new, !.timer = TRUE])
    BY Zenon DEF Lowered
  <2> HIDE DEF new
  <2>3. [d EXCEPT !.prev = 0, !.cur = new, !.timer = TRUE] \in DbrSet
    BY <2>1 DEF DbrSet
  <2>. QED  BY <1>1, <2>2, <2>3, Zenon
<1>5. Dbr \in DbrSet
  BY DbrType, Zenon DEF TypeInv
<1>. QED  BY <1>3, <1>4, <1>5, Zenon DEF Adapted

\* What depends on dbr has its types.
DbrTypes ==
    /\ {dbr_est_bitrate, dbr_prev_bitrate, dbr_cur_bitrate} \subseteq Nat
    /\ dbr_inc_timeout \in BOOLEAN /\ bitrate \in [VideoTracks -> Nat]

LEMMA KeepTypes ==
    ASSUME NEW d \in DbrSet, Keep(d)
    PROVE  DbrTypes'
BY DEF Keep, DbrTypes, DbrSet

(* drop_frames: the priorities it waits for.                               *)
LEMMA DroppedPriority ==
    ASSUME NEW c, c.min \in {0, 2, 3}
    PROVE  Dropped(c).min \in {0, 2, 3}
<1>1. ASSUME NEW e, e.min \in {0, 2, 3}, NEW threshold, NEW priority \in {2, 3}
      PROVE  Drop(e, threshold, priority).min \in {0, 2, 3}
  <2>1. Max({e.min, priority}) \in {0, 2, 3}
    BY <1>1, MaxOfTwo
  <2>. QED  BY <1>1, <2>1 DEF Drop
<1>2. Priority["p"] \in {2, 3} /\ Priority["key"] \in {2, 3}
  BY DEF Priority
<1>3. PICK d : d = Drop(c, drop_threshold, Priority["p"])
  OBVIOUS
<1>4. d.min \in {0, 2, 3}
  BY <1>1, <1>2, <1>3
<1>5. Drop(d, pframe_drop_threshold, Priority["key"]).min \in {0, 2, 3}
  BY <1>1, <1>2, <1>4
<1>. QED  BY <1>3, <1>5, Zenon DEF Dropped

(* interleave_packets: the frame of the next packet.                       *)
LEMMA NextFrame ==
    ASSUME NEW i \in Nat
    PROVE  Frame(i) \in Nat /\ Frame(i + 1) \in {Frame(i), Frame(i) + 1}
<1>1. PICK d : d = Len(Sources)
  OBVIOUS
<1>2. d \in Nat \ {0}
  BY <1>1, SourcesAre
<1>3. i \div d \in Nat /\ (i + 1) \div d \in {i \div d, (i \div d) + 1}
  BY <1>2, DivisionStep
<1>. QED  BY <1>1, <1>3, Zenon DEF Frame

LEMMA PacketTime == Packet(k).ts = Frame(k)
BY DEF Packet

LEMMA InitTypes == Init => TypeInv
<1> SUFFICES ASSUME Init PROVE TypeInv
  OBVIOUS
<1>1. TypeOK
  <2>1. send_sem \in Nat /\ min_priority \in {0, 2, 3} /\ last_dts \in 0..MaxFrames
    BY BoundsAssumption DEF Init
  <2>2. {active, disconnected, dbr_enabled, dbr_inc_timeout, capturing} \subseteq BOOLEAN
    BY DEF Init
  <2>3. {dbr_est_bitrate, dbr_orig_bitrate, dbr_prev_bitrate, dbr_cur_bitrate} \subseteq Nat
        /\ bitrate \in [VideoTracks -> Nat] /\ stop_ts \in {Running}
        /\ spc = "down" /\ epc = "idle"
    BY BitrateAssumption DEF Init
  <2>. QED  BY <2>1, <2>2, <2>3 DEF TypeOK
<1>2. k = 0 /\ Frame(0) = 0
  <2>1. Len(Sources) \in Nat \ {0}
    BY SourcesAre
  <2>. QED  BY <2>1 DEF Init, Frame
<1>3. IsTable(<<>>)
  BY DEF IsTable
<1>. QED  BY <1>1, <1>2, <1>3, BoundsAssumption DEF Init, TypeInv

\* What a step leaves of the types when it does not touch them.
LEMMA TypesFrom ==
    ASSUME TypeInv,
           send_sem' \in Nat, min_priority' \in {0, 2, 3},
           last_dts' = last_dts \/ (last_dts' = Frame(k) /\ epc = "mutex"),
           UNCHANGED dbrSetup /\ (UNCHANGED dbr \/ DbrTypes'),
           k' = k \/ (k' = k + 1 /\ Frame(k) < MaxFrames),
           epc' \in {"idle", "mutex", "post"}, epc' = "mutex" => Frame(k) < MaxFrames /\ k' = k,
           capturing' = capturing \/ capturing' = FALSE,
           active' = active \/ active' = FALSE,
           disconnected' = disconnected \/ disconnected' = TRUE,
           stop_ts' = stop_ts \/ stop_ts' \in {Running, 0, Frame(k) + 1},
           spc' \in {"down", "wait", "sending", "leaving", "free", "inactive"}
    PROVE  TypeInv'
<1>1. /\ k \in Nat /\ Frame(k) \in 0..MaxFrames /\ IsTable(dbr_interpolation_table)
      /\ (epc = "mutex" => Frame(k) < MaxFrames) /\ MaxFrames \in Nat
      /\ dbr_enabled => dbr_interpolation_table # <<>>
  BY BoundsAssumption DEF TypeInv
<1>2. DbrTypes /\ dbr_orig_bitrate \in Nat
  BY DEF TypeInv, TypeOK, DbrTypes
<1>3. UNCHANGED dbrSetup /\ DbrTypes'
  <2>1. UNCHANGED dbr => DbrTypes' = DbrTypes
    BY DEF dbr, DbrTypes
  <2>. QED  BY <1>2, <2>1, Zenon DEF dbrSetup
<1>4. UNCHANGED <<dbr_enabled, dbr_orig_bitrate, dbr_interpolation_table>>
  BY <1>3 DEF dbrSetup
<1>5. k' \in Nat /\ Frame(k)' \in 0..MaxFrames /\ (epc' = "mutex" => Frame(k)' < MaxFrames)
  <2>1. CASE k' = k
    <3>1. Frame(k)' = Frame(k)
      BY <2>1 DEF Frame
    <3>. QED  BY <1>1, <2>1, <3>1
  <2>2. CASE k' = k + 1 /\ Frame(k) < MaxFrames
    <3>1. Frame(k)' = Frame(k + 1)
      BY <2>2 DEF Frame
    <3>2. PICK f \in Nat : f = Frame(k) /\ Frame(k + 1) \in {f, f + 1}
      BY <1>1, NextFrame
    <3>3. Frame(k + 1) \in 0..MaxFrames
      BY <1>1, <2>2, <3>2
    <3>4. epc' # "mutex"
      BY <1>1, <2>2
    <3>. QED  BY <1>1, <2>2, <3>1, <3>3, <3>4
  <2>. QED  BY <2>1, <2>2
<1>6. last_dts' \in 0..MaxFrames
  BY <1>1 DEF TypeInv, TypeOK
<1>7. {active, disconnected, dbr_enabled, dbr_inc_timeout, capturing}' \subseteq BOOLEAN
  BY <1>3, <1>4 DEF TypeInv, TypeOK, DbrTypes
<1>8. stop_ts' \in {Running} \cup 0..MaxFrames + 1
  BY <1>1 DEF TypeInv, TypeOK
<1>9. {dbr_est_bitrate, dbr_orig_bitrate, dbr_prev_bitrate, dbr_cur_bitrate}' \subseteq Nat
      /\ bitrate' \in [VideoTracks -> Nat]
  BY <1>2, <1>3, <1>4 DEF DbrTypes
<1>10. TypeOK'
  BY <1>6, <1>7, <1>8, <1>9, Zenon DEF TypeOK
<1>11. IsTable(dbr_interpolation_table)' /\ (dbr_enabled' => dbr_interpolation_table' # <<>>)
  BY <1>1, <1>4 DEF IsTable
<1>. QED  BY <1>5, <1>10, <1>11, Zenon DEF TypeInv

LEMMA NextTypes ==
    ASSUME TypeInv, [Next]_vars
    PROVE  TypeInv'
<1>0. /\ send_sem \in Nat /\ min_priority \in {0, 2, 3} /\ epc \in {"idle", "mutex", "post"}
      /\ spc \in {"down", "wait", "sending", "leaving", "free", "inactive"}
      /\ (epc = "mutex" => Frame(k) < MaxFrames)
  BY DEF TypeInv, TypeOK
<1>1. CASE Connect
  <2>1. /\ send_sem' = 0 /\ min_priority' = 0 /\ active' = TRUE /\ disconnected' = FALSE
        /\ dbr_enabled' \in BOOLEAN /\ dbr_orig_bitrate' = Total(bitrate)
        /\ dbr_cur_bitrate' = Total(bitrate) /\ dbr_est_bitrate' = 0 /\ dbr_inc_timeout' = FALSE
        /\ dbr_interpolation_table' = dbr_interpolation_table \o <<[v \in VideoTracks |-> 0], bitrate>>
        /\ spc' = "wait" /\ capturing' = TRUE /\ k' = 0
        /\ UNCHANGED <<last_dts, stop_ts, dbr_prev_bitrate, bitrate, epc>>
    BY <1>1 DEF Connect
  <2>2. /\ IsTable(dbr_interpolation_table) /\ last_dts \in 0..MaxFrames /\ bitrate \in [VideoTracks -> Nat]
        /\ dbr_prev_bitrate \in Nat /\ stop_ts \in {Running} \cup 0..MaxFrames + 1
        /\ (epc = "mutex" => Frame(k) < MaxFrames) /\ Frame(k) \in 0..MaxFrames
    BY DEF TypeInv, TypeOK
  <2>3. IsTable(dbr_interpolation_table)' /\ dbr_interpolation_table' # <<>>
    <3>1. PICK table : table = dbr_interpolation_table'
      OBVIOUS
    <3>2. IsTable(table) /\ table # <<>>
      BY <2>1, <2>2, <3>1, TableGrows, Zenon
    <3>3. IsTable(dbr_interpolation_table') /\ dbr_interpolation_table' # <<>>
      BY <3>1, <3>2, Zenon
    <3>. QED  BY <3>3, Zenon DEF IsTable
  <2>4. Total(bitrate) \in Nat
    BY <2>2, TotalIsNat
  <2>5. Frame(0) = 0
    <3>1. Len(Sources) \in Nat \ {0}
      BY SourcesAre
    <3>. QED  BY <3>1 DEF Frame
  <2>6. Frame(k)' = 0
    BY <2>1, <2>5, Zenon DEF Frame
  <2>7. k' \in Nat /\ Frame(k)' \in 0..MaxFrames /\ (epc' = "mutex" => Frame(k)' < MaxFrames)
    BY <2>1, <2>2, <2>6, BoundsAssumption
  <2>8. TypeOK'
    <3>1. {active, disconnected, dbr_enabled, dbr_inc_timeout, capturing}' \subseteq BOOLEAN
      BY <2>1
    <3>2. {dbr_est_bitrate, dbr_orig_bitrate, dbr_prev_bitrate, dbr_cur_bitrate}' \subseteq Nat
      BY <2>1, <2>2, <2>4
    <3>3. send_sem' \in Nat /\ min_priority' \in {0, 2, 3} /\ last_dts' \in 0..MaxFrames
          /\ bitrate' \in [VideoTracks -> Nat] /\ stop_ts' \in {Running} \cup 0..MaxFrames + 1
          /\ spc' \in {"down", "wait", "sending", "leaving", "free", "inactive"}
          /\ epc' \in {"idle", "mutex", "post"}
      BY <1>0, <2>1, <2>2
    <3>. QED  BY <3>1, <3>2, <3>3, Zenon DEF TypeOK
  <2>. QED  BY <2>3, <2>7, <2>8, Zenon DEF TypeInv
<1>2. CASE Stop
  <2>1. /\ send_sem' \in {send_sem, send_sem + 1} /\ stop_ts' \in {0, Frame(k) + 1}
        /\ UNCHANGED <<min_priority, last_dts, active, disconnected, dbr, dbrSetup, spc, capturing, k, epc>>
    BY <1>2 DEF Stop, encoder
  <2>2. send_sem' \in Nat
    BY <1>0, <2>1
  <2>. QED  BY <1>0, <2>1, <2>2, TypesFrom
<1>3. CASE EncodersStop \/ DataEnter \/ DataGone
  <2>1. /\ UNCHANGED <<send_sem, min_priority, last_dts, state, dbr, dbrSetup, spc>>
        /\ (capturing' = capturing \/ capturing' = FALSE) /\ epc' \in {"idle", "mutex"}
        /\ (k' = k \/ (k' = k + 1 /\ Frame(k) < MaxFrames))
        /\ (epc' = "mutex" => Frame(k) < MaxFrames /\ k' = k)
    BY <1>0, <1>3 DEF EncodersStop, DataEnter, DataGone, queue
  <2>. QED  BY <1>0, <2>1, TypesFrom DEF state
<1>4. CASE AddAudio
  <2>1. /\ UNCHANGED <<send_sem, min_priority, last_dts, state, dbr, dbrSetup, spc, capturing>>
        /\ k' = k + 1 /\ epc = "mutex" /\ epc' = "post"
    BY <1>4 DEF AddAudio, Added
  <2>. QED  BY <1>0, <2>1, TypesFrom DEF state
<1>5. CASE AddVideo
  <2>1. PICK c : /\ c = IF dbr_enabled THEN [q |-> packets, min |-> min_priority]
                        ELSE Dropped([q |-> packets, min |-> min_priority])
                 /\ IF TooLow(Packet(k), c)
                    THEN min_priority' = c.min /\ epc' = "idle" /\ last_dts' = last_dts
                    ELSE /\ min_priority' = [c EXCEPT !.min = 0].min
                         /\ epc' = "post" /\ last_dts' = Packet(k).ts
    BY <1>5, Zenon DEF AddVideo, Added
  <2>2. /\ UNCHANGED <<send_sem, state, dbrSetup, spc, capturing>> /\ k' = k + 1 /\ epc = "mutex"
        /\ IF dbr_enabled THEN \E timer \in BOOLEAN : Keep(Adapted(timer)) ELSE UNCHANGED dbr
    BY <1>5, Zenon DEF AddVideo
  <2>3. c.min \in {0, 2, 3} /\ \E a, b : c = [q |-> a, min |-> b]
    <3>1. PICK now : now = [q |-> packets, min |-> min_priority]
      OBVIOUS
    <3>2. now.min \in {0, 2, 3}
      BY <1>0, <3>1
    <3>3. Dropped(now).min \in {0, 2, 3}
      BY <3>2, DroppedPriority
    <3>4. \E a, b : c = [q |-> a, min |-> b]
      BY <2>1, Zenon DEF Dropped, Drop
    <3>. QED  BY <2>1, <3>1, <3>2, <3>3, <3>4, Zenon
  <2>4. [c EXCEPT !.min = 0].min = 0
    BY <2>3
  <2>5. min_priority' \in {0, 2, 3} /\ epc' \in {"idle", "post"}
        /\ (last_dts' = last_dts \/ last_dts' = Frame(k))
    <3>1. CASE TooLow(Packet(k), c)
      BY <2>1, <2>3, <3>1
    <3>2. CASE ~TooLow(Packet(k), c)
      BY <2>1, <2>4, <3>2, PacketTime
    <3>. QED  BY <3>1, <3>2
  <2>6. UNCHANGED dbrSetup /\ (UNCHANGED dbr \/ DbrTypes')
    <3>1. CASE dbr_enabled
      <4>1. PICK d : d \in DbrSet /\ Keep(d)
        BY <2>2, <3>1, AdaptedType, Zenon
      <4>. QED  BY <2>2, <4>1, KeepTypes, Zenon
    <3>2. CASE ~dbr_enabled
      BY <2>2, <3>2, Zenon
    <3>. QED  BY <3>1, <3>2
  <2>. QED  BY <1>0, <2>2, <2>5, <2>6, TypesFrom DEF state
<1>6. CASE Post
  <2>1. /\ UNCHANGED <<min_priority, last_dts, state, dbr, dbrSetup, spc, capturing, k>>
        /\ send_sem' = send_sem + 1 /\ epc' = "idle"
    BY <1>6 DEF Post
  <2>2. send_sem' \in Nat
    BY <1>0, <2>1
  <2>. QED  BY <1>0, <2>1, <2>2, TypesFrom DEF state
<1>7. CASE WakeForNothing \/ StopNow \/ StopAtPacket \/ SendPacket \/ Broken \/ FreeRest \/ GoInactive
  <2>1. /\ UNCHANGED <<min_priority, last_dts, dbr, dbrSetup, k, capturing, epc>>
        /\ send_sem' = send_sem \/ (send_sem > 0 /\ send_sem' = send_sem - 1)
        /\ spc' \in {spc, "sending", "leaving", "inactive", "down"}
    BY <1>7 DEF WakeForNothing, StopNow, StopAtPacket, SendPacket, Broken, FreeRest, GoInactive,
                SendStep, encoder
  <2>2. /\ active' = active \/ active' = FALSE
        /\ disconnected' = disconnected \/ disconnected' = TRUE
        /\ stop_ts' = stop_ts \/ stop_ts' = Running
    BY <1>7 DEF WakeForNothing, StopNow, StopAtPacket, SendPacket, Broken, FreeRest, GoInactive, state
  <2>3. send_sem' \in Nat
    BY <1>0, <2>1
  <2>. QED  BY <1>0, <2>1, <2>2, <2>3, TypesFrom
<1>8. CASE Sent
  <2>1. /\ UNCHANGED <<send_sem, min_priority, last_dts, state, dbrSetup, k, capturing, epc>>
        /\ spc' = "wait"
        /\ dbr_est_bitrate' = dbr_est_bitrate \/ dbr_est_bitrate' \in Estimates \cup {0}
        /\ UNCHANGED <<dbr_prev_bitrate, dbr_cur_bitrate, dbr_inc_timeout, bitrate>>
    BY <1>8 DEF Sent, SendStep, encoder
  <2>2. DbrTypes
    BY DEF TypeInv, TypeOK, DbrTypes
  <2>3. dbr_est_bitrate' \in Nat
    <3>1. dbr_est_bitrate \in Nat /\ Estimates \cup {0} \subseteq Nat
      BY <2>2, BitrateAssumption DEF DbrTypes
    <3>. QED  BY <2>1, <3>1, Zenon
  <2>4. DbrTypes'
    BY <2>1, <2>2, <2>3 DEF DbrTypes
  <2>. QED  BY <1>0, <2>1, <2>4, TypesFrom DEF state
<1>9. CASE Leave
  <2>1. /\ UNCHANGED <<send_sem, min_priority, last_dts, state, dbrSetup, k, capturing, epc>>
        /\ spc' = "free"
        /\ \/ UNCHANGED dbr
           \/ dbr_enabled /\ Keep(SetBitrate([Dbr EXCEPT !.cur = dbr_orig_bitrate]))
    BY <1>9, Zenon DEF Leave, SendStep, encoder
  <2>2. [Dbr EXCEPT !.cur = dbr_orig_bitrate] \in DbrSet
    <3>1. Dbr \in DbrSet /\ dbr_orig_bitrate \in Nat
      BY DbrType DEF TypeInv, TypeOK
    <3>2. PICK d : d = Dbr
      OBVIOUS
    <3>3. [d EXCEPT !.cur = dbr_orig_bitrate] \in DbrSet
      BY <3>1, <3>2 DEF DbrSet
    <3>. QED  BY <3>2, <3>3
  <2>3. dbr_enabled => SetBitrate([Dbr EXCEPT !.cur = dbr_orig_bitrate]) \in DbrSet
    BY <2>2, SetBitrateType, Zenon DEF TypeInv
  <2>4. UNCHANGED dbrSetup /\ (UNCHANGED dbr \/ DbrTypes')
    BY <2>1, <2>3, KeepTypes, Zenon
  <2>. QED  BY <1>0, <2>1, <2>4, TypesFrom DEF state
<1>10. CASE UNCHANGED vars
  <2>1. UNCHANGED <<send_sem, min_priority, last_dts, state, dbr, dbrSetup, spc, k, capturing, epc>>
    BY <1>10 DEF vars, queue, encoder
  <2>. QED  BY <1>0, <2>1, TypesFrom DEF state
<1>. QED  BY <1>1, <1>2, <1>3, <1>4, <1>5, <1>6, <1>7, <1>8, <1>9, <1>10, Zenon DEF Next

(* rtmp_stream_data, dbr_set_bitrate: no count of the stream is below zero *)
(* and no track is given a bitrate below zero, whatever table and estimate *)
(* it is worked out from.                                                  *)
THEOREM TypeCorrect == Spec => []TypeOK
<1>1. TypeInv => TypeOK
  BY DEF TypeInv
<1>. QED  BY InitTypes, NextTypes, <1>1, PTL DEF Spec

-----------------------------------------------------------------------------
(* The bitrate is shared out                                               *)

\* No track is given more than the user set for it.
UnderRates(rates) == \A v \in VideoTracks : rates[v] <= Bitrates[v]

\* All tracks together get the bitrate; what is lost in rounding is at most one
\* for every track, and less where doubles are exact.
FitsIn(rates, cur) ==
    /\ Total(rates) <= cur /\ cur <= Total(rates) + Cardinality(VideoTracks)
    /\ Exact => cur < Total(rates) + Cardinality(VideoTracks)

\* The columns are settings of the encoders.
RatesTable(table) == \A c \in 1..Len(table) : UnderRates(table[c])

(* dbr_set_bitrate: a bitrate that is not above the last column is shared  *)
(* out completely, and no track is above the column the shares come from.  *)
LEMMA SetBitrateFits ==
    ASSUME IsTable(dbr_interpolation_table), dbr_interpolation_table # <<>>,
           RatesTable(dbr_interpolation_table), NEW d \in DbrSet,
           d.cur <= Total(dbr_interpolation_table[Len(dbr_interpolation_table)])
    PROVE  \E rates \in [VideoTracks -> Nat] :
               /\ SetBitrate(d) = [d EXCEPT !.rates = rates]
               /\ UnderRates(rates) /\ FitsIn(rates, d.cur)
<1> DEFINE table == dbr_interpolation_table
<1> DEFINE n == Len(table)
<1> DEFINE over == {c \in DOMAIN table : Total(table[c]) > d.cur}
<1> DEFINE base == IF over = {} \/ 1 \in over THEN Len(table) ELSE Min(over) - 1
<1> DEFINE upper == Min({base + 1, Len(table)})
<1> DEFINE deltas == [v \in VideoTracks |-> table[upper][v] - table[base][v]]
<1> DEFINE overall == Max({1, Total(deltas)})
<1> DEFINE share == Min({d.cur - Total(table[base]), overall})
<1> DEFINE rates == [v \in VideoTracks |-> table[base][v] + Scaled(deltas[v], share, overall)]
<1>1. SetBitrate(d) = [d EXCEPT !.rates = rates]
  BY Zenon DEF SetBitrate
<1>2. /\ table \in Seq([VideoTracks -> Nat]) /\ n \in Nat \ {0} /\ DOMAIN table = 1..n
      /\ \A c \in 1..n : table[c] \in [VideoTracks -> Nat]
  BY DEF IsTable
<1>3. \A c \in 1..n : Total(table[c]) \in Nat
  BY <1>2, TotalIsNat
<1>4. d.cur \in Nat
  BY DEF DbrSet
<1>5. over \in SUBSET (1..n) /\ \A c \in 1..n : c \in over <=> Total(table[c]) > d.cur
  BY <1>2
<1>t. Cardinality(VideoTracks) \in Nat \ {0}
  <2>1. Cardinality(VideoTracks) \in Nat /\ Cardinality(VideoTracks) # 0
    BY TracksAssumption, FS_CardinalityType, FS_EmptySet
  <2>. QED  BY <2>1
<1>u. \A c \in 1..n : UnderRates(table[c])
  BY Zenon DEF RatesTable
\* A column of zeros never is above the bitrate.
<1>z. \A c \in 1..n, h \in Nat : c = 2 * h + 1 =>
          (\A v \in VideoTracks : table[c][v] = 0) /\ Total(table[c]) = 0 /\ c \notin over
  <2> SUFFICES ASSUME NEW c \in 1..n, NEW h \in Nat, c = 2 * h + 1
               PROVE  (\A v \in VideoTracks : table[c][v] = 0) /\ Total(table[c]) = 0 /\ c \notin over
    BY Zenon
  <2>1. \A v \in VideoTracks : table[c][v] = 0
    BY Zenon DEF IsTable
  <2>2. Total(table[c]) = 0
    BY <2>1, TotalOfNothing
  <2>. QED  BY <1>4, <1>5, <2>1, <2>2
<1>6. 1 \notin over
  <2>1. 1 \in 1..n /\ 0 \in Nat /\ 1 = 2 * 0 + 1
    BY <1>2
  <2>. QED  BY <1>z, <2>1
<1>7. rates \in [VideoTracks -> Nat] /\ UnderRates(rates) /\ FitsIn(rates, d.cur)
  <2>1. CASE over = {}
    <3>1. base = n
      BY <2>1, Zenon
    <3>a. Total(table[n]) = d.cur
      <4>1. n \in 1..n /\ n \notin over
        BY <1>2, <2>1
      <4>. QED  BY <1>3, <1>4, <1>5, <4>1
    <3> HIDE DEF over, base
    <3>2. upper = n
      <4>1. n \in Int /\ n + 1 \in Int /\ n + 1 > n
        BY <1>2
      <4>. QED  BY <3>1, <4>1, MinOfTwo
    <3> HIDE DEF upper
    <3>3. \A v \in VideoTracks : deltas[v] = 0 /\ table[base][v] \in Nat
      BY <1>2, <3>1, <3>2
    <3> HIDE DEF deltas
    <3>4. Total(deltas) = 0
      BY <3>3, TotalOfNothing
    <3>5. overall = 1
      BY <3>4, MaxOfTwo
    <3>6. d.cur - Total(table[base]) \in Int
      BY <1>2, <1>3, <1>4, <3>1
    <3> HIDE DEF overall
    <3>7. share \in Int
      BY <3>5, <3>6, MinOfTwo
    <3> HIDE DEF share
    <3>8. \A v \in VideoTracks : Scaled(deltas[v], share, overall) = 0
      BY <3>3, <3>5, <3>7, NothingScaled, Zenon
    <3>9. table[n] \in [VideoTracks -> Nat] /\ UnderRates(table[n])
      BY <1>2, <1>u
    <3> HIDE DEF table, n
    <3>10. rates = table[n]
      BY <3>1, <3>3, <3>8, <3>9
    <3> HIDE DEF rates
    <3>11. FitsIn(table[n], d.cur)
      BY <1>4, <1>t, <3>a DEF FitsIn
    <3>. QED  BY <3>9, <3>10, <3>11
  <2>2. CASE over # {}
    <3> DEFINE m == Min(over)
    <3>1. base = m - 1
      BY <1>6, <2>2, Zenon
    <3>2. m \in over /\ \A y \in over : m <= y
      <4> HIDE DEF over
      <4>. QED  BY <1>2, <1>5, <2>2, MinInSet
    <3> HIDE DEF over, base, m
    <3>3. m \in 2..n
      BY <1>2, <1>5, <1>6, <3>2
    <3>4. base \in 1..n /\ base + 1 = m /\ base \notin over
      BY <1>2, <3>1, <3>2, <3>3
    <3>5. upper = m
      <4>1. m \in Int /\ n \in Int /\ m <= n
        BY <1>2, <3>3
      <4>. QED  BY <3>4, <4>1, MinOfTwo
    <3> HIDE DEF upper
    <3>6. \E h \in Nat : base = 2 * h + 1
      <4>1. \E h \in Nat : m = 2 * h \/ m = 2 * h + 1
        <5>1. m \div 2 \in Nat /\ m % 2 \in {0, 1} /\ m = 2 * (m \div 2) + (m % 2)
          BY <3>3
        <5>. QED  BY <5>1
      <4>2. ASSUME NEW h \in Nat, m = 2 * h + 1 PROVE FALSE
        <5>1. m \in 1..n
          BY <1>2, <3>3
        <5>. QED  BY <1>z, <3>2, <4>2, <5>1, Zenon
      <4>3. PICK h \in Nat : m = 2 * h
        BY <4>1, <4>2
      <4>4. h - 1 \in Nat /\ base = 2 * (h - 1) + 1
        BY <3>3, <3>4, <4>3
      <4>. QED  BY <4>4
    <3>7. (\A v \in VideoTracks : table[base][v] = 0) /\ Total(table[base]) = 0
      BY <1>z, <3>4, <3>6, Zenon
    <3>8. PICK r \in [VideoTracks -> Nat] : r = table[m] /\ UnderRates(r)
      <4>1. m \in 1..n
        BY <1>2, <3>3
      <4>. QED  BY <1>2, <1>u, <4>1
    <3>9. deltas = r
      BY <3>5, <3>7, <3>8
    <3>10. Total(r) \in Nat /\ Total(r) > d.cur
      <4>1. m \in 1..n
        BY <1>2, <3>3
      <4>. QED  BY <1>3, <1>5, <3>2, <3>8, <4>1
    <3> HIDE DEF deltas, table, n
    <3>11. overall = Total(r)
      <4>1. PICK t \in Nat : t = Total(r) /\ t >= 1
        BY <1>4, <3>10
      <4>2. Max({1, t}) = t
        BY <4>1, MaxOfTwo
      <4>. QED  BY <3>9, <4>1, <4>2, Zenon
    <3> HIDE DEF overall
    <3>12. share = d.cur
      <4>1. d.cur - Total(table[base]) = d.cur
        BY <1>4, <3>7
      <4>2. Min({d.cur, overall}) = d.cur
        BY <1>4, <3>10, <3>11, MinOfTwo
      <4>. QED  BY <4>1, <4>2
    <3> HIDE DEF share
    <3> DEFINE shares == [v \in VideoTracks |-> Scaled(r[v], d.cur, Total(r))]
    <3>13. /\ shares \in [VideoTracks -> Nat] /\ \A v \in VideoTracks : shares[v] <= r[v]
           /\ Total(shares) <= d.cur /\ d.cur <= Total(shares) + Cardinality(VideoTracks)
           /\ Exact => d.cur < Total(shares) + Cardinality(VideoTracks)
      <4>1. d.cur <= Total(r) /\ Total(r) # 0
        BY <1>4, <3>10
      <4>. QED  BY <1>4, <4>1, SharesFit, Zenon
    <3>14. \A v \in VideoTracks : rates[v] = shares[v]
      <4> SUFFICES ASSUME NEW v \in VideoTracks PROVE rates[v] = shares[v]
        OBVIOUS
      <4>1. rates[v] = table[base][v] + Scaled(r[v], d.cur, Total(r))
        BY <3>9, <3>11, <3>12
      <4>2. shares[v] = Scaled(r[v], d.cur, Total(r)) /\ shares[v] \in Nat
        BY <3>13
      <4> HIDE DEF shares, rates
      <4>. QED  BY <3>7, <4>1, <4>2
    <3>15. rates = shares
      BY <3>14
    <3> HIDE DEF rates, shares
    <3>16. \A v \in VideoTracks : Bitrates[v] \in Nat /\ r[v] \in Nat /\ shares[v] \in Nat
      BY <3>13, BitrateAssumption
    <3>17. UnderRates(shares)
      BY <3>8, <3>13, <3>16 DEF UnderRates
    <3>. QED  BY <3>13, <3>15, <3>17, Zenon DEF FitsIn
  <2>. QED  BY <2>1, <2>2
<1> HIDE DEF rates
<1>. QED  BY <1>1, <1>7, Zenon

\* What a stream may set: no track and no bitrate above the original, and a way
\* back that is not up.
RatesFit(d) ==
    /\ d \in DbrSet /\ d.est \in {0} \cup Estimates
    /\ d.prev <= d.cur /\ d.cur <= dbr_orig_bitrate
    /\ UnderRates(d.rates) /\ FitsIn(d.rates, d.cur)

\* The last column is the settings of this connection.
TableFits ==
    /\ IsTable(dbr_interpolation_table) /\ RatesTable(dbr_interpolation_table)
    /\ dbr_orig_bitrate \in Nat
    /\ dbr_interpolation_table # <<>> =>
           dbr_orig_bitrate = Total(dbr_interpolation_table[Len(dbr_interpolation_table)])

(* dbr_set_bitrate: once the bitrate is chosen, the tracks are given it.   *)
LEMMA SetBitrateRates ==
    ASSUME TableFits, dbr_interpolation_table # <<>>, NEW d \in DbrSet,
           d.est \in {0} \cup Estimates, d.prev <= d.cur, d.cur <= dbr_orig_bitrate
    PROVE  RatesFit(SetBitrate(d)) /\ SetBitrate(d).cur = d.cur
<1>1. PICK rates \in [VideoTracks -> Nat] :
          SetBitrate(d) = [d EXCEPT !.rates = rates] /\ UnderRates(rates) /\ FitsIn(rates, d.cur)
  <2>1. d.cur <= Total(dbr_interpolation_table[Len(dbr_interpolation_table)])
    BY DEF TableFits
  <2>. QED  BY <2>1, SetBitrateFits, Zenon DEF TableFits
<1>2. PICK e : e = [d EXCEPT !.rates = rates]
  OBVIOUS
<1>3. e \in DbrSet /\ e.est = d.est /\ e.prev = d.prev /\ e.cur = d.cur /\ e.rates = rates
  BY <1>2 DEF DbrSet
<1>4. RatesFit(e)
  BY <1>1, <1>3, Zenon DEF RatesFit
<1>. QED  BY <1>1, <1>2, <1>3, <1>4, Zenon

(* dbr_inc_bitrate: by a step, and not past the original.                  *)
LEMMA IncreasedRates ==
    ASSUME TableFits, dbr_interpolation_table # <<>>, NEW d, RatesFit(d)
    PROVE  RatesFit(Increased(d)) /\ Increased(d).cur <= d.cur + dbr_orig_bitrate \div 10
<1> DEFINE cur == d.cur + dbr_orig_bitrate \div 10
<1>1. d \in DbrSet /\ d.est \in {0} \cup Estimates /\ d.cur \in Nat /\ d.cur <= dbr_orig_bitrate
  BY DEF RatesFit, DbrSet
<1>2. dbr_orig_bitrate \in Nat /\ dbr_orig_bitrate \div 10 \in Nat
  <2>1. dbr_orig_bitrate \in Nat
    BY DEF TableFits
  <2>. QED  BY <2>1
<1>3. cur \in Nat /\ d.cur <= cur
  BY <1>1, <1>2
<1> HIDE DEF cur
<1>4. PICK m \in Nat : m = Min({cur, dbr_orig_bitrate}) /\ m <= cur /\ m <= dbr_orig_bitrate /\ d.cur <= m
  <2>1. Min({cur, dbr_orig_bitrate}) \in {cur, dbr_orig_bitrate}
        /\ Min({cur, dbr_orig_bitrate}) <= cur /\ Min({cur, dbr_orig_bitrate}) <= dbr_orig_bitrate
    BY <1>2, <1>3, MinOfTwo
  <2>. QED  BY <1>1, <1>2, <1>3, <2>1
<1>5. (cur < dbr_orig_bitrate) \in BOOLEAN
  <2>1. CASE cur < dbr_orig_bitrate
    BY <2>1, SMT
  <2>2. CASE ~(cur < dbr_orig_bitrate)
    BY <2>2, SMT
  <2>. QED  BY <2>1, <2>2
<1>6. PICK b \in BOOLEAN : b = (cur < dbr_orig_bitrate)
  BY <1>5, Zenon
<1>7. PICK e : e = [d EXCEPT !.prev = d.cur, !.cur = m, !.timer = b]
  OBVIOUS
<1>8. e \in DbrSet /\ e.est = d.est /\ e.prev = d.cur /\ e.cur = m
  BY <1>1, <1>7 DEF DbrSet
<1>9. RatesFit(SetBitrate(e)) /\ SetBitrate(e).cur = m
  <2>1. e.est \in {0} \cup Estimates /\ e.prev <= e.cur /\ e.cur <= dbr_orig_bitrate
    BY <1>1, <1>4, <1>8
  <2>. QED  BY <1>8, <2>1, SetBitrateRates, Zenon
<1>10. Increased(d) = SetBitrate(e)
  BY <1>4, <1>6, <1>7, Zenon DEF Increased, cur
<1>11. m <= d.cur + dbr_orig_bitrate \div 10
  BY <1>4 DEF cur
<1>. QED  BY <1>9, <1>10, <1>11, Zenon

(* dbr_bitrate_lowered: never up.                                          *)
LEMMA LoweredRates ==
    ASSUME TableFits, dbr_interpolation_table # <<>>, NEW d, RatesFit(d)
    PROVE  RatesFit(Lowered(d)) /\ Lowered(d).cur <= d.cur
<1> DEFINE low == Max({(d.est \div 100) * 100, 50})
<1> DEFINE new == IF d.est # 0 /\ d.est < d.cur THEN low ELSE d.prev
<1>1. /\ d \in DbrSet /\ d.est \in {0} \cup Estimates /\ d.est \in Nat /\ d.cur \in Nat /\ d.prev \in Nat
      /\ d.prev <= d.cur /\ d.cur <= dbr_orig_bitrate /\ dbr_orig_bitrate \in Nat
  BY DEF RatesFit, DbrSet, TableFits
<1>2. new \in Nat /\ new <= d.cur
  <2>1. CASE d.est # 0 /\ d.est < d.cur
    <3>1. d.est \in Nat /\ 50 <= d.est
      BY <1>1, <2>1, BitrateAssumption
    <3>2. PICK h \in Nat : h = (d.est \div 100) * 100 /\ h <= d.est
      BY <3>1
    <3>3. Max({h, 50}) \in {h, 50}
      BY MaxOfTwo
    <3>4. low \in Nat /\ low <= d.est
      BY <3>1, <3>2, <3>3
    <3> HIDE DEF low
    <3>. QED  BY <1>1, <2>1, <3>1, <3>4
  <2>2. CASE ~(d.est # 0 /\ d.est < d.cur)
    <3> HIDE DEF low
    <3>1. new = d.prev
      BY <2>2, Zenon
    <3>. QED  BY <1>1, <3>1
  <2>. QED  BY <2>1, <2>2
<1>3. Lowered(d) = IF new \in {0, d.cur} THEN d
                   ELSE SetBitrate([d EXCEPT !.prev = 0, !.cur = new, !.timer = TRUE])
  BY Zenon DEF Lowered
<1> HIDE DEF new
<1>4. PICK e : e = [d EXCEPT !.prev = 0, !.cur = new, !.timer = TRUE]
  OBVIOUS
<1>5. e \in DbrSet /\ e.est = d.est /\ e.prev = 0 /\ e.cur = new
  BY <1>1, <1>2, <1>4 DEF DbrSet
<1>6. RatesFit(SetBitrate(e)) /\ SetBitrate(e).cur = new
  <2>1. e.est \in {0} \cup Estimates /\ e.prev <= e.cur /\ e.cur <= dbr_orig_bitrate
    BY <1>1, <1>2, <1>5
  <2>. QED  BY <1>5, <2>1, SetBitrateRates, Zenon
<1>7. CASE new \in {0, d.cur}
  <2>1. Lowered(d) = d /\ d.cur <= d.cur
    BY <1>1, <1>3, <1>7
  <2>. QED  BY <2>1, Zenon
<1>8. CASE new \notin {0, d.cur}
  <2>1. Lowered(d) = SetBitrate(e)
    BY <1>3, <1>4, <1>8, Zenon
  <2>. QED  BY <1>2, <1>6, <2>1, Zenon
<1>. QED  BY <1>7, <1>8

(* add_video_packet, with dynamic bitrate: both checks, one after the other. *)
LEMMA AdaptedRates ==
    ASSUME TableFits, dbr_interpolation_table # <<>>, RatesFit(Dbr), NEW timer
    PROVE  RatesFit(Adapted(timer)) /\ Adapted(timer).cur <= dbr_cur_bitrate + dbr_orig_bitrate \div 10
<1>1. PICK s \in Nat : s = dbr_orig_bitrate \div 10
  <2>1. dbr_orig_bitrate \in Nat
    BY DEF TableFits
  <2>. QED  BY <2>1
<1>2. Dbr.cur = dbr_cur_bitrate
  BY DEF Dbr
<1>3. PICK d : d = IF dbr_inc_timeout /\ timer THEN Increased(Dbr) ELSE Dbr
  OBVIOUS
<1>4. \A e : RatesFit(e) => e.cur \in Nat
  BY DEF RatesFit, DbrSet
<1>5. RatesFit(d) /\ d.cur <= dbr_cur_bitrate + s
  <2>1. CASE d = Increased(Dbr)
    BY <1>1, <1>2, <2>1, IncreasedRates, Zenon
  <2>2. CASE d = Dbr
    <3>1. dbr_cur_bitrate \in Nat
      BY <1>2, <1>4
    <3>2. d.cur <= dbr_cur_bitrate + s
      BY <1>2, <2>2, <3>1
    <3>. QED  BY <2>2, <3>2, Zenon
  <2>. QED  BY <1>3, <2>1, <2>2, Zenon
<1>6. RatesFit(Lowered(d)) /\ Lowered(d).cur <= d.cur
  BY <1>5, LoweredRates, Zenon
<1>7. d.cur \in Nat /\ Lowered(d).cur \in Nat /\ dbr_cur_bitrate \in Nat
  BY <1>2, <1>4, <1>5, <1>6, Zenon
<1>8. Lowered(d).cur <= dbr_cur_bitrate + s
  BY <1>5, <1>6, <1>7
<1>9. Adapted(timer) \in {d, Lowered(d)}
  BY <1>3, Zenon DEF Adapted
<1>. QED  BY <1>1, <1>5, <1>6, <1>8, <1>9

\* Before the first connection.
Fresh ==
    /\ spc = "down" /\ ~capturing /\ epc = "idle"
    /\ dbr_interpolation_table = <<>> /\ dbr_prev_bitrate = 0 /\ bitrate = Bitrates

\* The settings of the encoders fit the bitrate from the first connection on.
RateInv ==
    /\ TypeInv /\ TableFits
    /\ Fresh \/ (dbr_interpolation_table # <<>> /\ RatesFit(Dbr))

LEMMA InitRates == Init => RateInv
<1> SUFFICES ASSUME Init PROVE RateInv
  OBVIOUS
<1>1. TableFits
  BY DEF Init, TableFits, IsTable, RatesTable
<1>2. Fresh
  BY DEF Init, Fresh
<1>. QED  BY <1>1, <1>2, InitTypes, Zenon DEF RateInv

LEMMA KeepRates ==
    ASSUME NEW d, RatesFit(d), Keep(d), UNCHANGED dbr_orig_bitrate
    PROVE  RatesFit(Dbr)'
<1>1. d \in DbrSet
  BY DEF RatesFit
<1>2. Dbr' = d
  BY <1>1 DEF Keep, Dbr, DbrSet
<1>3. RatesFit(Dbr') 
  BY <1>2, Zenon
<1>4. Dbr' \in DbrSet /\ Dbr'.est \in {0} \cup Estimates
      /\ Dbr'.prev <= Dbr'.cur /\ Dbr'.cur <= dbr_orig_bitrate'
      /\ UnderRates(Dbr'.rates) /\ FitsIn(Dbr'.rates, Dbr'.cur)
  BY <1>3, Zenon DEF RatesFit
<1>. QED  BY <1>4 DEF RatesFit, UnderRates, FitsIn, DbrSet

\* A step of a stream that is connected.
RateStep ==
    /\ UNCHANGED dbrSetup
    /\ \/ UNCHANGED dbr
       \/ \E d : Keep(d) /\ RatesFit(d)
    /\ dbr_cur_bitrate' > dbr_cur_bitrate =>
           \/ dbr_cur_bitrate' <= dbr_cur_bitrate + dbr_orig_bitrate \div 10
           \/ dbr_cur_bitrate' = dbr_orig_bitrate' /\ spc # spc'

LEMMA NextRateStep ==
    ASSUME RateInv, ~Fresh, [Next]_vars, ~Connect
    PROVE  RateStep
<1>0. /\ TypeInv /\ TableFits /\ dbr_interpolation_table # <<>> /\ RatesFit(Dbr)
      /\ Dbr \in DbrSet /\ dbr_cur_bitrate \in Nat /\ dbr_orig_bitrate \in Nat
  <2>1. dbr_cur_bitrate \in Nat /\ dbr_orig_bitrate \in Nat
    BY DEF RateInv, TypeInv, TypeOK
  <2>. QED  BY <2>1, Zenon DEF RateInv, RatesFit
<1>1. UNCHANGED dbrSetup
  BY DEF Next, vars, Connect, Stop, EncodersStop, DataEnter, DataGone, AddAudio, AddVideo, Post,
         WakeForNothing, StopNow, StopAtPacket, SendPacket, Sent, Broken, Leave, FreeRest, GoInactive, SendStep
<1>2. CASE AddVideo
  <2>1. CASE dbr_enabled
    <3>1. PICK timer \in BOOLEAN : Keep(Adapted(timer))
      BY <1>2, <2>1, Zenon DEF AddVideo
    <3>2. PICK d : d = Adapted(timer)
      OBVIOUS
    <3>3. RatesFit(d) /\ d.cur <= dbr_cur_bitrate + dbr_orig_bitrate \div 10
      BY <1>0, <3>2, AdaptedRates, Zenon
    <3>4. Keep(d) /\ dbr_cur_bitrate' = d.cur
      BY <3>1, <3>2 DEF Keep
    <3>. QED  BY <1>1, <3>3, <3>4, Zenon DEF RateStep
  <2>2. CASE ~dbr_enabled
    <3>1. UNCHANGED dbr
      BY <1>2, <2>2, Zenon DEF AddVideo
    <3>2. dbr_cur_bitrate' = dbr_cur_bitrate
      BY <3>1 DEF dbr
    <3>3. ~(dbr_cur_bitrate' > dbr_cur_bitrate)
      BY <1>0, <3>2
    <3>. QED  BY <1>1, <3>1, <3>3, Zenon DEF RateStep
  <2>. QED  BY <2>1, <2>2
<1>3. CASE Leave
  <2>1. CASE dbr_enabled /\ dbr_cur_bitrate # dbr_orig_bitrate
    <3>1. PICK e : e = [Dbr EXCEPT !.cur = dbr_orig_bitrate]
      OBVIOUS
    <3>2. PICK d : d = SetBitrate(e)
      OBVIOUS
    <3>3. Keep(d) /\ spc = "leaving" /\ spc' = "free"
      BY <1>3, <2>1, <3>1, <3>2, Zenon DEF Leave, SendStep
    <3>4. e \in DbrSet /\ e.est \in {0} \cup Estimates /\ e.prev <= e.cur
          /\ e.cur <= dbr_orig_bitrate /\ e.cur = dbr_orig_bitrate
      <4>1. PICK b \in DbrSet : b = Dbr
        BY <1>0
      <4>2. b.est \in {0} \cup Estimates /\ b.prev <= b.cur /\ b.cur <= dbr_orig_bitrate
            /\ b.prev \in Nat /\ b.cur \in Nat
        BY <1>0, <4>1 DEF RatesFit, DbrSet
      <4>3. e \in DbrSet /\ e.est = b.est /\ e.prev = b.prev /\ e.cur = dbr_orig_bitrate
        BY <1>0, <3>1, <4>1 DEF DbrSet
      <4>. QED  BY <1>0, <4>2, <4>3
    <3>5. RatesFit(d) /\ d.cur = dbr_orig_bitrate
      BY <1>0, <3>2, <3>4, SetBitrateRates, Zenon
    <3>6. dbr_cur_bitrate' = dbr_orig_bitrate' /\ spc # spc'
      BY <1>1, <3>3, <3>5 DEF Keep, dbrSetup
    <3>. QED  BY <1>1, <3>3, <3>5, <3>6, Zenon DEF RateStep
  <2>2. CASE ~(dbr_enabled /\ dbr_cur_bitrate # dbr_orig_bitrate)
    <3>1. UNCHANGED dbr
      BY <1>3, <2>2, Zenon DEF Leave
    <3>2. dbr_cur_bitrate' = dbr_cur_bitrate
      BY <3>1 DEF dbr
    <3>3. ~(dbr_cur_bitrate' > dbr_cur_bitrate)
      BY <1>0, <3>2
    <3>. QED  BY <1>1, <3>1, <3>3, Zenon DEF RateStep
  <2>. QED  BY <2>1, <2>2
<1>4. CASE Sent
  <2>1. /\ UNCHANGED <<dbr_prev_bitrate, dbr_cur_bitrate, dbr_inc_timeout, bitrate>>
        /\ dbr_est_bitrate' = dbr_est_bitrate \/ dbr_est_bitrate' \in {0} \cup Estimates
    BY <1>4 DEF Sent
  <2>2. PICK d : d = [Dbr EXCEPT !.est = dbr_est_bitrate']
    OBVIOUS
  <2>3. dbr_est_bitrate' \in {0} \cup Estimates /\ dbr_est_bitrate' \in Nat
    <3>1. dbr_est_bitrate \in {0} \cup Estimates
      BY <1>0 DEF RatesFit, Dbr
    <3>2. {0} \cup Estimates \subseteq Nat
      BY BitrateAssumption
    <3>. QED  BY <2>1, <3>1, <3>2, Zenon
  <2>4. /\ d \in DbrSet /\ d.est = dbr_est_bitrate' /\ d.prev = dbr_prev_bitrate /\ d.cur = dbr_cur_bitrate
        /\ d.timer = dbr_inc_timeout /\ d.rates = bitrate
    <3>1. d = [Dbr EXCEPT !.est = dbr_est_bitrate']
      BY <2>2
    <3>. QED  BY <1>0, <2>3, <3>1 DEF DbrSet, Dbr
  <2>5. Keep(d)
    BY <2>1, <2>4 DEF Keep
  <2>6. RatesFit(d)
    <3>1. Dbr.prev = d.prev /\ Dbr.cur = d.cur /\ Dbr.rates = d.rates
      BY <2>4 DEF Dbr
    <3>. QED  BY <1>0, <2>3, <2>4, <3>1, Zenon DEF RatesFit
  <2>7. ~(dbr_cur_bitrate' > dbr_cur_bitrate)
    BY <1>0, <2>1
  <2>. QED  BY <1>1, <2>5, <2>6, <2>7, Zenon DEF RateStep
<1>5. CASE \/ Stop \/ EncodersStop \/ DataEnter \/ DataGone \/ AddAudio \/ Post \/ WakeForNothing \/ StopNow
           \/ StopAtPacket \/ SendPacket \/ Broken \/ FreeRest \/ GoInactive \/ UNCHANGED vars
  <2>1. UNCHANGED dbr
    BY <1>5 DEF vars, Stop, EncodersStop, DataEnter, DataGone, AddAudio, Post,
         WakeForNothing, StopNow, StopAtPacket, SendPacket, Broken, FreeRest, GoInactive, SendStep
  <2>2. dbr_cur_bitrate' = dbr_cur_bitrate
    BY <2>1 DEF dbr
  <2>3. ~(dbr_cur_bitrate' > dbr_cur_bitrate)
    BY <1>0, <2>2
  <2>. QED  BY <1>1, <2>1, <2>3, Zenon DEF RateStep
<1>. QED  BY <1>2, <1>3, <1>4, <1>5, Zenon DEF Next

(* init_connect: a stream starts with what the encoders are set to.        *)
LEMMA ConnectRates ==
    ASSUME RateInv, Connect, PreviousInRange
    PROVE  TableFits' /\ dbr_interpolation_table' # <<>> /\ RatesFit(Dbr)'
<1>1. /\ dbr_orig_bitrate' = Total(bitrate) /\ dbr_cur_bitrate' = Total(bitrate)
      /\ dbr_est_bitrate' = 0 /\ dbr_inc_timeout' = FALSE
      /\ dbr_interpolation_table' = dbr_interpolation_table \o <<[v \in VideoTracks |-> 0], bitrate>>
      /\ UNCHANGED <<dbr_prev_bitrate, bitrate>>
      /\ spc = "down" /\ ~capturing
  BY DEF Connect
<1>2. /\ IsTable(dbr_interpolation_table) /\ RatesTable(dbr_interpolation_table)
      /\ bitrate \in [VideoTracks -> Nat] /\ dbr_prev_bitrate \in Nat
  BY DEF RateInv, TableFits, TypeInv, TypeOK
<1>3. UnderRates(bitrate)
  <2>1. CASE Fresh
    <3>1. \A v \in VideoTracks : Bitrates[v] \in Nat
      BY BitrateAssumption
    <3>. QED  BY <2>1, <3>1 DEF Fresh, UnderRates
  <2>2. CASE RatesFit(Dbr)
    BY <2>2 DEF RatesFit, Dbr
  <2>. QED  BY <2>1, <2>2, Zenon DEF RateInv
<1>4. PICK n \in Nat : n = Total(bitrate) /\ dbr_prev_bitrate <= n
  BY <1>1, <1>2, TotalIsNat DEF PreviousInRange
<1>5. PICK table : table = dbr_interpolation_table'
  OBVIOUS
<1>6. IsTable(table) /\ table # <<>>
  BY <1>1, <1>2, <1>5, TableGrows, Zenon
<1>7. RatesTable(table) /\ table[Len(table)] = bitrate
  <2> DEFINE old == dbr_interpolation_table
  <2> DEFINE zero == [v \in VideoTracks |-> 0]
  <2>1. old \in Seq([VideoTracks -> Nat])
    BY <1>2 DEF IsTable
  <2>2. UnderRates(zero)
    BY BitrateAssumption DEF UnderRates
  <2> HIDE DEF zero
  <2>3. table = old \o <<zero, bitrate>>
    BY <1>1, <1>5 DEF zero
  <2>4. Len(table) = Len(old) + 2 /\ table[Len(table)] = bitrate
        /\ \A c \in 1..Len(table) : table[c] = zero \/ table[c] = bitrate
                                    \/ (c \in 1..Len(old) /\ table[c] = old[c])
    BY <2>1, <2>3
  <2>5. ASSUME NEW c \in 1..Len(table) PROVE UnderRates(table[c])
    BY <1>2, <1>3, <2>2, <2>4, Zenon DEF RatesTable
  <2>. QED  BY <2>4, <2>5, Zenon DEF RatesTable
<1>8. TableFits'
  <2>1. IsTable(dbr_interpolation_table') /\ RatesTable(dbr_interpolation_table')
        /\ dbr_orig_bitrate' \in Nat
        /\ dbr_orig_bitrate' = Total(dbr_interpolation_table'[Len(dbr_interpolation_table')])
    BY <1>1, <1>4, <1>5, <1>6, <1>7, Zenon
  <2>. QED  BY <2>1, Zenon DEF TableFits, IsTable, RatesTable, UnderRates
<1>9. RatesFit(Dbr)'
  <2>1. PICK d : d = [est |-> 0, prev |-> dbr_prev_bitrate, cur |-> n, timer |-> FALSE, rates |-> bitrate]
    OBVIOUS
  <2>2. d \in DbrSet
    BY <1>2, <2>1 DEF DbrSet
  <2>3. Dbr' = d
    BY <1>1, <1>4, <2>1 DEF Dbr
  <2>4. Cardinality(VideoTracks) \in Nat /\ Cardinality(VideoTracks) # 0
    BY TracksAssumption, FS_CardinalityType, FS_EmptySet
  <2>5. FitsIn(bitrate, n)
    BY <1>4, <2>4 DEF FitsIn
  <2>6. d.est \in {0} \cup Estimates /\ d.prev <= d.cur /\ d.cur <= n /\ d.cur = n /\ d.rates = bitrate
    BY <1>4, <2>1
  <2>7. Dbr' \in DbrSet /\ Dbr'.est \in {0} \cup Estimates
        /\ Dbr'.prev <= Dbr'.cur /\ Dbr'.cur <= dbr_orig_bitrate'
        /\ UnderRates(Dbr'.rates) /\ FitsIn(Dbr'.rates, Dbr'.cur)
    BY <1>1, <1>3, <1>4, <2>2, <2>3, <2>5, <2>6, Zenon
  <2>. QED  BY <2>7 DEF RatesFit, UnderRates, FitsIn, DbrSet
<1>. QED  BY <1>5, <1>6, <1>8, <1>9, Zenon

LEMMA FreshStep ==
    ASSUME Fresh, [Next]_vars, ~Connect
    PROVE  UNCHANGED vars
BY DEF Fresh, Next, Connect, Stop, EncodersStop, DataEnter, DataGone, AddAudio, AddVideo, Post,
         WakeForNothing, StopNow, StopAtPacket, SendPacket, Sent, Broken, Leave, FreeRest, GoInactive, SendStep

LEMMA NextRates ==
    ASSUME RateInv, [Next]_vars, PreviousInRange
    PROVE  RateInv'
<1>1. TypeInv'
  BY NextTypes DEF RateInv
<1>2. CASE Connect
  BY <1>1, <1>2, ConnectRates, Zenon DEF RateInv
<1>3. CASE ~Connect /\ Fresh
  <2>1. UNCHANGED vars
    BY <1>3, FreshStep
  <2>2. Fresh' /\ (TableFits' <=> TableFits)
    BY <1>3, <2>1 DEF Fresh, TableFits, IsTable, RatesTable, vars, dbrSetup, dbr, encoder
  <2>. QED  BY <1>1, <2>2, Zenon DEF RateInv
<1>4. CASE ~Connect /\ ~Fresh
  <2>1. RateStep
    BY <1>4, NextRateStep
  <2>2. UNCHANGED <<dbr_orig_bitrate, dbr_interpolation_table>>
    BY <2>1 DEF RateStep, dbrSetup
  <2>3. TableFits'
    BY <2>2 DEF RateInv, TableFits, IsTable, RatesTable
  <2>4. dbr_interpolation_table # <<>> /\ RatesFit(Dbr)
    BY <1>4, Zenon DEF RateInv
  <2>5. RatesFit(Dbr)'
    <3>1. CASE UNCHANGED dbr
      <4>1. PICK d : d = Dbr
        OBVIOUS
      <4>2. Keep(d) /\ RatesFit(d)
        BY <2>4, <3>1, <4>1 DEF dbr, Keep, Dbr
      <4>. QED  BY <2>2, <4>2, KeepRates, Zenon
    <3>2. ASSUME NEW d, Keep(d), RatesFit(d) PROVE RatesFit(Dbr)'
      BY <2>2, <3>2, KeepRates
    <3>. QED  BY <2>1, <3>1, <3>2, Zenon DEF RateStep
  <2>. QED  BY <1>1, <2>2, <2>3, <2>4, <2>5, Zenon DEF RateInv
<1>. QED  BY <1>2, <1>3, <1>4

\* A step of UpByStep.
UpStep ==
    dbr_cur_bitrate' > dbr_cur_bitrate =>
         \/ dbr_cur_bitrate' <= dbr_cur_bitrate + dbr_orig_bitrate \div 10
         \/ dbr_cur_bitrate' = dbr_orig_bitrate' /\ spc # spc'

LEMMA RatesUp ==
    ASSUME RateInv, [Next]_vars
    PROVE  UpStep
<1>1. CASE Connect
  BY <1>1 DEF Connect, UpStep
<1>2. CASE ~Connect /\ Fresh
  <2>1. dbr_cur_bitrate' = dbr_cur_bitrate
    BY <1>2, FreshStep DEF vars, dbr
  <2>2. dbr_cur_bitrate \in Nat
    BY DEF RateInv, TypeInv, TypeOK
  <2>. QED  BY <2>1, <2>2 DEF UpStep
<1>3. CASE ~Connect /\ ~Fresh
  BY <1>3, NextRateStep, Zenon DEF RateStep, UpStep
<1>. QED  BY <1>1, <1>2, <1>3

(* dbr_inc_bitrate, dbr_bitrate_lowered: however congestion, the timer and *)
(* the end of a stream meet, the bitrate goes up by a step or back to the  *)
(* original.                                                               *)
THEOREM BitrateUpByStep == Spec /\ []PreviousInRange => UpByStep
<1>1. Init /\ PreviousInRange => RateInv
  BY InitRates
<1>2. RateInv /\ PreviousInRange /\ [Next]_vars /\ PreviousInRange' => RateInv'
  BY NextRates
<1>3. RateInv /\ [Next]_vars => [UpStep]_vars
  BY RatesUp
<1>4. RateInv /\ [Next]_vars => 
         [dbr_cur_bitrate' > dbr_cur_bitrate =>
         \/ dbr_cur_bitrate' <= dbr_cur_bitrate + dbr_orig_bitrate \div 10
         \/ dbr_cur_bitrate' = dbr_orig_bitrate' /\ spc # spc']_vars
  BY <1>3 DEF UpStep
<1>. QED  BY <1>1, <1>2, <1>4, PTL DEF Spec, UpByStep

LEMMA RatesAreFit ==
    ASSUME RateInv
    PROVE  BitrateFits
<1> SUFFICES ASSUME dbr_enabled, Sending PROVE BitrateFits
  BY Zenon DEF BitrateFits
<1>0. ~Fresh
  BY DEF Sending, Fresh
<1>1. RatesFit(Dbr)
  BY <1>0, Zenon DEF RateInv
<1>2. UnderRates(bitrate) /\ FitsIn(bitrate, dbr_cur_bitrate)
  BY <1>1 DEF RatesFit, Dbr
<1>3. dbr_cur_bitrate \in Nat /\ bitrate \in [VideoTracks -> Nat]
  BY DEF RateInv, TypeInv, TypeOK
<1>4. PICK t \in Nat : t = Total(bitrate)
  BY <1>3, TotalIsNat
<1>5. PICK n \in Nat : n = Cardinality(VideoTracks)
  BY TracksAssumption, FS_CardinalityType
<1>6. t \in dbr_cur_bitrate - n..dbr_cur_bitrate
  BY <1>2, <1>3, <1>4, <1>5 DEF FitsIn
<1>. QED  BY <1>2, <1>4, <1>5, <1>6, Zenon DEF BitrateFits, UnderRates

(* dbr_set_bitrate: with dynamic bitrate, the tracks together get no more  *)
(* than the bitrate, and none more than the user gave it.                  *)
THEOREM BitrateIsShared == Spec /\ []PreviousInRange => []BitrateFits
<1>1. Init /\ PreviousInRange => RateInv
  BY InitRates
<1>2. RateInv /\ PreviousInRange /\ [Next]_vars /\ PreviousInRange' => RateInv'
  BY NextRates
<1>3. RateInv => BitrateFits
  BY RatesAreFit
<1>. QED  BY <1>1, <1>2, <1>3, PTL DEF Spec

(* With one track nothing is lost in rounding where doubles are exact.     *)
LEMMA OneTrackInRange ==
    ASSUME VideoTracks = {0}, FallsShort = {}, RateInv
    PROVE  PreviousInRange
<1>1. PICK t \in Nat : t = Total(bitrate)
  <2>1. bitrate \in [VideoTracks -> Nat]
    BY DEF RateInv, TypeInv, TypeOK
  <2>. QED  BY <2>1, TotalIsNat
<1>2. CASE Fresh
  BY <1>1, <1>2 DEF Fresh, PreviousInRange
<1>3. CASE ~Fresh
  <2>1. RatesFit(Dbr)
    BY <1>3, Zenon DEF RateInv
  <2>2. FitsIn(bitrate, dbr_cur_bitrate) /\ dbr_prev_bitrate <= dbr_cur_bitrate
    BY <2>1 DEF RatesFit, Dbr
  <2>3. dbr_cur_bitrate \in Nat /\ dbr_prev_bitrate \in Nat
    BY DEF RateInv, TypeInv, TypeOK
  <2>4. Cardinality(VideoTracks) = 1
    BY FS_Singleton
  <2>5. dbr_prev_bitrate <= t
    BY <1>1, <2>2, <2>3, <2>4 DEF FitsIn, Exact
  <2>. QED  BY <1>1, <2>5 DEF PreviousInRange
<1>. QED  BY <1>2, <1>3

(* Nor is anything left to find when the settings are the user's again     *)
(* after every stream.                                                     *)
LEMMA RestoredInRange ==
    ASSUME RateInv, BitrateRestored
    PROVE  PreviousInRange
<1> SUFFICES ASSUME spc = "down", ~capturing PROVE dbr_prev_bitrate <= Total(bitrate)
  BY Zenon DEF PreviousInRange
<1>1. bitrate = Bitrates /\ Bitrates \in [VideoTracks -> Nat]
  BY BitrateAssumption DEF BitrateRestored
<1>2. PICK t \in Nat : t = Total(Bitrates)
  BY <1>1, TotalIsNat
<1>3. CASE Fresh
  BY <1>1, <1>2, <1>3 DEF Fresh
<1>4. CASE ~Fresh
  <2>1. /\ RatesFit(Dbr) /\ IsTable(dbr_interpolation_table) /\ RatesTable(dbr_interpolation_table)
        /\ dbr_orig_bitrate = Total(dbr_interpolation_table[Len(dbr_interpolation_table)])
        /\ dbr_interpolation_table # <<>>
    BY <1>4, Zenon DEF RateInv, TableFits
  <2>2. PICK r : r = dbr_interpolation_table[Len(dbr_interpolation_table)]
    OBVIOUS
  <2>3. r \in [VideoTracks -> Nat] /\ UnderRates(r)
    <3>1. Len(dbr_interpolation_table) \in 1..Len(dbr_interpolation_table)
          /\ r \in [VideoTracks -> Nat]
      BY <2>1, <2>2 DEF IsTable
    <3>. QED  BY <2>1, <2>2, <3>1, Zenon DEF RatesTable
  <2>4. Total(r) <= Total(Bitrates)
    BY <1>1, <2>3, TotalGrows DEF UnderRates
  <2>5. dbr_prev_bitrate <= dbr_cur_bitrate /\ dbr_cur_bitrate <= dbr_orig_bitrate
    BY <2>1 DEF RatesFit, Dbr
  <2>6. {dbr_prev_bitrate, dbr_cur_bitrate, dbr_orig_bitrate} \subseteq Nat
    BY DEF RateInv, TypeInv, TypeOK
  <2>7. dbr_prev_bitrate <= t
    BY <1>2, <2>1, <2>2, <2>4, <2>5, <2>6
  <2>. QED  BY <1>1, <1>2, <2>7
<1>. QED  BY <1>3, <1>4

(* A stream of one track, where doubles give every share exactly: whatever *)
(* congestion and the end of a stream leave behind, the next one starts    *)
(* right.                                                                  *)
THEOREM OneTrackBitrate ==
    ASSUME VideoTracks = {0}, FallsShort = {}
    PROVE  Spec => UpByStep /\ []BitrateFits
<1>1. RateInv => PreviousInRange
  BY OneTrackInRange
<1>2. RateInv /\ [Next]_vars => RateInv'
  BY <1>1, NextRates
<1>3. RateInv => BitrateFits
  BY RatesAreFit
<1>4. RateInv /\ [Next]_vars => 
         [dbr_cur_bitrate' > dbr_cur_bitrate =>
         \/ dbr_cur_bitrate' <= dbr_cur_bitrate + dbr_orig_bitrate \div 10
         \/ dbr_cur_bitrate' = dbr_orig_bitrate' /\ spc # spc']_vars
  BY RatesUp DEF UpStep
<1>. QED  BY InitRates, <1>2, <1>3, <1>4, PTL DEF Spec, UpByStep

-----------------------------------------------------------------------------
(* How long a frame waits                                                  *)

\* A frame that drop_frames may drop.
Droppable(p) == IsVideo(p) /\ p.kind # "key"

\* Frame n of a track, or of the audio, waits in the queue.
Waits(q, track, n) == \E j \in DOMAIN q : q[j].track = track /\ q[j].ts = n

\* The queue is in the order of interleave_packets; frame f is being delivered.
InOrderUpTo(q, f) ==
    /\ \A i, j \in DOMAIN q : i < j => q[i].ts <= q[j].ts /\ (q[i].ts = q[j].ts => IsVideo(q[i]))
    /\ \A i \in DOMAIN q : q[i].ts <= f /\ (q[i].ts = f => IsVideo(q[i]))

\* Behind a frame that may be dropped there is all the audio since, and
\* all that its track had since for others to be predicted from.
NothingMissing(q, next, f) == \A i \in DOMAIN q : Droppable(q[i]) =>
    /\ \A n \in q[i].ts..f - 1 : Waits(q, Audio, n)
    /\ \A n \in q[i].ts + 1..next[q[i].track] - 1 :
          Kind(q[i].track, n) # "b" => Waits(q, q[i].track, n)

\* While there is one, only "b" frames are turned away.
OnlyBsSince(q, min, last, next) == \A i \in DOMAIN q : Droppable(q[i]) =>
    /\ min # 3
    /\ \A v \in VideoTracks : \A n \in 0..next[v] - 1 : Kind(v, n) # "b" => n <= last

\* No frame that may be dropped waits for more than a time.
WaitsAtMost(q, last, time) == \A i \in DOMAIN q : Droppable(q[i]) => last <= q[i].ts + time

LongestWait == pframe_drop_threshold + 1 + LongestRun

InTime(q, min, last, next, f) ==
    /\ q \in Seq(Frames) /\ InOrderUpTo(q, f) /\ NothingMissing(q, next, f)
    /\ OnlyBsSince(q, min, last, next) /\ WaitsAtMost(q, last, LongestWait)

(* LongestRun is the longest.                                              *)
LEMMA LongestRunIs ==
    /\ LongestRun \in Nat
    /\ \A v \in VideoTracks, f \in Nat, n \in Nat :
          f + n <= MaxFrames /\ (\A m \in f..f + n - 1 : Kind(v, m) = "b") => n <= LongestRun
<1> DEFINE runs == {n \in 0..MaxFrames : \E v \in VideoTracks, f \in 0..MaxFrames :
             f + n <= MaxFrames /\ \A m \in f..f + n - 1 : Kind(v, m) = "b"}
<1>1. 0 \in runs
  <2>1. 0 \in 0..MaxFrames /\ 0 + 0 <= MaxFrames /\ \A m \in 0..0 + 0 - 1 : FALSE
    BY BoundsAssumption
  <2>. QED  BY <2>1, TracksAssumption
<1>2. runs \in SUBSET (0..MaxFrames) /\ runs # {}
  BY <1>1
<1>3. LongestRun = Max(runs)
  BY Zenon DEF LongestRun
<1>4. \A v \in VideoTracks, f \in Nat, n \in Nat :
          f + n <= MaxFrames /\ (\A m \in f..f + n - 1 : Kind(v, m) = "b") => n \in runs
  <2> SUFFICES ASSUME NEW v \in VideoTracks, NEW f \in Nat, NEW n \in Nat,
                      f + n <= MaxFrames, \A m \in f..f + n - 1 : Kind(v, m) = "b"
               PROVE  n \in runs
    BY Zenon
  <2>1. n \in 0..MaxFrames /\ f \in 0..MaxFrames
    BY BoundsAssumption
  <2>. QED  BY <2>1, Zenon
<1> HIDE DEF runs
<1>5. Max(runs) \in runs /\ \A y \in runs : y <= Max(runs)
  <2>1. MaxFrames \in Nat
    BY BoundsAssumption
  <2>2. PICK M \in Nat : M = MaxFrames
    BY <2>1
  <2>3. runs \in SUBSET (0..M)
    BY <1>2, <2>2
  <2>. QED  BY <1>2, <2>3, MaxFromZero
<1>6. Max(runs) \in Nat
  <2>1. \A x \in 0..MaxFrames : x \in Nat
    BY BoundsAssumption
  <2>. QED  BY <1>2, <1>5, <2>1, Zenon
<1>. QED  BY <1>3, <1>4, <1>5, <1>6, Zenon

LEMMA WaitIs == LongestWait \in Nat /\ LongestRun \in Nat /\ pframe_drop_threshold \in Nat
                /\ LongestWait = pframe_drop_threshold + 1 + LongestRun /\ pframe_drop_threshold >= 1
<1>1. pframe_drop_threshold \in Nat /\ drop_threshold \in Nat /\ drop_threshold < pframe_drop_threshold
  BY ThresholdAssumption
<1>. QED  BY <1>1, LongestRunIs DEF LongestWait

\* Five places, no two of them the same.
FivePlaces(i, a, b, c, d) ==
    /\ i # a /\ i # b /\ i # c /\ i # d
    /\ a # b /\ a # c /\ a # d /\ b # c /\ b # d /\ c # d

(* A queue of four packets has no five places.                             *)
LEMMA OneTooMany ==
    ASSUME NEW q, q \in Seq(Frames), Len(q) <= 4,
           NEW a \in DOMAIN q, NEW b \in DOMAIN q, NEW c \in DOMAIN q, NEW d \in DOMAIN q,
           NEW i \in DOMAIN q,
           FivePlaces(i, a, b, c, d)
    PROVE  FALSE
<1>1. DOMAIN q \subseteq 1..4
  OBVIOUS
<1>2. \A x \in 1..4 : x = 1 \/ x = 2 \/ x = 3 \/ x = 4
  OBVIOUS
<1>3. \A x \in DOMAIN q : x = 1 \/ x = 2 \/ x = 3 \/ x = 4
  BY <1>1, <1>2, Zenon
<1>4. /\ a = 1 \/ a = 2 \/ a = 3 \/ a = 4
      /\ b = 1 \/ b = 2 \/ b = 3 \/ b = 4
      /\ c = 1 \/ c = 2 \/ c = 3 \/ c = 4
      /\ d = 1 \/ d = 2 \/ d = 3 \/ d = 4
      /\ i = 1 \/ i = 2 \/ i = 3 \/ i = 4
  BY <1>3, Zenon
<1>5. /\ i # a /\ i # b /\ i # c /\ i # d
      /\ a # b /\ a # c /\ a # d /\ b # c /\ b # d /\ c # d
  BY Zenon DEF FivePlaces
<1>. QED  BY <1>4, <1>5, SMT

(* check_to_drop_frames: a queue of four packets holds no more than three  *)
(* frames' time.                                                           *)
LEMMA ShortQueue ==
    ASSUME NEW q \in Seq(Frames), NEW next, NEW f \in Nat, NothingMissing(q, next, f),
           Len(q) <= 4, next \in [VideoTracks -> Nat], \A v \in VideoTracks : next[v] >= f,
           f < MaxFrames, NEW i \in DOMAIN q, Droppable(q[i])
    PROVE  f <= q[i].ts + LongestWait
<1>1. PICK v \in VideoTracks, s \in Nat : v = q[i].track /\ s = q[i].ts
  <2>1. q[i] \in Frames /\ IsVideo(q[i])
    BY DEF Droppable
  <2>. QED  BY <2>1, FrameIs
<1>2. v # Audio
  BY SourcesAre
<1>3. /\ \A n \in s..f - 1 : Waits(q, Audio, n)
      /\ \A n \in s + 1..next[v] - 1 : Kind(v, n) # "b" => Waits(q, v, n)
  BY <1>1, Zenon DEF NothingMissing
<1>4. f < s + 4
  <2> SUFFICES ASSUME f >= s + 4 PROVE FALSE
    BY <1>1
  <2>1. s \in s..f - 1 /\ s + 1 \in s..f - 1 /\ s + 2 \in s..f - 1 /\ s + 3 \in s..f - 1
    OBVIOUS
  <2>2. Waits(q, Audio, s) /\ Waits(q, Audio, s + 1) /\ Waits(q, Audio, s + 2) /\ Waits(q, Audio, s + 3)
    BY <1>3, <2>1, Zenon
  <2>3. PICK a \in DOMAIN q, b \in DOMAIN q, c \in DOMAIN q, d \in DOMAIN q :
           /\ q[a].track = Audio /\ q[b].track = Audio /\ q[c].track = Audio /\ q[d].track = Audio
           /\ q[a].ts = s /\ q[b].ts = s + 1 /\ q[c].ts = s + 2 /\ q[d].ts = s + 3
    BY <2>2, Zenon DEF Waits
  <2>4. i # a /\ i # b /\ i # c /\ i # d
    BY <1>1, <1>2, <2>3
  <2>n. s # s + 1 /\ s # s + 2 /\ s # s + 3 /\ s + 1 # s + 2 /\ s + 1 # s + 3 /\ s + 2 # s + 3
    OBVIOUS
  <2>5. q[a].ts # q[b].ts /\ q[a].ts # q[c].ts /\ q[a].ts # q[d].ts
        /\ q[b].ts # q[c].ts /\ q[b].ts # q[d].ts /\ q[c].ts # q[d].ts
    BY <2>3, <2>n
  <2>6. a # b /\ a # c /\ a # d /\ b # c /\ b # d /\ c # d
    BY <2>5, Zenon
  <2>7. FivePlaces(i, a, b, c, d)
    BY <2>4, <2>6, Zenon DEF FivePlaces
  <2>. QED  BY <2>7, OneTooMany, Zenon
<1>5. CASE f = s + 3 /\ LongestRun = 0
  <2>1. s \in s..f - 1 /\ s + 1 \in s..f - 1 /\ s + 2 \in s..f - 1 /\ s + 1 \in s + 1..next[v] - 1
    <3>1. next[v] \in Nat /\ next[v] >= f
      BY <1>1
    <3>. QED  BY <1>5, <3>1
  <2>2. Kind(v, s + 1) # "b"
    <3> SUFFICES ASSUME Kind(v, s + 1) = "b" PROVE FALSE
      OBVIOUS
    <3>1. (s + 1) + 1 <= MaxFrames /\ s + 1 \in Nat /\ 1 \in Nat
      BY <1>5, BoundsAssumption
    <3>2. \A m \in s + 1..(s + 1) + 1 - 1 : m = s + 1
      BY <1>1
    <3>3. 1 <= LongestRun
      BY <3>1, <3>2, LongestRunIs
    <3>. QED  BY <1>5, <3>3
  <2>3. Waits(q, Audio, s) /\ Waits(q, Audio, s + 1) /\ Waits(q, Audio, s + 2) /\ Waits(q, v, s + 1)
    BY <1>3, <2>1, <2>2, Zenon
  <2>4. PICK a \in DOMAIN q, b \in DOMAIN q, c \in DOMAIN q, d \in DOMAIN q :
           /\ q[a].track = Audio /\ q[b].track = Audio /\ q[c].track = Audio /\ q[d].track = v
           /\ q[a].ts = s /\ q[b].ts = s + 1 /\ q[c].ts = s + 2 /\ q[d].ts = s + 1
    BY <2>3, Zenon DEF Waits
  <2>5. i # a /\ i # b /\ i # c /\ d # a /\ d # b /\ d # c
    BY <1>1, <1>2, <2>4
  <2>n. s # s + 1 /\ s # s + 2 /\ s + 1 # s + 2
    OBVIOUS
  <2>6. q[a].ts # q[b].ts /\ q[a].ts # q[c].ts /\ q[b].ts # q[c].ts /\ q[i].ts # q[d].ts
    BY <1>1, <2>4, <2>n
  <2>7. a # b /\ a # c /\ b # c /\ i # d
    BY <2>6, Zenon
  <2>8. FivePlaces(i, a, b, c, d)
    BY <2>5, <2>7, Zenon DEF FivePlaces
  <2>. QED  BY <2>8, OneTooMany, Zenon
<1>6. CASE ~(f = s + 3 /\ LongestRun = 0)
  BY <1>1, <1>4, <1>6, WaitIs
<1>. QED  BY <1>5, <1>6

(* drop_frames: what it keeps is as complete.                              *)
LEMMA KeptInTime ==
    ASSUME NEW q, NEW min \in {0, 2, 3}, NEW last \in Nat, NEW next \in [VideoTracks -> Nat], NEW f \in Nat,
           InTime(q, min, last, next, f), NEW priority \in {2, 3}, NEW min2 \in {0, 2, 3},
           min2 = 3 => min = 3 \/ priority = 3
    PROVE  /\ InTime(Kept(q, priority), min2, last, next, f)
           /\ priority = 3 => \A a \in DOMAIN Kept(q, priority) : ~Droppable(Kept(q, priority)[a])
<1> DEFINE new == Kept(q, priority)
<1>0. q \in Seq(Frames) /\ InOrderUpTo(q, f) /\ NothingMissing(q, next, f)
      /\ OnlyBsSince(q, min, last, next) /\ WaitsAtMost(q, last, LongestWait)
  BY Zenon DEF InTime
<1>1. DOMAIN q = 1..Len(q) /\ \A i \in DOMAIN q : q[i] \in Frames
  BY <1>0
<1>2. IsKept(new, q, Len(q), priority) /\ new \in Seq(Frames)
  BY <1>0, KeptInOrder, KeptIsPart
<1> HIDE DEF new
<1>3. /\ \A a \in DOMAIN new : \E i \in DOMAIN q : new[a] = q[i] /\ Stays(q[i], priority)
      /\ \A a, b \in DOMAIN new : a < b =>
            \E i, j \in DOMAIN q : i < j /\ new[a] = q[i] /\ new[b] = q[j]
      /\ \A i \in DOMAIN q : Stays(q[i], priority) => \E a \in DOMAIN new : new[a] = q[i]
  <2>1. KeptOf(new, q, Len(q), priority) /\ KeptOrder(new, q, Len(q)) /\ KeptAll(new, q, Len(q), priority)
    BY <1>2, Zenon DEF IsKept
  <2>2. \A a \in DOMAIN new : \E i \in DOMAIN q : new[a] = q[i] /\ Stays(q[i], priority)
    BY <1>1, <2>1, Zenon DEF KeptOf
  <2>3. \A a, b \in DOMAIN new : a < b =>
            \E i, j \in DOMAIN q : i < j /\ new[a] = q[i] /\ new[b] = q[j]
    <3> SUFFICES ASSUME NEW a \in DOMAIN new, NEW b \in DOMAIN new, a < b
                 PROVE  \E i, j \in DOMAIN q : i < j /\ new[a] = q[i] /\ new[b] = q[j]
      BY Zenon
    <3>1. PICK i \in 1..Len(q), j \in 1..Len(q) : i < j /\ new[a] = q[i] /\ new[b] = q[j]
      BY <2>1, Zenon DEF KeptOrder
    <3>. QED  BY <1>1, <3>1, Zenon
  <2>4. \A i \in DOMAIN q : Stays(q[i], priority) => \E a \in DOMAIN new : new[a] = q[i]
    BY <1>1, <2>1, Zenon DEF KeptAll
  <2>. QED  BY <2>2, <2>3, <2>4, Zenon
<1>4. ASSUME NEW p \in Frames, Droppable(p), Stays(p, priority) PROVE priority = 2
  <2>1. p.drop_priority >= priority
    BY <1>4, Zenon DEF Droppable, Stays
  <2>2. p.drop_priority \in {0, 2}
    BY <1>4, FrameIs DEF Droppable
  <2>. QED  BY <2>1, <2>2
<1>5. \A a \in DOMAIN new : Droppable(new[a]) => priority = 2
  BY <1>1, <1>3, <1>4, Zenon
<1>6. InOrderUpTo(new, f)
  <2>1. ASSUME NEW a \in DOMAIN new, NEW b \in DOMAIN new, a < b
        PROVE  new[a].ts <= new[b].ts /\ (new[a].ts = new[b].ts => IsVideo(new[a]))
    <3>1. PICK i \in DOMAIN q, j \in DOMAIN q : i < j /\ new[a] = q[i] /\ new[b] = q[j]
      BY <1>3, <2>1, Zenon
    <3>2. q[i].ts <= q[j].ts /\ (q[i].ts = q[j].ts => IsVideo(q[i]))
      BY <1>0, <3>1, Zenon DEF InOrderUpTo
    <3>. QED  BY <3>1, <3>2, Zenon
  <2>2. ASSUME NEW a \in DOMAIN new PROVE new[a].ts <= f /\ (new[a].ts = f => IsVideo(new[a]))
    <3>1. PICK i \in DOMAIN q : new[a] = q[i]
      BY <1>3, Zenon
    <3>2. q[i].ts <= f /\ (q[i].ts = f => IsVideo(q[i]))
      BY <1>0, <3>1, Zenon DEF InOrderUpTo
    <3>. QED  BY <3>1, <3>2, Zenon
  <2>. QED  BY <2>1, <2>2, Zenon DEF InOrderUpTo
<1>7. ASSUME NEW track, NEW n, Waits(q, track, n), priority = 2,
             track = Audio \/ (track \in VideoTracks /\ Kind(track, n) # "b")
      PROVE  Waits(new, track, n)
  <2>1. PICK j \in DOMAIN q : q[j].track = track /\ q[j].ts = n
    BY <1>7, Zenon DEF Waits
  <2>2. Stays(q[j], priority)
    <3>1. CASE ~IsVideo(q[j])
      BY <3>1, Zenon DEF Stays
    <3>2. CASE IsVideo(q[j])
      <4>1. q[j].kind = Kind(track, n) /\ track # Audio
        BY <1>1, <2>1, <3>2, FrameIs, Zenon DEF IsVideo
      <4>2. q[j].kind \in {"key", "p"} /\ q[j].drop_priority \in {2, 3}
        BY <1>1, <1>7, <4>1, FrameIs
      <4>3. q[j].drop_priority >= priority
        BY <1>7, <4>2
      <4>. QED  BY <4>3, Zenon DEF Stays
    <3>. QED  BY <3>1, <3>2
  <2>. QED  BY <1>3, <2>1, <2>2, Zenon DEF Waits
<1>8. NothingMissing(new, next, f)
  <2> SUFFICES ASSUME NEW a \in DOMAIN new, Droppable(new[a])
               PROVE  /\ \A n \in new[a].ts..f - 1 : Waits(new, Audio, n)
                      /\ \A n \in new[a].ts + 1..next[new[a].track] - 1 :
                            Kind(new[a].track, n) # "b" => Waits(new, new[a].track, n)
    BY Zenon DEF NothingMissing
  <2>1. PICK i \in DOMAIN q : new[a] = q[i]
    BY <1>3, Zenon
  <2>2. Droppable(q[i]) /\ priority = 2
    BY <1>5, <2>1, Zenon
  <2>3. q[i].track \in VideoTracks
    BY <1>1, <2>2, FrameIs, Zenon DEF Droppable
  <2>4. /\ \A n \in q[i].ts..f - 1 : Waits(q, Audio, n)
        /\ \A n \in q[i].ts + 1..next[q[i].track] - 1 : Kind(q[i].track, n) # "b" => Waits(q, q[i].track, n)
    BY <1>0, <2>2, Zenon DEF NothingMissing
  <2>. QED  BY <1>7, <2>1, <2>2, <2>3, <2>4, Zenon
<1>9. OnlyBsSince(new, min2, last, next)
  <2> SUFFICES ASSUME NEW a \in DOMAIN new, Droppable(new[a])
               PROVE  /\ min2 # 3
                      /\ \A v \in VideoTracks : \A n \in 0..next[v] - 1 : Kind(v, n) # "b" => n <= last
    BY Zenon DEF OnlyBsSince
  <2>1. PICK i \in DOMAIN q : new[a] = q[i]
    BY <1>3, Zenon
  <2>2. Droppable(q[i]) /\ priority = 2
    BY <1>5, <2>1, Zenon
  <2>3. min # 3 /\ \A v \in VideoTracks : \A n \in 0..next[v] - 1 : Kind(v, n) # "b" => n <= last
    BY <1>0, <2>2, Zenon DEF OnlyBsSince
  <2>4. priority # 3
    BY <2>2
  <2>. QED  BY <2>3, <2>4, Zenon
<1>10. WaitsAtMost(new, last, LongestWait)
  BY <1>0, <1>3, Zenon DEF WaitsAtMost
<1>11. priority = 3 => \A a \in DOMAIN new : ~Droppable(new[a])
  <2>1. priority = 3 => priority # 2
    OBVIOUS
  <2>. QED  BY <1>5, <2>1, Zenon
<1>. QED  BY <1>2, <1>6, <1>8, <1>9, <1>10, <1>11, Zenon DEF InTime, new

(* check_to_drop_frames: it finds the first frame that may be dropped.     *)
LEMMA FirstIs ==
    ASSUME NEW q \in Seq(Frames), NEW i \in DOMAIN q, Droppable(q[i])
    PROVE  \E j \in DOMAIN q : j <= i /\ First(q) = q[j] /\ Droppable(q[j])
<1> DEFINE I == {j \in 1..Len(q) : Droppable(q[j])}
<1>1. First(q) = q[IF I # {} THEN Min(I) ELSE 0]
  BY Zenon DEF First, SelectInSeq, Droppable
<1>2. DOMAIN q = 1..Len(q) /\ Len(q) \in Nat
  OBVIOUS
<1>3. i \in I /\ I \in SUBSET (1..Len(q))
  BY <1>2
<1>4. \A j \in I : j \in DOMAIN q /\ Droppable(q[j])
  BY <1>2
<1> HIDE DEF I
<1>5. Min(I) \in I /\ Min(I) <= i
  BY <1>2, <1>3, MinInSet
<1>6. First(q) = q[Min(I)]
  BY <1>1, <1>3, Zenon
<1>. QED  BY <1>4, <1>5, <1>6, Zenon

(* check_to_drop_frames: no frame has waited for longer than the first.    *)
LEMMA BufferedIs ==
    ASSUME NEW q \in Seq(Frames), NEW f, InOrderUpTo(q, f), NEW t \in Nat, last_dts \in Nat
    PROVE  /\ Len(q) >= 5 /\ Buffered(q) <= t => WaitsAtMost(q, last_dts, t)
           /\ WaitsAtMost(q, last_dts, t) => Buffered(q) <= t
<1>1. \A i \in DOMAIN q : q[i].ts \in Nat /\ i \in Nat
  <2>1. \A i \in DOMAIN q : q[i] \in Frames /\ i \in Nat
    OBVIOUS
  <2>. QED  BY <2>1, FrameIs
<1>2. Len(q) \in Nat
  OBVIOUS
<1>3. ASSUME Len(q) >= 5, Buffered(q) <= t, NEW i \in DOMAIN q, Droppable(q[i])
      PROVE  last_dts <= q[i].ts + t
  <2>1. PICK j \in DOMAIN q : j <= i /\ First(q) = q[j] /\ Droppable(q[j])
    BY <1>3, FirstIs
  <2>2. ~(Len(q) < 5)
    BY <1>2, <1>3
  <2>3. \E x \in DOMAIN q : IsVideo(q[x]) /\ q[x].kind # "key"
    BY <1>3, Zenon DEF Droppable
  <2>4. Buffered(q) = last_dts - First(q).ts
    BY <2>2, <2>3, Zenon DEF Buffered
  <2>5. Buffered(q) = last_dts - q[j].ts
    BY <2>1, <2>4, Zenon
  <2>6. q[j].ts <= q[i].ts
    <3>1. CASE j = i
      BY <1>1, <3>1
    <3>2. CASE j < i
      BY <3>2, Zenon DEF InOrderUpTo
    <3>. QED  BY <1>1, <2>1, <3>1, <3>2
  <2>. QED  BY <1>1, <1>3, <2>5, <2>6
<1>4. ASSUME WaitsAtMost(q, last_dts, t) PROVE Buffered(q) <= t
  <2>1. CASE Len(q) < 5 \/ ~\E x \in DOMAIN q : IsVideo(q[x]) /\ q[x].kind # "key"
    <3>1. Buffered(q) = 0
      BY <2>1, Zenon DEF Buffered
    <3>. QED  BY <3>1
  <2>2. CASE ~(Len(q) < 5 \/ ~\E x \in DOMAIN q : IsVideo(q[x]) /\ q[x].kind # "key")
    <3>1. PICK i \in DOMAIN q : Droppable(q[i])
      BY <2>2, Zenon DEF Droppable
    <3>2. PICK j \in DOMAIN q : j <= i /\ First(q) = q[j] /\ Droppable(q[j])
      BY <3>1, FirstIs
    <3>3. Buffered(q) = last_dts - First(q).ts
      BY <2>2, Zenon DEF Buffered
    <3>4. last_dts <= q[j].ts + t
      BY <1>4, <3>2, Zenon DEF WaitsAtMost
    <3>5. Buffered(q) = last_dts - q[j].ts
      BY <3>2, <3>3, Zenon
    <3>. QED  BY <1>1, <3>4, <3>5
  <2>. QED  BY <2>1, <2>2
<1>5. Len(q) >= 5 /\ Buffered(q) <= t => WaitsAtMost(q, last_dts, t)
  BY <1>3, Zenon DEF WaitsAtMost
<1>. QED  BY <1>4, <1>5

(* check_to_drop_frames, both times: what is too old for its priority goes. *)
LEMMA DroppedInTime ==
    ASSUME NEW c, c.min \in {0, 2, 3}, NEW next \in [VideoTracks -> Nat], NEW f \in Nat, last_dts \in Nat,
           InTime(c.q, c.min, last_dts, next, f)
    PROVE  /\ InTime(Dropped(c).q, Dropped(c).min, last_dts, next, f) /\ Dropped(c).min \in {0, 2, 3}
           /\ Len(Dropped(c).q) < 5 \/ WaitsAtMost(Dropped(c).q, last_dts, pframe_drop_threshold)
<1>1. ASSUME NEW d, d.min \in {0, 2, 3}, InTime(d.q, d.min, last_dts, next, f),
             NEW threshold \in Nat, NEW priority \in {2, 3}
      PROVE  LET e == Drop(d, threshold, priority)
             IN /\ InTime(e.q, e.min, last_dts, next, f) /\ e.min \in {0, 2, 3}
                /\ priority = 3 => Len(e.q) < 5 \/ WaitsAtMost(e.q, last_dts, threshold)
  <2>0. d.q \in Seq(Frames) /\ InOrderUpTo(d.q, f)
    BY <1>1, Zenon DEF InTime
  <2>1. CASE Buffered(d.q) <= threshold
    <3>1. Drop(d, threshold, priority) = d
      BY <2>1, Zenon DEF Drop
    <3>2. Len(d.q) < 5 \/ WaitsAtMost(d.q, last_dts, threshold)
      <4>1. Len(d.q) \in Nat
        BY <2>0
      <4>2. Len(d.q) < 5 \/ Len(d.q) >= 5
        BY <4>1
      <4>. QED  BY <2>0, <2>1, <4>2, BufferedIs
    <3>. QED  BY <1>1, <3>1, <3>2, Zenon
  <2>2. CASE ~(Buffered(d.q) <= threshold)
    <3>1. PICK m : m = Max({d.min, priority})
      OBVIOUS
    <3>2. m = IF d.min >= priority THEN d.min ELSE priority
      BY <1>1, <3>1, MaxOfTwo
    <3>3. m \in {0, 2, 3} /\ (m = 3 => d.min = 3 \/ priority = 3)
      BY <1>1, <3>2
    <3>4. PICK new : new = Kept(d.q, priority)
      OBVIOUS
    <3>5. /\ InTime(new, m, last_dts, next, f)
          /\ priority = 3 => \A a \in DOMAIN new : ~Droppable(new[a])
      BY <1>1, <3>3, <3>4, KeptInTime
    <3>6. Drop(d, threshold, priority) = [q |-> new, min |-> m]
      BY <2>2, <3>1, <3>4, Zenon DEF Drop
    <3>7. Drop(d, threshold, priority).q = new /\ Drop(d, threshold, priority).min = m
      BY <3>6
    <3>8. priority = 3 => WaitsAtMost(new, last_dts, threshold)
      BY <3>5, Zenon DEF WaitsAtMost
    <3>. QED  BY <3>3, <3>5, <3>7, <3>8, Zenon
  <2>. QED  BY <2>1, <2>2
<1>2. Priority["p"] = 2 /\ Priority["key"] = 3
  BY DEF Priority
<1>3. drop_threshold \in Nat /\ pframe_drop_threshold \in Nat
  BY ThresholdAssumption
<1>4. PICK d : d = Drop(c, drop_threshold, 2)
  OBVIOUS
<1>5. InTime(d.q, d.min, last_dts, next, f) /\ d.min \in {0, 2, 3}
  BY <1>1, <1>3, <1>4
<1>6. PICK e : e = Drop(d, pframe_drop_threshold, 3)
  OBVIOUS
<1>7. /\ InTime(e.q, e.min, last_dts, next, f) /\ e.min \in {0, 2, 3}
      /\ Len(e.q) < 5 \/ WaitsAtMost(e.q, last_dts, pframe_drop_threshold)
  BY <1>1, <1>3, <1>5, <1>6
<1>8. Dropped(c) = e
  BY <1>2, <1>4, <1>6, Zenon DEF Dropped
<1>. QED  BY <1>7, <1>8, Zenon

(* add_video_packet: of the frames turned away before this one all were    *)
(* "b" frames, if there is anything that may be dropped.                   *)
LEMMA SinceLast ==
    ASSUME NEW q, NEW min, NEW last \in Nat, NEW next \in [VideoTracks -> Nat], OnlyBsSince(q, min, last, next),
           NEW i \in DOMAIN q, Droppable(q[i]), NEW v \in VideoTracks, next[v] <= MaxFrames
    PROVE  next[v] <= last + 1 + LongestRun
<1>1. PICK T \in Nat : T = next[v]
  OBVIOUS
<1>2. \A n \in 0..T - 1 : Kind(v, n) # "b" => n <= last
  BY <1>1, Zenon DEF OnlyBsSince
<1>3. LongestRun \in Nat
  BY WaitIs
<1>4. CASE T <= last + 1
  BY <1>1, <1>3, <1>4
<1>5. CASE T > last + 1
  <2>1. PICK n \in Nat : last + 1 + n = T
    <3>1. T - (last + 1) \in Nat /\ last + 1 + (T - (last + 1)) = T
      BY <1>5
    <3>. QED  BY <3>1
  <2>2. ASSUME NEW m \in last + 1..(last + 1) + n - 1 PROVE Kind(v, m) = "b"
    <3>1. m \in 0..T - 1 /\ ~(m <= last)
      BY <2>1
    <3>. QED  BY <1>2, <3>1
  <2>3. last + 1 \in Nat /\ (last + 1) + n <= MaxFrames
    BY <1>1, <2>1
  <2>4. n <= LongestRun
    BY <2>2, <2>3, LongestRunIs
  <2>. QED  BY <1>1, <1>3, <2>1, <2>4
<1>. QED  BY <1>4, <1>5

(* add_video_packet: a frame is added.  The one that waits longest waits a *)
(* frame longer than before, and as many as were turned away.              *)
LEMMA VideoInTime ==
    ASSUME NEW q, NEW min \in {0, 2, 3}, NEW last \in Nat, NEW next \in [VideoTracks -> Nat], NEW f \in Nat,
           InTime(q, min, last, next, f),
           Len(q) < 5 \/ WaitsAtMost(q, last, pframe_drop_threshold),
           NEW p \in Frames, IsVideo(p), p.ts = f, next[p.track] = f,
           \A w \in VideoTracks : next[w] \in {f, f + 1}, f < MaxFrames,
           NEW next2, next2 = [next EXCEPT ![p.track] = f + 1]
    PROVE  InTime(Append(q, p), 0, f, next2, f)
<1> DEFINE new == Append(q, p)
<1> DEFINE n == Len(q)
<1>0. q \in Seq(Frames) /\ InOrderUpTo(q, f) /\ NothingMissing(q, next, f)
      /\ OnlyBsSince(q, min, last, next) /\ WaitsAtMost(q, last, LongestWait)
  BY Zenon DEF InTime
<1>1. /\ new \in Seq(Frames) /\ n \in Nat /\ DOMAIN q = 1..n
      /\ \A a \in DOMAIN new : (a \in DOMAIN q /\ new[a] = q[a]) \/ (a = n + 1 /\ new[a] = p)
      /\ \A a \in DOMAIN q : a \in DOMAIN new /\ new[a] = q[a] /\ a < n + 1 /\ ~(n + 1 < a)
      /\ n + 1 \in DOMAIN new /\ new[n + 1] = p /\ ~(n + 1 < n + 1)
  BY <1>0
<1>2. \A i \in DOMAIN q : q[i] \in Frames /\ q[i].ts \in Nat
  <2>1. \A i \in DOMAIN q : q[i] \in Frames
    BY <1>0
  <2>. QED  BY <2>1, FrameIs
<1>v. PICK v \in VideoTracks : v = p.track
  BY FrameIs
<1>3. /\ \A w \in VideoTracks : next2[w] = IF w = v THEN f + 1 ELSE next[w]
      /\ \A w \in VideoTracks : next2[w] \in Nat /\ next2[w] <= f + 1 /\ next[w] >= f /\ next[w] \in Nat
  BY <1>v
<1> HIDE DEF new, n
<1>4. InOrderUpTo(new, f)
  <2>1. ASSUME NEW a \in DOMAIN new PROVE new[a].ts <= f /\ (new[a].ts = f => IsVideo(new[a]))
    <3>1. CASE a \in DOMAIN q /\ new[a] = q[a]
      BY <1>0, <3>1, Zenon DEF InOrderUpTo
    <3>2. CASE new[a] = p
      BY <3>2
    <3>. QED  BY <1>1, <2>1, <3>1, <3>2, Zenon
  <2>2. ASSUME NEW a \in DOMAIN new, NEW b \in DOMAIN new, a < b
        PROVE  new[a].ts <= new[b].ts /\ (new[a].ts = new[b].ts => IsVideo(new[a]))
    <3>1. a \in DOMAIN q /\ new[a] = q[a]
      BY <1>1, <2>2, Zenon
    <3>2. CASE b \in DOMAIN q /\ new[b] = q[b]
      BY <1>0, <2>2, <3>1, <3>2, Zenon DEF InOrderUpTo
    <3>3. CASE new[b] = p
      BY <2>1, <3>3
    <3>. QED  BY <1>1, <3>2, <3>3, Zenon
  <2>. QED  BY <2>1, <2>2, Zenon DEF InOrderUpTo
<1>5. \A track, m : Waits(q, track, m) => Waits(new, track, m)
  BY <1>1, Zenon DEF Waits
<1>6. Waits(new, v, f)
  BY <1>1, <1>v, Zenon DEF Waits
<1>7. NothingMissing(new, next2, f)
  <2> SUFFICES ASSUME NEW a \in DOMAIN new, Droppable(new[a])
               PROVE  /\ \A m \in new[a].ts..f - 1 : Waits(new, Audio, m)
                      /\ \A m \in new[a].ts + 1..next2[new[a].track] - 1 :
                            Kind(new[a].track, m) # "b" => Waits(new, new[a].track, m)
    BY Zenon DEF NothingMissing
  <2>1. CASE a \in DOMAIN q /\ new[a] = q[a]
    <3>1. PICK s \in Nat, w \in VideoTracks : s = new[a].ts /\ w = new[a].track
      BY <1>2, <2>1, FrameIs DEF Droppable
    <3>2. /\ \A m \in s..f - 1 : Waits(q, Audio, m)
          /\ \A m \in s + 1..next[w] - 1 : Kind(w, m) # "b" => Waits(q, w, m)
      <4>1. Droppable(q[a]) /\ s = q[a].ts /\ w = q[a].track
        BY <2>1, <3>1, Zenon
      <4>. QED  BY <1>0, <2>1, <4>1, Zenon DEF NothingMissing
    <3>3. ASSUME NEW m \in s + 1..next2[w] - 1, Kind(w, m) # "b" PROVE Waits(new, w, m)
      <4>1. CASE m \in s + 1..next[w] - 1
        BY <1>5, <3>2, <3>3, <4>1, Zenon
      <4>2. CASE m \notin s + 1..next[w] - 1
        <5>1. w = v /\ m = f
          BY <1>3, <1>v, <3>3, <4>2
        <5>. QED  BY <1>6, <5>1, Zenon
      <4>. QED  BY <4>1, <4>2
    <3>. QED  BY <1>5, <3>1, <3>2, <3>3, Zenon
  <2>2. CASE new[a] = p
    <3>1. new[a].ts = f /\ new[a].track = v
      BY <1>v, <2>2
    <3>2. next2[v] = f + 1
      BY <1>3
    <3>3. \A m \in f..f - 1 : FALSE
      OBVIOUS
    <3>4. \A m \in f + 1..(f + 1) - 1 : FALSE
      OBVIOUS
    <3>. QED  BY <3>1, <3>2, <3>3, <3>4, Zenon
  <2>. QED  BY <1>1, <2>1, <2>2, Zenon
<1>8. OnlyBsSince(new, 0, f, next2)
  <2>1. \A w \in VideoTracks : \A m \in 0..next2[w] - 1 : m <= f
    BY <1>3
  <2>2. 0 # 3
    OBVIOUS
  <2>. QED  BY <2>1, <2>2, Zenon DEF OnlyBsSince
<1>9. WaitsAtMost(new, f, LongestWait)
  <2> SUFFICES ASSUME NEW a \in DOMAIN new, Droppable(new[a]) PROVE f <= new[a].ts + LongestWait
    BY Zenon DEF WaitsAtMost
  <2>1. CASE a \in DOMAIN q /\ new[a] = q[a]
    <3>1. PICK s \in Nat : s = q[a].ts /\ Droppable(q[a])
      BY <1>2, <2>1, Zenon
    <3>2. CASE Len(q) < 5
      <4>1. Len(q) <= 4
        BY <1>1, <3>2 DEF n
      <4>2. \A w \in VideoTracks : next[w] >= f
        BY <1>3
      <4>3. f <= q[a].ts + LongestWait
        BY <1>0, <2>1, <3>1, <4>1, <4>2, ShortQueue
      <4>. QED  BY <2>1, <4>3, Zenon
    <3>3. CASE WaitsAtMost(q, last, pframe_drop_threshold)
      <4>1. last <= s + pframe_drop_threshold
        BY <2>1, <3>1, <3>3, Zenon DEF WaitsAtMost
      <4>2. next[v] <= MaxFrames /\ next[v] = f
        BY <1>v, BoundsAssumption
      <4>3. next[v] <= last + 1 + LongestRun
        BY <1>0, <2>1, <3>1, <4>2, SinceLast
      <4>4. f <= s + LongestWait
        BY <4>1, <4>2, <4>3, WaitIs
      <4>. QED  BY <2>1, <3>1, <4>4, Zenon
    <3>. QED  BY <3>2, <3>3
  <2>2. CASE new[a] = p
    BY <2>2, WaitIs
  <2>. QED  BY <1>1, <2>1, <2>2, Zenon
<1>. QED  BY <1>1, <1>4, <1>7, <1>8, <1>9, Zenon DEF InTime, new

(* add_video_packet: a frame is turned away.                               *)
LEMMA SkipInTime ==
    ASSUME NEW q, NEW min \in {0, 2, 3}, NEW last \in Nat, NEW next \in [VideoTracks -> Nat], NEW f \in Nat,
           InTime(q, min, last, next, f),
           NEW p \in Frames, IsVideo(p), p.ts = f, next[p.track] = f, p.drop_priority < min,
           NEW next2, next2 = [next EXCEPT ![p.track] = f + 1]
    PROVE  InTime(q, min, last, next2, f)
<1>0. q \in Seq(Frames) /\ InOrderUpTo(q, f) /\ NothingMissing(q, next, f)
      /\ OnlyBsSince(q, min, last, next) /\ WaitsAtMost(q, last, LongestWait)
  BY Zenon DEF InTime
<1>v. PICK v \in VideoTracks : v = p.track
  BY FrameIs
<1>1. \A w \in VideoTracks : next2[w] = IF w = v THEN f + 1 ELSE next[w]
  BY <1>v
<1>2. \A i \in DOMAIN q : Droppable(q[i]) => q[i].track \in VideoTracks /\ q[i].ts \in Nat
  <2>1. \A i \in DOMAIN q : q[i] \in Frames
    BY <1>0
  <2>. QED  BY <2>1, FrameIs DEF Droppable
<1>3. ASSUME NEW i \in DOMAIN q, Droppable(q[i]) PROVE Kind(v, f) = "b"
  <2>1. min # 3
    BY <1>0, <1>3, Zenon DEF OnlyBsSince
  <2>2. p.kind = Kind(v, f) /\ p.kind = "b"
    BY <1>v, <2>1, FrameIs
  <2>. QED  BY <2>2
<1>4. NothingMissing(q, next2, f)
  <2> SUFFICES ASSUME NEW i \in DOMAIN q, Droppable(q[i])
               PROVE  /\ \A n \in q[i].ts..f - 1 : Waits(q, Audio, n)
                      /\ \A n \in q[i].ts + 1..next2[q[i].track] - 1 :
                            Kind(q[i].track, n) # "b" => Waits(q, q[i].track, n)
    BY Zenon DEF NothingMissing
  <2>1. PICK s \in Nat, w \in VideoTracks : s = q[i].ts /\ w = q[i].track
    BY <1>2
  <2>2. /\ \A m \in s..f - 1 : Waits(q, Audio, m)
        /\ \A m \in s + 1..next[w] - 1 : Kind(w, m) # "b" => Waits(q, w, m)
    BY <1>0, <2>1, Zenon DEF NothingMissing
  <2>3. ASSUME NEW m \in s + 1..next2[w] - 1, Kind(w, m) # "b" PROVE Waits(q, w, m)
    <3>1. CASE m \in s + 1..next[w] - 1
      BY <2>2, <2>3, <3>1, Zenon
    <3>2. CASE m \notin s + 1..next[w] - 1
      <4>1. w = v /\ m = f
        BY <1>1, <1>v, <2>3, <3>2
      <4>. QED  BY <1>3, <2>3, <4>1, Zenon
    <3>. QED  BY <3>1, <3>2
  <2>. QED  BY <2>1, <2>2, <2>3, Zenon
<1>5. OnlyBsSince(q, min, last, next2)
  <2> SUFFICES ASSUME NEW i \in DOMAIN q, Droppable(q[i])
               PROVE  /\ min # 3
                      /\ \A w \in VideoTracks : \A n \in 0..next2[w] - 1 : Kind(w, n) # "b" => n <= last
    BY Zenon DEF OnlyBsSince
  <2>1. min # 3 /\ \A w \in VideoTracks : \A n \in 0..next[w] - 1 : Kind(w, n) # "b" => n <= last
    BY <1>0, Zenon DEF OnlyBsSince
  <2>2. ASSUME NEW w \in VideoTracks, NEW n \in 0..next2[w] - 1, Kind(w, n) # "b" PROVE n <= last
    <3>1. CASE n \in 0..next[w] - 1
      BY <2>1, <2>2, <3>1, Zenon
    <3>2. CASE n \notin 0..next[w] - 1
      <4>1. w = v /\ n = f
        BY <1>1, <1>v, <2>2, <3>2
      <4>. QED  BY <1>3, <2>2, <4>1, Zenon
    <3>. QED  BY <3>1, <3>2
  <2>. QED  BY <2>1, <2>2, Zenon
<1>. QED  BY <1>0, <1>4, <1>5, Zenon DEF InTime

(* rtmp_stream_data: the audio ends a frame, and is always added.          *)
LEMMA AudioInTime ==
    ASSUME NEW q, NEW min, NEW last, NEW next, NEW f \in Nat, InTime(q, min, last, next, f),
           NEW p \in Frames, p.track = Audio, p.ts = f
    PROVE  InTime(Append(q, p), min, last, next, f + 1)
<1> DEFINE new == Append(q, p)
<1> DEFINE n == Len(q)
<1>0. q \in Seq(Frames) /\ InOrderUpTo(q, f) /\ NothingMissing(q, next, f)
      /\ OnlyBsSince(q, min, last, next) /\ WaitsAtMost(q, last, LongestWait)
  BY Zenon DEF InTime
<1>1. /\ new \in Seq(Frames) /\ n \in Nat
      /\ \A a \in DOMAIN new : (a \in DOMAIN q /\ new[a] = q[a]) \/ (a = n + 1 /\ new[a] = p)
      /\ \A a \in DOMAIN q : a \in DOMAIN new /\ new[a] = q[a] /\ a < n + 1 /\ ~(n + 1 < a)
      /\ n + 1 \in DOMAIN new /\ new[n + 1] = p /\ ~(n + 1 < n + 1)
  BY <1>0
<1>2. \A i \in DOMAIN q : q[i] \in Frames /\ q[i].ts \in Nat
  <2>1. \A i \in DOMAIN q : q[i] \in Frames
    BY <1>0
  <2>. QED  BY <2>1, FrameIs
<1>3. ~Droppable(p)
  BY DEF Droppable, IsVideo
<1> HIDE DEF new, n
<1>4. InOrderUpTo(new, f + 1)
  <2>1. ASSUME NEW a \in DOMAIN new PROVE new[a].ts <= f + 1 /\ (new[a].ts = f + 1 => IsVideo(new[a]))
    <3>1. CASE a \in DOMAIN q /\ new[a] = q[a]
      <4>1. q[a].ts <= f /\ q[a].ts \in Nat
        BY <1>0, <1>2, <3>1, Zenon DEF InOrderUpTo
      <4>. QED  BY <3>1, <4>1
    <3>2. CASE new[a] = p
      BY <3>2
    <3>. QED  BY <1>1, <2>1, <3>1, <3>2, Zenon
  <2>2. ASSUME NEW a \in DOMAIN new, NEW b \in DOMAIN new, a < b
        PROVE  new[a].ts <= new[b].ts /\ (new[a].ts = new[b].ts => IsVideo(new[a]))
    <3>1. a \in DOMAIN q /\ new[a] = q[a]
      BY <1>1, <2>2, Zenon
    <3>2. CASE b \in DOMAIN q /\ new[b] = q[b]
      BY <1>0, <2>2, <3>1, <3>2, Zenon DEF InOrderUpTo
    <3>3. CASE new[b] = p
      BY <1>0, <3>1, <3>3 DEF InOrderUpTo
    <3>. QED  BY <1>1, <3>2, <3>3, Zenon
  <2>. QED  BY <2>1, <2>2, Zenon DEF InOrderUpTo
<1>5. \A track, m : Waits(q, track, m) => Waits(new, track, m)
  BY <1>1, Zenon DEF Waits
<1>6. Waits(new, Audio, f)
  BY <1>1, Zenon DEF Waits
<1>7. \A a \in DOMAIN new : Droppable(new[a]) => a \in DOMAIN q /\ new[a] = q[a]
  BY <1>1, <1>3, Zenon
<1>8. NothingMissing(new, next, f + 1)
  <2> SUFFICES ASSUME NEW a \in DOMAIN new, Droppable(new[a])
               PROVE  /\ \A m \in new[a].ts..(f + 1) - 1 : Waits(new, Audio, m)
                      /\ \A m \in new[a].ts + 1..next[new[a].track] - 1 :
                            Kind(new[a].track, m) # "b" => Waits(new, new[a].track, m)
    BY Zenon DEF NothingMissing
  <2>1. a \in DOMAIN q /\ new[a] = q[a] /\ Droppable(q[a])
    BY <1>7, Zenon
  <2>2. PICK s \in Nat : s = q[a].ts
    BY <1>2, <2>1
  <2>3. /\ \A m \in s..f - 1 : Waits(q, Audio, m)
        /\ \A m \in s + 1..next[q[a].track] - 1 : Kind(q[a].track, m) # "b" => Waits(q, q[a].track, m)
    BY <1>0, <2>1, <2>2, Zenon DEF NothingMissing
  <2>4. \A m \in s..(f + 1) - 1 : m = f \/ m \in s..f - 1
    OBVIOUS
  <2>5. \A m \in s..(f + 1) - 1 : Waits(new, Audio, m)
    BY <1>5, <1>6, <2>3, <2>4, Zenon
  <2>. QED  BY <1>5, <2>1, <2>2, <2>3, <2>5, Zenon
<1>9. OnlyBsSince(new, min, last, next)
  BY <1>0, <1>7, Zenon DEF OnlyBsSince
<1>10. WaitsAtMost(new, last, LongestWait)
  BY <1>0, <1>7, Zenon DEF WaitsAtMost
<1>. QED  BY <1>1, <1>4, <1>8, <1>9, <1>10, Zenon DEF InTime, new

(* get_next_packet: nothing that waits behind the first packet needs it.   *)
LEMMA SentInTime ==
    ASSUME NEW q, NEW min, NEW last, NEW next, NEW f \in Nat, InTime(q, min, last, next, f), q # <<>>
    PROVE  InTime(Tail(q), min, last, next, f)
<1> DEFINE rest == Tail(q)
<1>0. q \in Seq(Frames) /\ InOrderUpTo(q, f) /\ NothingMissing(q, next, f)
      /\ OnlyBsSince(q, min, last, next) /\ WaitsAtMost(q, last, LongestWait)
  BY Zenon DEF InTime
<1>1. /\ rest \in Seq(Frames) /\ 1 \in DOMAIN q
      /\ \A i \in DOMAIN rest : i + 1 \in DOMAIN q /\ rest[i] = q[i + 1] /\ 1 < i + 1
      /\ \A i, j \in DOMAIN rest : i < j => i + 1 < j + 1
      /\ \A i \in DOMAIN q : i = 1 \/ (i - 1 \in DOMAIN rest /\ rest[i - 1] = q[i])
  BY <1>0
<1>2. \A i \in DOMAIN q : q[i] \in Frames /\ q[i].ts \in Nat
  <2>1. \A i \in DOMAIN q : q[i] \in Frames
    BY <1>0
  <2>. QED  BY <2>1, FrameIs
<1> HIDE DEF rest
<1>3. InOrderUpTo(rest, f)
  <2>1. ASSUME NEW a \in DOMAIN rest, NEW b \in DOMAIN rest, a < b
        PROVE  rest[a].ts <= rest[b].ts /\ (rest[a].ts = rest[b].ts => IsVideo(rest[a]))
    <3>1. a + 1 \in DOMAIN q /\ rest[a] = q[a + 1] /\ b + 1 \in DOMAIN q /\ rest[b] = q[b + 1] /\ a + 1 < b + 1
      BY <1>1, <2>1, Zenon
    <3>. QED  BY <1>0, <3>1, Zenon DEF InOrderUpTo
  <2>2. \A a \in DOMAIN rest : rest[a].ts <= f /\ (rest[a].ts = f => IsVideo(rest[a]))
    BY <1>0, <1>1, Zenon DEF InOrderUpTo
  <2>. QED  BY <2>1, <2>2, Zenon DEF InOrderUpTo
<1>4. NothingMissing(rest, next, f)
  <2> SUFFICES ASSUME NEW a \in DOMAIN rest, Droppable(rest[a])
               PROVE  /\ \A m \in rest[a].ts..f - 1 : Waits(rest, Audio, m)
                      /\ \A m \in rest[a].ts + 1..next[rest[a].track] - 1 :
                            Kind(rest[a].track, m) # "b" => Waits(rest, rest[a].track, m)
    BY Zenon DEF NothingMissing
  <2>1. a + 1 \in DOMAIN q /\ rest[a] = q[a + 1] /\ 1 < a + 1 /\ Droppable(q[a + 1])
    BY <1>1, Zenon
  <2>2. PICK s \in Nat, v \in VideoTracks : s = rest[a].ts /\ v = rest[a].track
    BY <1>2, <2>1, FrameIs DEF Droppable
  <2>3. /\ \A m \in s..f - 1 : Waits(q, Audio, m)
        /\ \A m \in s + 1..next[v] - 1 : Kind(v, m) # "b" => Waits(q, v, m)
    BY <1>0, <2>1, <2>2, Zenon DEF NothingMissing
  <2>4. q[1].ts <= s /\ (q[1].ts = s => IsVideo(q[1])) /\ q[1].ts \in Nat
    <3>1. q[1].ts <= q[a + 1].ts /\ (q[1].ts = q[a + 1].ts => IsVideo(q[1]))
      BY <1>0, <1>1, <2>1, Zenon DEF InOrderUpTo
    <3>2. q[1].ts \in Nat /\ s = q[a + 1].ts
      BY <1>1, <1>2, <2>1, <2>2, Zenon
    <3>. QED  BY <3>1, <3>2, Zenon
  <2>5. ASSUME NEW track, NEW m, Waits(q, track, m), ~(q[1].track = track /\ q[1].ts = m)
        PROVE  Waits(rest, track, m)
    BY <1>1, <2>5, Zenon DEF Waits
  <2>6. ASSUME NEW m \in s..f - 1 PROVE Waits(rest, Audio, m)
    <3>1. ~(q[1].track = Audio /\ q[1].ts = m)
      BY <2>4 DEF IsVideo
    <3>. QED  BY <2>3, <2>5, <3>1, Zenon
  <2>7. ASSUME NEW m \in s + 1..next[v] - 1, Kind(v, m) # "b" PROVE Waits(rest, v, m)
    <3>1. ~(q[1].ts = m)
      BY <2>4
    <3>. QED  BY <2>3, <2>5, <2>7, <3>1, Zenon
  <2>. QED  BY <2>2, <2>6, <2>7, Zenon
<1>5. OnlyBsSince(rest, min, last, next)
  BY <1>0, <1>1, Zenon DEF OnlyBsSince
<1>6. WaitsAtMost(rest, last, LongestWait)
  BY <1>0, <1>1, Zenon DEF WaitsAtMost
<1>. QED  BY <1>1, <1>3, <1>4, <1>5, <1>6, Zenon DEF InTime, rest

(* interleave_packets: a frame ends with its audio.                        *)
LEMMA FrameStep ==
    ASSUME k \in Nat, sessions \in Nat
    PROVE  /\ IsVideo(Packet(k)) => Frame(k + 1) = Frame(k)
           /\ ~IsVideo(Packet(k)) => Packet(k).track = Audio /\ Frame(k + 1) = Frame(k) + 1
<1> DEFINE d == Len(Sources)
<1> DEFINE r == k % d
<1>1. d \in Nat \ {0} /\ r \in 0..d - 1
      /\ (r = d - 1 => Frame(k + 1) = Frame(k) + 1) /\ (r # d - 1 => Frame(k + 1) = Frame(k))
  <2>1. d \in Nat \ {0}
    BY SourcesAre
  <2> HIDE DEF d
  <2>2. /\ k % d \in 0..d - 1
        /\ k % d = d - 1 => (k + 1) \div d = (k \div d) + 1
        /\ k % d # d - 1 => (k + 1) \div d = k \div d
    BY <2>1, DivisionStep
  <2>. QED  BY <2>1, <2>2, Zenon DEF Frame, d
<1>2. Packet(k).track = Sources[r + 1]
  BY DEF Packet
<1>3. r + 1 \in 1..d /\ (r + 1 = d <=> r = d - 1)
  BY <1>1
<1> HIDE DEF r
<1>4. Sources[r + 1] = Audio <=> r + 1 = d
  BY <1>3, SourcesAre
<1>. QED  BY <1>1, <1>2, <1>3, <1>4 DEF IsVideo

\* A connection that sends has its stream, and without dynamic bitrate a queue
\* whose frames wait no longer than they may.
WaitInv ==
    /\ TypeInv /\ sessions \in Nat
    /\ Sending => active /\ ~disconnected
    /\ Sending /\ ~dbr_enabled => InTime(packets, min_priority, last_dts, Upcoming, Frame(k))

LEMMA InitWait == Init => WaitInv
BY InitTypes DEF Init, WaitInv, Sending

LEMMA StartInTime ==
    ASSUME NEW min, NEW last, NEW next, NEW f
    PROVE  InTime(<<>>, min, last, next, f)
BY DEF InTime, InOrderUpTo, NothingMissing, OnlyBsSince, WaitsAtMost

LEMMA NextWait ==
    ASSUME WaitInv, [Next]_vars
    PROVE  WaitInv'
<1>0. /\ TypeInv /\ sessions \in Nat /\ k \in Nat /\ Frame(k) \in Nat
      /\ (Sending => active /\ ~disconnected)
      /\ (Sending /\ ~dbr_enabled => InTime(packets, min_priority, last_dts, Upcoming, Frame(k)))
      /\ min_priority \in {0, 2, 3} /\ last_dts \in Nat
  <2>1. k \in Nat /\ Frame(k) \in 0..MaxFrames /\ last_dts \in 0..MaxFrames /\ min_priority \in {0, 2, 3}
    BY DEF WaitInv, TypeInv, TypeOK
  <2>2. Frame(k) \in Nat /\ last_dts \in Nat
    BY <2>1
  <2>. QED  BY <2>1, <2>2, Zenon DEF WaitInv
<1>t. TypeInv'
  BY <1>0, NextTypes
<1>u. Upcoming \in [VideoTracks -> Nat]
  BY <1>0, NextPacket, Zenon DEF Upcoming
<1>1. CASE Connect
  <2>1. packets' = <<>> /\ active' = TRUE /\ disconnected' = FALSE /\ sessions' = sessions + 1
    BY <1>1 DEF Connect, FreePackets
  <2>2. PICK q : q = packets'
    OBVIOUS
  <2>3. InTime(q, min_priority', last_dts', Upcoming', Frame(k)')
    BY <2>1, <2>2, StartInTime, Zenon
  <2>. QED  BY <1>0, <1>t, <2>1, <2>2, <2>3 DEF WaitInv
\* Nothing of it changes.
<1>2. ASSUME k' = k, sessions' = sessions, Sending' => Sending,
             UNCHANGED <<packets, min_priority, last_dts, dbr_enabled, active, disconnected>>
      PROVE  WaitInv'
  <2>1. Upcoming' = Upcoming /\ Frame(k)' = Frame(k)
    BY <1>2 DEF Upcoming, Frame
  <2>2. InTime(packets, min_priority, last_dts, Upcoming, Frame(k)) =>
           InTime(packets, min_priority, last_dts, Upcoming, Frame(k))'
    BY <1>2, <2>1
  <2>. QED  BY <1>0, <1>2, <1>t, <2>2, Zenon DEF WaitInv
<1>3. CASE Stop \/ Post \/ WakeForNothing \/ Sent \/ UNCHANGED vars
  <2>1. /\ k' = k /\ sessions' = sessions
        /\ UNCHANGED <<packets, min_priority, last_dts, dbr_enabled, active, disconnected>>
    BY <1>3 DEF Stop, Post, WakeForNothing, Sent, SendStep, vars, queue, state, encoder, dbrSetup
  <2>2. Sending' => Sending
    BY <1>3 DEF Stop, Post, WakeForNothing, Sent, SendStep, Sending, vars
  <2>. QED  BY <1>2, <2>1, <2>2, Zenon
\* The connection does not send.
<1>4. ASSUME sessions' = sessions, ~Sending'
      PROVE  WaitInv'
  BY <1>0, <1>4, <1>t, Zenon DEF WaitInv
<1>5. CASE EncodersStop \/ StopNow \/ StopAtPacket \/ Broken \/ Leave \/ FreeRest \/ GoInactive
  <2>1. sessions' = sessions /\ spc' \in {"leaving", "free", "inactive", "down"}
    BY <1>5 DEF EncodersStop, StopNow, StopAtPacket, Broken, Leave, FreeRest, GoInactive, SendStep, encoder
  <2>2. ~Sending'
    BY <2>1 DEF Sending
  <2>. QED  BY <1>4, <2>1, <2>2, Zenon
<1>6. CASE DataEnter \/ DataGone
  <2>1. /\ sessions' = sessions /\ (k' = k \/ ~(active /\ ~disconnected))
        /\ UNCHANGED <<packets, min_priority, last_dts, dbr_enabled, spc, active, disconnected>>
    BY <1>6 DEF DataEnter, DataGone, queue, state, dbrSetup
  <2>2. Sending' = Sending
    BY <2>1 DEF Sending
  <2>3. CASE Sending
    <3>1. k' = k
      BY <1>0, <2>1, <2>3, Zenon
    <3>. QED  BY <1>2, <2>1, <2>2, <3>1, Zenon
  <2>4. CASE ~Sending
    BY <1>4, <2>1, <2>2, <2>4, Zenon
  <2>. QED  BY <2>3, <2>4
<1>7. CASE AddAudio
  <2>1. /\ packets' = Append(packets, Packet(k)) /\ k' = k + 1 /\ ~IsVideo(Packet(k))
        /\ UNCHANGED <<min_priority, last_dts, dbr_enabled, sessions, spc, active, disconnected>>
    BY <1>7 DEF AddAudio, Added, state, dbrSetup
  <2>2. Sending' = Sending
    BY <2>1 DEF Sending
  <2>3. Packet(k) \in Frames /\ NextOf(k + 1) = Upcoming /\ Packet(k).track = Audio
        /\ Packet(k).ts = Frame(k) /\ Frame(k + 1) = Frame(k) + 1
    BY <1>0, <2>1, PacketIs, PacketTime, FrameStep, Zenon
  <2>4. Upcoming' = Upcoming /\ Frame(k)' = Frame(k) + 1
    <3>1. Upcoming' = NextOf(k + 1) /\ Frame(k)' = Frame(k + 1)
      BY <2>1, Zenon DEF Upcoming, Frame
    <3>. QED  BY <2>3, <3>1, Zenon
  <2>5. Sending /\ ~dbr_enabled =>
           InTime(Append(packets, Packet(k)), min_priority, last_dts, Upcoming, Frame(k) + 1)
    BY <1>0, <2>3, AudioInTime, Zenon
  <2>6. Sending' /\ ~dbr_enabled' => InTime(packets, min_priority, last_dts, Upcoming, Frame(k))'
    BY <2>1, <2>2, <2>4, <2>5, Zenon
  <2>. QED  BY <1>0, <1>t, <2>1, <2>2, <2>6, Zenon DEF WaitInv
<1>8. CASE AddVideo
  <2> DEFINE p == Packet(k)
  <2>1. PICK c : /\ c = IF dbr_enabled THEN [q |-> packets, min |-> min_priority]
                        ELSE Dropped([q |-> packets, min |-> min_priority])
                 /\ IF TooLow(p, c) THEN packets' = c.q /\ min_priority' = c.min /\ last_dts' = last_dts
                    ELSE Added(p, [c EXCEPT !.min = 0]) /\ last_dts' = p.ts
    BY <1>8, Zenon DEF AddVideo
  <2>2. k' = k + 1 /\ UNCHANGED <<sessions, dbr_enabled, spc, active, disconnected>> /\ IsVideo(p)
        /\ epc = "mutex"
    BY <1>8 DEF AddVideo, state, dbrSetup
  <2>3. PICK f \in Nat : f = Frame(k) /\ f < MaxFrames
    BY <1>0, <2>2 DEF TypeInv
  <2>4. /\ p \in Frames /\ p.ts = f /\ Upcoming[p.track] = f /\ \A w \in VideoTracks : Upcoming[w] \in {f, f + 1}
        /\ NextOf(k + 1) = [Upcoming EXCEPT ![p.track] = f + 1] /\ Frame(k + 1) = f
    <3>1. p.ts = f
      BY <2>3, PacketTime, Zenon
    <3>. QED  BY <1>0, <2>2, <2>3, <3>1, PacketIs, FrameStep, Zenon
  <2>5. PICK next2 : next2 = Upcoming' /\ next2 = [Upcoming EXCEPT ![p.track] = f + 1] /\ Frame(k)' = f
    <3>1. Upcoming' = NextOf(k + 1) /\ Frame(k)' = Frame(k + 1)
      BY <2>2, Zenon DEF Upcoming, Frame
    <3>. QED  BY <2>4, <3>1, Zenon
  <2>6. Sending' = Sending
    BY <2>2 DEF Sending
  <2> HIDE DEF p
  <2>7. ASSUME Sending, ~dbr_enabled
        PROVE  InTime(packets, min_priority, last_dts, Upcoming, Frame(k))'
    <3>1. PICK now : now = [q |-> packets, min |-> min_priority]
      OBVIOUS
    <3>2. now.q = packets /\ now.min = min_priority
      BY <3>1
    <3>3. InTime(now.q, now.min, last_dts, Upcoming, f)
      BY <1>0, <2>3, <2>7, <3>2, Zenon
    <3>4. c = Dropped(now)
      BY <2>1, <2>7, <3>1, Zenon
    <3>5. now.min \in {0, 2, 3}
      BY <1>0, <3>2, Zenon
    <3>6. /\ InTime(c.q, c.min, last_dts, Upcoming, f) /\ c.min \in {0, 2, 3}
          /\ Len(c.q) < 5 \/ WaitsAtMost(c.q, last_dts, pframe_drop_threshold)
      <4>1. last_dts \in Nat
        BY <1>0
      <4>2. /\ InTime(Dropped(now).q, Dropped(now).min, last_dts, Upcoming, f) /\ Dropped(now).min \in {0, 2, 3}
            /\ Len(Dropped(now).q) < 5 \/ WaitsAtMost(Dropped(now).q, last_dts, pframe_drop_threshold)
        BY <1>u, <3>3, <3>5, <4>1, DroppedInTime
      <4>. QED  BY <3>4, <4>2, Zenon
    <3>q. PICK q : q = c.q
      OBVIOUS
    <3>a. PICK min \in {0, 2, 3}, last \in Nat : q = c.q /\ min = c.min /\ last = last_dts
      BY <1>0, <3>6, <3>q
    <3>b. InTime(q, min, last, Upcoming, f) /\ (Len(q) < 5 \/ WaitsAtMost(q, last, pframe_drop_threshold))
      BY <3>6, <3>a, Zenon
    <3>7. CASE TooLow(p, c)
      <4>1. p.drop_priority < min
        BY <3>7, <3>a, Zenon DEF TooLow
      <4>2. InTime(q, min, last, next2, f)
        <5>1. PICK next \in [VideoTracks -> Nat] : next = Upcoming
          BY <1>u
        <5>2. InTime(q, min, last, next, f) /\ next[p.track] = f /\ next2 = [next EXCEPT ![p.track] = f + 1]
          BY <2>4, <2>5, <3>b, <5>1, Zenon
        <5>3. p \in Frames /\ IsVideo(p) /\ p.ts = f /\ p.drop_priority < min
          BY <2>2, <2>4, <4>1, Zenon
        <5>. QED  BY <5>2, <5>3, SkipInTime
      <4>. QED  BY <2>1, <2>5, <3>7, <3>a, <4>2, Zenon
    <3>8. CASE ~TooLow(p, c)
      <4>1. InTime(Append(q, p), 0, f, next2, f)
        <5>1. PICK next \in [VideoTracks -> Nat] : next = Upcoming
          BY <1>u
        <5>2. /\ InTime(q, min, last, next, f) /\ next[p.track] = f /\ next2 = [next EXCEPT ![p.track] = f + 1]
              /\ \A w \in VideoTracks : next[w] \in {f, f + 1}
          BY <2>4, <2>5, <3>b, <5>1, Zenon
        <5>3. p \in Frames /\ IsVideo(p) /\ p.ts = f
          BY <2>2, <2>4, Zenon
        <5>. QED  BY <2>3, <3>b, <5>2, <5>3, VideoInTime
      <4>2. packets' = Append(c.q, p) /\ min_priority' = 0 /\ last_dts' = f
        <5>1. Added(p, [c EXCEPT !.min = 0]) /\ last_dts' = f
          BY <2>1, <2>4, <3>8, Zenon
        <5>2. [c EXCEPT !.min = 0].q = c.q
          OBVIOUS
        <5>3. \E a, b : c = [q |-> a, min |-> b]
          BY <2>1, Zenon DEF Dropped, Drop
        <5>4. [c EXCEPT !.min = 0].min = 0
          BY <5>3
        <5>. QED  BY <5>1, <5>2, <5>4, Zenon DEF Added
      <4>. QED  BY <2>5, <3>a, <4>1, <4>2, Zenon
    <3>. QED  BY <3>7, <3>8
  <2>. QED  BY <1>0, <1>t, <2>2, <2>6, <2>7, Zenon DEF WaitInv
<1>9. CASE SendPacket
  <2>1. /\ k' = k /\ UNCHANGED <<sessions, min_priority, last_dts, dbr_enabled, active, disconnected>>
        /\ packets # <<>> /\ packets' = Tail(packets) /\ spc = "wait"
    BY <1>9 DEF SendPacket, SendStep, encoder, state, dbrSetup
  <2>2. Sending /\ Upcoming' = Upcoming /\ Frame(k)' = Frame(k)
    BY <2>1 DEF Sending, Upcoming, Frame
  <2>3. ~dbr_enabled => InTime(Tail(packets), min_priority, last_dts, Upcoming, Frame(k))
    BY <1>0, <2>1, <2>2, SentInTime, Zenon
  <2>4. ~dbr_enabled' => InTime(packets, min_priority, last_dts, Upcoming, Frame(k))'
    BY <2>1, <2>2, <2>3, Zenon
  <2>. QED  BY <1>0, <1>t, <2>1, <2>2, <2>4, Zenon DEF WaitInv
<1>. QED  BY <1>1, <1>3, <1>5, <1>6, <1>7, <1>8, <1>9, Zenon DEF Next

LEMMA WaitIsBounded ==
    ASSUME WaitInv
    PROVE  BufferBounded
<1> SUFFICES ASSUME ~dbr_enabled, Sending PROVE Buffered(packets) <= LongestWait
  BY Zenon DEF BufferBounded, LongestWait
<1>1. InTime(packets, min_priority, last_dts, Upcoming, Frame(k))
  BY Zenon DEF WaitInv
<1>2. packets \in Seq(Frames) /\ InOrderUpTo(packets, Frame(k)) /\ WaitsAtMost(packets, last_dts, LongestWait)
  BY <1>1, Zenon DEF InTime
<1>3. last_dts \in Nat
  <2>1. last_dts \in 0..MaxFrames
    BY DEF WaitInv, TypeInv, TypeOK
  <2>. QED  BY <2>1
<1>. QED  BY <1>2, <1>3, BufferedIs, WaitIs

(* check_to_drop_frames: however long the network stands still, the frames *)
(* that may be dropped wait no longer than the threshold, a frame and as   *)
(* many "b" frames as follow each other.                                   *)
THEOREM BufferIsBounded == Spec => []BufferBounded
<1>1. WaitInv /\ [Next]_vars => WaitInv'
  BY NextWait
<1>2. WaitInv => BufferBounded
  BY WaitIsBounded
<1>. QED  BY InitWait, <1>1, <1>2, PTL DEF Spec

(* add_video_packet: a network that is too slow is met, by dropping frames *)
(* or by a lower bitrate, and neither bound is passed.                     *)
THEOREM CongestionMet == Spec /\ []PreviousInRange => []CongestionIsMet
<1>1. BufferBounded /\ BitrateFits => CongestionIsMet
  BY DEF CongestionIsMet
<1>. QED  BY <1>1, BufferIsBounded, BitrateIsShared, PTL

(* The same for a stream of one track, whatever went before it, where      *)
(* doubles give every share exactly.                                       *)
THEOREM OneTrackCongestionMet ==
    ASSUME VideoTracks = {0}, FallsShort = {}
    PROVE  Spec => []CongestionIsMet
<1>1. BufferBounded /\ BitrateFits => CongestionIsMet
  BY DEF CongestionIsMet
<1>2. Spec => UpByStep /\ []BitrateFits
  BY OneTrackBitrate
<1>. QED  BY <1>1, <1>2, BufferIsBounded, PTL
=============================================================================
