-------------------------- MODULE InterleaverProofs --------------------------
(***************************************************************************)
(* Proofs about Interleaver for every set of tracks, length of packets,    *)
(* pattern of keyframes and way the encoders are apart: the variables have *)
(* their types, encoder_packet_times holds the times of the packets that   *)
(* wait, and a stream that starts with its first packet loses none.  With  *)
(* one audio track what is sent is in order, and audio and video begin     *)
(* together; with one video track a decoder can begin with what is sent.   *)
(*                                                                         *)
(* IInv is inductive.  A packet in the queue is one its encoder made, with *)
(* the offset of its track taken off once the stream has started, so that  *)
(* no two of a video track have the same pts.  Until then the queue is in  *)
(* system time and sorted, and the times of each track rise: the first     *)
(* times are those of the first packet, which discard_to_idx relies on.    *)
(* Afterwards packets leave by their pts, and the order of the times is of *)
(* no account.                                                             *)
(*                                                                         *)
(* SInv adds which packets those are: without gaps in the queue while they *)
(* are collected, and in what was sent and the queue behind it afterwards. *)
(* RInv adds the highest timestamps, which what was sent is below, and     *)
(* Leading the keyframe that the video begins with.                        *)
(***************************************************************************)
EXTENDS Interleaver, FoldLemmas

-----------------------------------------------------------------------------
(* Numbers and finite sets *)

(* What a function makes of a finite set is finite. *)
LEMMA ImageIsFinite ==
    ASSUME NEW S, IsFiniteSet(S), NEW f
    PROVE  IsFiniteSet({f[x] : x \in S})
<1> DEFINE T == {f[x] : x \in S}
<1> DEFINE g == [x \in S |-> f[x]]
<1>1. g \in Surjection(S, T)
  BY DEF Surjection
<1>. QED  BY <1>1, FS_Surjection, Zenon

LEMMA LeastInSet ==
    ASSUME NEW S \in SUBSET Int, IsFiniteSet(S), S # {}
    PROVE  Least(S) \in S /\ \A y \in S : Least(S) <= y
<1> DEFINE IsLeast(s, x) == x \in s /\ \A y \in s : x <= y
<1> DEFINE P == {s \in SUBSET S : s # {} => \E x : IsLeast(s, x)}
<1>1. {} \in P
  OBVIOUS
<1>2. ASSUME NEW s \in SUBSET S, s # {}, s \ {CHOOSE x \in s : TRUE} \in P PROVE s \in P
  <2> DEFINE c == CHOOSE x \in s : TRUE
  <2>1. c \in s
    BY <1>2, Zenon
  <2>2. s \ {c} \in P
    BY <1>2, Zenon
  <2> HIDE DEF c
  <2>3. CASE s \ {c} = {}
    <3>1. s = {c}
      BY <2>1, <2>3
    <3>2. IsLeast(s, c)
      BY <2>1, <3>1
    <3>. QED  BY <3>2
  <2>4. CASE s \ {c} # {}
    <3>1. PICK x : IsLeast(s \ {c}, x)
      BY <2>2, <2>4
    <3>2. IsLeast(s, IF x <= c THEN x ELSE c)
      BY <2>1, <3>1
    <3>. QED  BY <3>2
  <2>. QED  BY <2>3, <2>4
<1>3. S \in P
  <2> HIDE DEF P
  <2>. QED  BY <1>1, <1>2, SubsetInduction, Zenon
<1>4. \E x \in S : \A y \in S : x <= y
  BY <1>3
<1>. QED  BY <1>4, Zenon DEF Least

LEMMA GreatestInSet ==
    ASSUME NEW S \in SUBSET Int, IsFiniteSet(S), S # {}
    PROVE  Greatest(S) \in S /\ \A y \in S : Greatest(S) >= y
<1> DEFINE IsGreatest(s, x) == x \in s /\ \A y \in s : x >= y
<1> DEFINE P == {s \in SUBSET S : s # {} => \E x : IsGreatest(s, x)}
<1>1. {} \in P
  OBVIOUS
<1>2. ASSUME NEW s \in SUBSET S, s # {}, s \ {CHOOSE x \in s : TRUE} \in P PROVE s \in P
  <2> DEFINE c == CHOOSE x \in s : TRUE
  <2>1. c \in s
    BY <1>2, Zenon
  <2>2. s \ {c} \in P
    BY <1>2, Zenon
  <2> HIDE DEF c
  <2>3. CASE s \ {c} = {}
    <3>1. s = {c}
      BY <2>1, <2>3
    <3>2. IsGreatest(s, c)
      BY <2>1, <3>1
    <3>. QED  BY <3>2
  <2>4. CASE s \ {c} # {}
    <3>1. PICK x : IsGreatest(s \ {c}, x)
      BY <2>2, <2>4
    <3>2. IsGreatest(s, IF x >= c THEN x ELSE c)
      BY <2>1, <3>1
    <3>. QED  BY <3>2
  <2>. QED  BY <2>3, <2>4
<1>3. S \in P
  <2> HIDE DEF P
  <2>. QED  BY <1>1, <1>2, SubsetInduction, Zenon
<1>4. \E x \in S : \A y \in S : x >= y
  BY <1>3
<1>. QED  BY <1>4, Zenon DEF Greatest

\* Where a search for the indices I of a sequence of length n ends.
Ends(k, n, I) == k \in 0..n /\ (k = 0 <=> I = {}) /\ (I # {} => k \in I)

\* What a search in a sequence finds.
LEMMA SearchEnds ==
    ASSUME NEW n \in Nat, NEW I \in SUBSET (1..n)
    PROVE  /\ Ends(IF I # {} THEN Min(I) ELSE 0, n, I)
           /\ Ends(IF I # {} THEN Max(I) ELSE 0, n, I)
<1> DEFINE first == Min(I)
<1> DEFINE last == Max(I)
<1>1. I # {} => first \in I /\ last \in I
  BY MinInSet, MaxInSet
<1> HIDE DEF first, last
<1>2. /\ Ends(IF I # {} THEN first ELSE 0, n, I)
      /\ Ends(IF I # {} THEN last ELSE 0, n, I)
  <2>0. 0 \in 0..n /\ \A i \in I : i \in 0..n /\ i # 0
    OBVIOUS
  <2>1. CASE I = {}
    BY <2>0, <2>1, Zenon DEF Ends
  <2>2. CASE I # {}
    BY <1>1, <2>0, <2>2, Zenon DEF Ends
  <2>. QED  BY <2>1, <2>2
<1>. QED  BY <1>2, Zenon DEF first, last

\* There are finitely many encoders.
LEMMA EncodersAreFinite ==
    /\ IsFiniteSet(Videos) /\ IsFiniteSet(Audios) /\ IsFiniteSet(Encoders)
    /\ Audios # {} /\ Video(0) \in Videos /\ Videos \cap Audios = {}
<1>1. IsFiniteSet(Videos)
  <2> DEFINE f == [i \in VideoTracks |-> Video(i)]
  <2>1. IsFiniteSet({f[i] : i \in VideoTracks})
    BY TracksAssumption, ImageIsFinite, Zenon
  <2>2. Videos = {f[i] : i \in VideoTracks}
    BY Zenon DEF Videos
  <2>. QED  BY <2>1, <2>2, Zenon
<1>2. IsFiniteSet(Audios)
  <2> DEFINE f == [i \in AudioTracks |-> Audio(i)]
  <2>1. IsFiniteSet({f[i] : i \in AudioTracks})
    BY TracksAssumption, ImageIsFinite, Zenon
  <2>2. Audios = {f[i] : i \in AudioTracks}
    BY Zenon DEF Audios
  <2>. QED  BY <2>1, <2>2, Zenon
<1>3. IsFiniteSet(Encoders)
  BY <1>1, <1>2, FS_Union, Zenon DEF Encoders
<1>4. Audios # {} /\ Video(0) \in Videos
  BY TracksAssumption DEF Audios, Videos
<1>5. Videos \cap Audios = {}
  BY DEF Audios, Videos, Audio, Video
<1>. QED  BY <1>1, <1>2, <1>3, <1>4, <1>5

-----------------------------------------------------------------------------
(* Packets and the queue *)

Pkts == [enc : Encoders, n : Nat, key : BOOLEAN, pts : Int, dts : Int, ts : Int]

LEMMA StepsOrdered ==
    ASSUME NEW m \in Int, NEW n \in Int, NEW s \in Nat \ {0}
    PROVE  m < n <=> m * s < n * s
<1>1. ASSUME NEW a \in Int, NEW b \in Int, a < b PROVE a * s < b * s
  <2>1. (b - a) * s > 0
    BY <1>1
  <2>2. (b - a) * s = (b * s) - (a * s)
    OBVIOUS
  <2>3. a * s \in Int /\ b * s \in Int
    OBVIOUS
  <2>. QED  BY <2>1, <2>2, <2>3
<1>2. m < n => m * s < n * s
  BY <1>1
<1>3. n < m => n * s < m * s
  BY <1>1
<1>4. m * s \in Int /\ n * s \in Int
  OBVIOUS
<1>. QED  BY <1>2, <1>3, <1>4

\* The packet an encoder makes.
LEMMA PacketIs ==
    ASSUME NEW e \in Encoders, NEW n \in Nat
    PROVE  /\ Packet(e, n) \in Pkts /\ Packet(e, n).enc = e /\ Packet(e, n).n = n
           /\ Packet(e, n).ts = StartTs[e] + (n * Step[e])
           /\ e \in Videos => Packet(e, n).pts = n * Step[e]
<1>1. Step[e] \in Nat \ {0} /\ StartTs[e] \in Nat /\ Lead[e] \in Nat /\ Gop \in Nat \ {0}
  BY StepAssumption, TimeAssumption, BoundsAssumption
<1> DEFINE x == n * Step[e]
<1>2. x \in Int
  BY <1>1
<1> HIDE DEF x
<1> DEFINE pts == x - (IF e \in Audios THEN Lead[e] ELSE 0)
<1> DEFINE key == e \in Audios \/ n % Gop = 0
<1>3. Packet(e, n) = [enc |-> e, n |-> n, key |-> key, pts |-> pts, dts |-> x - Lead[e],
                      ts |-> StartTs[e] + x]
  BY Zenon DEF Packet, SystemTime, x
<1>4. pts \in Int /\ x - Lead[e] \in Int /\ StartTs[e] + x \in Int
  BY <1>1, <1>2
<1>5. e \in Videos => pts = x
  BY <1>2, EncodersAreFinite
<1>6. key \in BOOLEAN
  <2>. QED  BY Zenon
<1> HIDE DEF pts, key
<1>. QED  BY <1>3, <1>4, <1>5, <1>6 DEF Pkts, x

\* r is q with p put in as its element k.
InsertedAt(r, q, p, k) ==
    /\ r \in Seq(Pkts) /\ Len(r) = Len(q) + 1
    /\ \A i \in 1..Len(q) + 1 : r[i] = IF i < k THEN q[i] ELSE IF i = k THEN p ELSE q[i - 1]

(* insert_interleaved_packet puts a packet behind what it does not precede. *)
LEMMA InsertIs ==
    ASSUME NEW q \in Seq(Pkts), NEW p \in Pkts
    PROVE  \E k \in 1..Len(q) + 1 :
              /\ InsertedAt(Insert(q, p), q, p, k)
              /\ \A i \in 1..k - 1 : ~GoesBefore(p, q[i])
              /\ k <= Len(q) => GoesBefore(p, q[k])
<1> DEFINE S == {i \in DOMAIN q : GoesBefore(p, q[i])} \cup {Len(q) + 1}
<1> DEFINE k == Least(S)
<1>0. Len(q) \in Nat /\ DOMAIN q = 1..Len(q)
  OBVIOUS
<1>1. S \in SUBSET (1..Len(q) + 1) /\ Len(q) + 1 \in S
  BY <1>0
<1>2. \A i \in 1..Len(q) : i \in S <=> GoesBefore(p, q[i])
  BY <1>0
<1>3. Insert(q, p) = SubSeq(q, 1, k - 1) \o <<p>> \o SubSeq(q, k, Len(q))
  BY Zenon DEF Insert, InsertAt
<1> HIDE DEF S
<1>4. k \in S /\ \A i \in S : k <= i
  <2>1. IsFiniteSet(1..Len(q) + 1)
    BY <1>0, FS_Interval
  <2>2. IsFiniteSet(S)
    BY <1>1, <2>1, FS_Subset, Zenon
  <2>3. S \in SUBSET Int
    BY <1>1
  <2>. QED  BY <1>1, <2>2, <2>3, LeastInSet
<1> HIDE DEF k
<1>5. k \in 1..Len(q) + 1
  BY <1>1, <1>4
<1>6. InsertedAt(Insert(q, p), q, p, k)
  <2> DEFINE a == SubSeq(q, 1, k - 1)
  <2> DEFINE b == SubSeq(q, k, Len(q))
  <2>1. a \in Seq(Pkts) /\ Len(a) = k - 1 /\ \A i \in 1..k - 1 : a[i] = q[i]
    BY <1>0, <1>5
  <2>2. /\ b \in Seq(Pkts) /\ Len(b) = (Len(q) - k) + 1
        /\ \A i \in 1..(Len(q) - k) + 1 : b[i] = q[(i + k) - 1]
    BY <1>0, <1>5
  <2> HIDE DEF a, b
  <2> DEFINE c == a \o <<p>>
  <2>3. c \in Seq(Pkts) /\ Len(c) = k /\ \A i \in 1..k : c[i] = IF i < k THEN q[i] ELSE p
    BY <1>5, <2>1
  <2> HIDE DEF c
  <2>4. /\ c \o b \in Seq(Pkts) /\ Len(c \o b) = Len(q) + 1
        /\ \A i \in 1..Len(q) + 1 : (c \o b)[i] = IF i <= k THEN c[i] ELSE b[i - k]
    BY <1>0, <1>5, <2>2, <2>3
  <2> DEFINE r == c \o b
  <2> HIDE DEF r
  <2>5. InsertedAt(r, q, p, k)
    <3>1. r \in Seq(Pkts) /\ Len(r) = Len(q) + 1
      BY <2>4, Zenon DEF r
    <3>2. \A i \in 1..Len(q) + 1 : r[i] = IF i <= k THEN c[i] ELSE b[i - k]
      BY <2>4, Zenon DEF r
    <3>3. \A i \in 1..Len(q) + 1 :
              r[i] = IF i < k THEN q[i] ELSE IF i = k THEN p ELSE q[i - 1]
      BY <1>0, <1>5, <2>2, <2>3, <3>2
    <3>. QED  BY <3>1, <3>3, Zenon DEF InsertedAt
  <2>. QED  BY <1>3, <2>5, Zenon DEF r, c, a, b
<1>7. \A i \in 1..k - 1 : ~GoesBefore(p, q[i])
  <2>1. \A i \in 1..k - 1 : i \in 1..Len(q) /\ ~(k <= i)
    BY <1>0, <1>5
  <2>. QED  BY <1>2, <1>4, <2>1, Zenon
<1>8. k <= Len(q) => GoesBefore(p, q[k])
  <2>1. k <= Len(q) => k \in 1..Len(q)
    BY <1>0, <1>5
  <2>. QED  BY <1>2, <1>4, <2>1, Zenon
<1>. QED  BY <1>5, <1>6, <1>7, <1>8

Times == [Videos -> Seq(Int)]

\* The packets of a queue have come from their encoders, of which nx has the
\* next ones, each of them once; the offsets voff have been taken off.
Queue(q, nx, voff) ==
    /\ q \in Seq(Pkts)
    /\ \A i \in DOMAIN q :
          /\ q[i].n < nx[q[i].enc]
          /\ q[i].enc \in Videos => q[i].pts = (q[i].n * Step[q[i].enc]) - voff[q[i].enc]
    /\ \A i, j \in DOMAIN q : q[i].enc = q[j].enc /\ q[i].n = q[j].n => i = j

\* Where what is at i of a queue was before a packet was put in at k.
Old(i, k) == IF i < k THEN i ELSE i - 1

\* What is at every place of q and, for every place of q, where it is in r.
Put(r, q, p, k) ==
    /\ r \in Seq(Pkts) /\ r # <<>>
    /\ k \in DOMAIN r /\ r[k] = p
    /\ \A i \in DOMAIN r \ {k} : Old(i, k) \in DOMAIN q /\ r[i] = q[Old(i, k)]
    /\ \A i, j \in DOMAIN r \ {k} : Old(i, k) = Old(j, k) => i = j
    /\ \A j \in DOMAIN q : \E i \in DOMAIN r \ {k} : r[i] = q[j]

LEMMA InsertedElements ==
    ASSUME NEW q \in Seq(Pkts), NEW p, NEW k \in 1..Len(q) + 1, NEW r, InsertedAt(r, q, p, k)
    PROVE  Put(r, q, p, k)
<1>0. Len(q) \in Nat /\ DOMAIN q = 1..Len(q)
  OBVIOUS
<1>1. /\ r \in Seq(Pkts) /\ DOMAIN r = 1..Len(q) + 1 /\ Len(r) = Len(q) + 1
      /\ \A i \in 1..Len(q) + 1 : r[i] = IF i < k THEN q[i] ELSE IF i = k THEN p ELSE q[i - 1]
  <2>1. r \in Seq(Pkts) /\ Len(r) = Len(q) + 1
    BY Zenon DEF InsertedAt
  <2>2. \A i \in 1..Len(q) + 1 : r[i] = IF i < k THEN q[i] ELSE IF i = k THEN p ELSE q[i - 1]
    BY Zenon DEF InsertedAt
  <2>3. DOMAIN r = 1..Len(r)
    BY <2>1
  <2>. QED  BY <2>1, <2>2, <2>3, Zenon
<1>2. k \in DOMAIN r /\ r[k] = p
  BY <1>1
<1>3. \A i \in DOMAIN r \ {k} : Old(i, k) \in DOMAIN q /\ r[i] = q[Old(i, k)]
  BY <1>0, <1>1 DEF Old
<1>4. \A i, j \in DOMAIN r \ {k} : Old(i, k) = Old(j, k) => i = j
  BY <1>0, <1>1 DEF Old
<1>5. ASSUME NEW j \in DOMAIN q PROVE \E i \in DOMAIN r \ {k} : r[i] = q[j]
  <2> DEFINE i == IF j < k THEN j ELSE j + 1
  <2>1. i \in DOMAIN r \ {k} /\ Old(i, k) = j
    BY <1>0, <1>1 DEF Old
  <2>. QED  BY <1>3, <2>1
<1>6. r # <<>>
  BY <1>1
<1>. QED  BY <1>1, <1>2, <1>3, <1>4, <1>5, <1>6, Zenon DEF Put

LEMMA InsertPuts ==
    ASSUME NEW q \in Seq(Pkts), NEW p \in Pkts
    PROVE  \E k : Put(Insert(q, p), q, p, k)
<1>1. PICK k \in 1..Len(q) + 1 : InsertedAt(Insert(q, p), q, p, k)
  BY InsertIs, Zenon
<1>2. Put(Insert(q, p), q, p, k)
  BY <1>1, InsertedElements, Zenon
<1>. QED  BY <1>2

(* What comes from an encoder is put into the queue. *)
LEMMA QueueInsert ==
    ASSUME NEW q, NEW nx \in [Encoders -> Nat], NEW voff, Queue(q, nx, voff),
           NEW p \in Pkts, p.n = nx[p.enc],
           p.enc \in Videos => p.pts = (p.n * Step[p.enc]) - voff[p.enc]
    PROVE  /\ Queue(Insert(q, p), [nx EXCEPT ![p.enc] = @ + 1], voff)
           /\ Insert(q, p) # <<>>
<1> DEFINE more == [nx EXCEPT ![p.enc] = @ + 1]
<1>0. q \in Seq(Pkts) /\ p.enc \in Encoders
  BY DEF Queue, Pkts
<1>1. PICK k : Put(Insert(q, p), q, p, k)
  BY <1>0, InsertPuts, Zenon
<1> DEFINE r == Insert(q, p)
<1>2. Put(r, q, p, k)
  BY <1>1
<1> HIDE DEF r
<1>3. /\ r \in Seq(Pkts) /\ k \in DOMAIN r /\ r[k] = p /\ r # <<>>
      /\ \A i \in DOMAIN r \ {k} : Old(i, k) \in DOMAIN q /\ r[i] = q[Old(i, k)]
      /\ \A i, j \in DOMAIN r \ {k} : Old(i, k) = Old(j, k) => i = j
  BY <1>2, Zenon DEF Put
<1>4. /\ \A e \in Encoders : nx[e] \in Nat /\ more[e] \in Nat /\ nx[e] <= more[e]
      /\ nx[p.enc] < more[p.enc]
  BY <1>0
<1>5. /\ \A i \in DOMAIN q : q[i].enc \in Encoders /\ q[i].n \in Nat /\ q[i].n < nx[q[i].enc]
      /\ \A i \in DOMAIN q : q[i].enc \in Videos =>
            q[i].pts = (q[i].n * Step[q[i].enc]) - voff[q[i].enc]
      /\ \A i, j \in DOMAIN q : q[i].enc = q[j].enc /\ q[i].n = q[j].n => i = j
  <2>1. \A i \in DOMAIN q : q[i] \in Pkts
    BY <1>0
  <2>2. \A x \in Pkts : x.enc \in Encoders /\ x.n \in Nat
    BY DEF Pkts
  <2>. QED  BY <2>1, <2>2, Zenon DEF Queue
<1> HIDE DEF more
<1>6. \A i \in DOMAIN q : q[i].n < more[q[i].enc] /\ ~(q[i].enc = p.enc /\ q[i].n = p.n)
  BY <1>0, <1>4, <1>5
<1>7. \A i \in DOMAIN r : r[i].n < more[r[i].enc]
  BY <1>3, <1>4, <1>6
<1>8. \A i \in DOMAIN r : r[i].enc \in Videos =>
            r[i].pts = (r[i].n * Step[r[i].enc]) - voff[r[i].enc]
  <2>1. ASSUME NEW i \in DOMAIN r, i # k
        PROVE  \E j \in DOMAIN q : r[i] = q[j]
    BY <1>3, <2>1, Zenon
  <2>2. \A i \in DOMAIN r : r[i] = p \/ \E j \in DOMAIN q : r[i] = q[j]
    BY <1>3, <2>1, Zenon
  <2>3. ASSUME NEW x, x = p \/ \E j \in DOMAIN q : x = q[j], x.enc \in Videos
        PROVE  x.pts = (x.n * Step[x.enc]) - voff[x.enc]
    <3>1. CASE x = p
      BY <2>3, <3>1, SMT
    <3>2. ASSUME NEW j \in DOMAIN q, x = q[j] PROVE x.pts = (x.n * Step[x.enc]) - voff[x.enc]
      BY <1>5, <2>3, <3>2, SMT
    <3>. QED  BY <2>3, <3>1, <3>2
  <2>. QED  BY <2>2, <2>3, Zenon
<1>9. ASSUME NEW i \in DOMAIN r, NEW j \in DOMAIN r, r[i].enc = r[j].enc, r[i].n = r[j].n
      PROVE  i = j
  <2>1. CASE i = k
    <3>1. r[i] = p /\ (j # k => Old(j, k) \in DOMAIN q /\ r[j] = q[Old(j, k)])
      BY <1>3, <2>1, Zenon
    <3>2. j # k => q[Old(j, k)].enc = p.enc /\ q[Old(j, k)].n = p.n
      BY <1>9, <3>1, Zenon
    <3>. QED  BY <1>6, <2>1, <3>1, <3>2, Zenon
  <2>2. CASE i # k /\ j = k
    <3>1. r[j] = p /\ Old(i, k) \in DOMAIN q /\ r[i] = q[Old(i, k)]
      BY <1>3, <2>2, Zenon
    <3>2. q[Old(i, k)].enc = p.enc /\ q[Old(i, k)].n = p.n
      BY <1>9, <3>1, Zenon
    <3>. QED  BY <1>6, <3>1, <3>2, Zenon
  <2>3. CASE i # k /\ j # k
    <3>1. /\ Old(i, k) \in DOMAIN q /\ r[i] = q[Old(i, k)]
          /\ Old(j, k) \in DOMAIN q /\ r[j] = q[Old(j, k)]
          /\ Old(i, k) = Old(j, k) => i = j
      BY <1>3, <2>3, Zenon
    <3>2. q[Old(i, k)].enc = q[Old(j, k)].enc /\ q[Old(i, k)].n = q[Old(j, k)].n
      BY <1>9, <3>1, Zenon
    <3>. QED  BY <1>5, <3>1, <3>2, Zenon
  <2>. QED  BY <2>1, <2>2, <2>3
<1>10. Queue(r, more, voff)
  BY <1>3, <1>7, <1>8, <1>9, Zenon DEF Queue
<1>. QED  BY <1>3, <1>10, Zenon DEF r, more

\* Matches, for one track and its times.
MatchesFor(q, v, t) ==
    /\ \A i, j \in Waiting(q, v) : q[i].pts = q[j].pts => i = j
    /\ IsInjective(t)
    /\ Range(t) = {q[i].pts : i \in Waiting(q, v)}

LEMMA MatchesTracks ==
    ASSUME NEW q, NEW times
    PROVE  Matches(q, times) <=> \A v \in Videos : MatchesFor(q, v, times[v])
BY Zenon DEF Matches, MatchesFor

(* A packet of another track changes nothing. *)
LEMMA MatchesOther ==
    ASSUME NEW q \in Seq(Pkts), NEW p \in Pkts, NEW v, p.enc # v, NEW t, MatchesFor(q, v, t)
    PROVE  MatchesFor(Insert(q, p), v, t)
<1>1. PICK k : Put(Insert(q, p), q, p, k)
  BY InsertPuts, Zenon
<1> DEFINE r == Insert(q, p)
<1>2. Put(r, q, p, k)
  BY <1>1
<1> HIDE DEF r
<1>3. /\ k \in DOMAIN r /\ r[k] = p
      /\ \A i \in DOMAIN r \ {k} : Old(i, k) \in DOMAIN q /\ r[i] = q[Old(i, k)]
      /\ \A i, j \in DOMAIN r \ {k} : Old(i, k) = Old(j, k) => i = j
      /\ \A j \in DOMAIN q : \E i \in DOMAIN r \ {k} : r[i] = q[j]
  BY <1>2, Zenon DEF Put
<1>4. \A i \in Waiting(r, v) : i \in DOMAIN r \ {k} /\ Old(i, k) \in Waiting(q, v)
                               /\ r[i] = q[Old(i, k)]
  BY <1>3 DEF Waiting
<1>5. \A j \in Waiting(q, v) : \E i \in Waiting(r, v) : r[i] = q[j]
  BY <1>3 DEF Waiting
<1>6. \A i, j \in Waiting(r, v) : r[i].pts = r[j].pts => i = j
  <2>1. \A i, j \in Waiting(q, v) : q[i].pts = q[j].pts => i = j
    BY Zenon DEF MatchesFor
  <2>2. ASSUME NEW i \in Waiting(r, v), NEW j \in Waiting(r, v), r[i].pts = r[j].pts
        PROVE  i = j
    <3>1. /\ Old(i, k) \in Waiting(q, v) /\ r[i] = q[Old(i, k)]
          /\ Old(j, k) \in Waiting(q, v) /\ r[j] = q[Old(j, k)]
          /\ Old(i, k) = Old(j, k) => i = j
      BY <1>3, <1>4, Zenon
    <3>2. q[Old(i, k)].pts = q[Old(j, k)].pts
      BY <2>2, <3>1, Zenon
    <3>. QED  BY <2>1, <3>1, <3>2, Zenon
  <2>. QED  BY <2>2
<1>7. {r[i].pts : i \in Waiting(r, v)} = {q[i].pts : i \in Waiting(q, v)}
  <2>1. \A i \in Waiting(r, v) : r[i].pts \in {q[j].pts : j \in Waiting(q, v)}
    BY <1>4, Zenon
  <2>2. \A j \in Waiting(q, v) : q[j].pts \in {r[i].pts : i \in Waiting(r, v)}
    BY <1>5, Zenon
  <2>. QED  BY <2>1, <2>2, Zenon
<1>. QED  BY <1>6, <1>7, Zenon DEF MatchesFor, r

(* The packet of a track comes with its times. *)
LEMMA MatchesOwn ==
    ASSUME NEW q \in Seq(Pkts), NEW p \in Pkts, NEW v, p.enc = v, NEW t \in Seq(Int),
           MatchesFor(q, v, t), \A i \in Waiting(q, v) : q[i].pts # p.pts
    PROVE  MatchesFor(Insert(q, p), v, Append(t, p.pts))
<1>1. PICK k : Put(Insert(q, p), q, p, k)
  BY InsertPuts, Zenon
<1> DEFINE r == Insert(q, p)
<1> DEFINE u == Append(t, p.pts)
<1>2. Put(r, q, p, k)
  BY <1>1
<1> HIDE DEF r
<1>3. /\ k \in DOMAIN r /\ r[k] = p
      /\ \A i \in DOMAIN r \ {k} : Old(i, k) \in DOMAIN q /\ r[i] = q[Old(i, k)]
      /\ \A i, j \in DOMAIN r \ {k} : Old(i, k) = Old(j, k) => i = j
      /\ \A j \in DOMAIN q : \E i \in DOMAIN r \ {k} : r[i] = q[j]
  BY <1>2, Zenon DEF Put
<1>4. /\ \A i \in Waiting(r, v) : i # k => i \in DOMAIN r \ {k} /\ Old(i, k) \in Waiting(q, v)
                                  /\ r[i] = q[Old(i, k)]
      /\ k \in Waiting(r, v)
  BY <1>3 DEF Waiting
<1>5. \A j \in Waiting(q, v) : \E i \in Waiting(r, v) : r[i] = q[j]
  BY <1>3 DEF Waiting
<1>6. \A i, j \in Waiting(r, v) : r[i].pts = r[j].pts => i = j
  <2>1. \A i, j \in Waiting(q, v) : q[i].pts = q[j].pts => i = j
    BY Zenon DEF MatchesFor
  <2>2. ASSUME NEW i \in Waiting(r, v), NEW j \in Waiting(r, v), r[i].pts = r[j].pts
        PROVE  i = j
    <3>1. CASE i = k \/ j = k
      <4>1. \A x \in Waiting(r, v) : x = k \/ r[x].pts # p.pts
        <5>1. \A x \in Waiting(r, v) : x # k => Old(x, k) \in Waiting(q, v) /\ r[x] = q[Old(x, k)]
          BY <1>4, Zenon
        <5>2. \A x \in Waiting(r, v) : x # k => r[x].pts # p.pts
          BY <5>1, Zenon
        <5>. QED  BY <5>2, Zenon
      <4>2. r[k].pts = p.pts
        BY <1>3
      <4>. QED  BY <2>2, <3>1, <4>1, <4>2, Zenon
    <3>2. CASE i # k /\ j # k
      <4>1. /\ Old(i, k) \in Waiting(q, v) /\ r[i] = q[Old(i, k)]
            /\ Old(j, k) \in Waiting(q, v) /\ r[j] = q[Old(j, k)]
            /\ Old(i, k) = Old(j, k) => i = j
        BY <1>3, <1>4, <3>2, Zenon
      <4>2. q[Old(i, k)].pts = q[Old(j, k)].pts
        BY <2>2, <4>1, Zenon
      <4>. QED  BY <2>1, <4>1, <4>2, Zenon
    <3>. QED  BY <3>1, <3>2
  <2>. QED  BY <2>2
<1>7. {r[i].pts : i \in Waiting(r, v)} = {q[i].pts : i \in Waiting(q, v)} \cup {p.pts}
  <2>1. \A i \in Waiting(r, v) : r[i].pts \in {q[j].pts : j \in Waiting(q, v)} \cup {p.pts}
    BY <1>3, <1>4, Zenon
  <2>2. \A j \in Waiting(q, v) : q[j].pts \in {r[i].pts : i \in Waiting(r, v)}
    BY <1>5, Zenon
  <2>3. p.pts \in {r[i].pts : i \in Waiting(r, v)}
    BY <1>3, <1>4, Zenon
  <2>. QED  BY <2>1, <2>2, <2>3, ZenonT(30)
<1>8. /\ \A a, b \in DOMAIN t : t[a] = t[b] => a = b
      /\ {t[a] : a \in DOMAIN t} = {q[i].pts : i \in Waiting(q, v)}
  BY Zenon DEF MatchesFor, IsInjective, Range
<1>9. \A a \in DOMAIN t : t[a] # p.pts
  BY <1>8
<1>10. DOMAIN t = 1..Len(t) /\ Len(t) \in Nat /\ DOMAIN u = 1..Len(t) + 1
       /\ \A a \in 1..Len(t) + 1 : u[a] = IF a = Len(t) + 1 THEN p.pts ELSE t[a]
  <2>1. p.pts \in Int
    BY DEF Pkts
  <2>. QED  BY <2>1
<1> HIDE DEF u
<1>11. \A a, b \in DOMAIN u : u[a] = u[b] => a = b
  BY <1>8, <1>9, <1>10
<1>12. {u[a] : a \in DOMAIN u} = {t[a] : a \in DOMAIN t} \cup {p.pts}
  <2>1. \A a \in DOMAIN u : u[a] \in {t[b] : b \in DOMAIN t} \cup {p.pts}
    BY <1>10
  <2>2. \A b \in DOMAIN t : b \in DOMAIN u /\ u[b] = t[b]
    BY <1>10
  <2>3. Len(t) + 1 \in DOMAIN u /\ u[Len(t) + 1] = p.pts
    BY <1>10
  <2>. QED  BY <2>1, <2>2, <2>3, ZenonT(30)
<1>13. Range(u) = {r[i].pts : i \in Waiting(r, v)} /\ IsInjective(u)
  <2>1. Range(u) = {u[a] : a \in DOMAIN u}
    BY Zenon DEF Range
  <2>2. {u[a] : a \in DOMAIN u} = {r[i].pts : i \in Waiting(r, v)}
    BY <1>7, <1>8, <1>12, Zenon
  <2>3. IsInjective(u)
    BY <1>11, Zenon DEF IsInjective
  <2>. QED  BY <2>1, <2>2, <2>3, Zenon
<1>14. MatchesFor(r, v, u)
  BY <1>6, <1>13, Zenon DEF MatchesFor
<1>. QED  BY <1>14, Zenon DEF r, u

-----------------------------------------------------------------------------
(* Packets leave the queue *)

\* r is q without its first element.
Rest(r, q) ==
    /\ r \in Seq(Pkts) /\ DOMAIN r = 1..Len(q) - 1
    /\ \A i \in 1..Len(q) - 1 : r[i] = q[i + 1]

\* u is t without its element k.
Without1(u, t, k) ==
    /\ u \in Seq(Int) /\ DOMAIN u = 1..Len(t) - 1
    /\ \A a \in 1..Len(t) - 1 : u[a] = IF a < k THEN t[a] ELSE t[a + 1]

(* What is left of a sequence behind its first elements. *)
LEMMA SuffixIs ==
    ASSUME NEW S, NEW w \in Seq(S), NEW k \in 1..Len(w) + 1
    PROVE  /\ SubSeq(w, k, Len(w)) \in Seq(S) /\ Len(SubSeq(w, k, Len(w))) = (Len(w) - k) + 1
           /\ \A i \in 1..(Len(w) - k) + 1 : SubSeq(w, k, Len(w))[i] = w[(i + k) - 1]
OBVIOUS

LEMMA RestIs ==
    ASSUME NEW q \in Seq(Pkts), q # <<>>
    PROVE  Rest(Tail(q), q) /\ Rest(SubSeq(q, 2, Len(q)), q)
<1>1. Tail(q) \in Seq(Pkts) /\ DOMAIN Tail(q) = 1..Len(q) - 1
      /\ \A i \in 1..Len(q) - 1 : Tail(q)[i] = q[i + 1]
  OBVIOUS
<1> DEFINE r == SubSeq(q, 2, Len(q))
<1>2. r \in Seq(Pkts) /\ Len(r) = Len(q) - 1 /\ Len(q) \in Nat
      /\ \A i \in 1..Len(q) - 1 : r[i] = q[i + 1]
  <2>0. Len(q) \in Nat \ {0}
    OBVIOUS
  <2>1. 2 \in 1..Len(q) + 1
    BY <2>0
  <2>2. /\ r \in Seq(Pkts) /\ Len(r) = (Len(q) - 2) + 1
        /\ \A i \in 1..(Len(q) - 2) + 1 : r[i] = q[(i + 2) - 1]
    BY <2>1, SuffixIs, Zenon
  <2>3. (Len(q) - 2) + 1 = Len(q) - 1 /\ \A i \in 1..Len(q) - 1 : (i + 2) - 1 = i + 1
    BY <2>0
  <2> HIDE DEF r
  <2>. QED  BY <2>0, <2>2, <2>3, Zenon
<1> HIDE DEF r
<1>3. DOMAIN r = 1..Len(q) - 1
  BY <1>2
<1>4. Rest(r, q)
  BY <1>2, <1>3, Zenon DEF Rest
<1>. QED  BY <1>1, <1>4, Zenon DEF Rest, r

LEMMA Without1Is ==
    ASSUME NEW t \in Seq(Int), NEW k \in DOMAIN t
    PROVE  Without1(RemoveAt(t, k), t, k)
<1>0. k \in 1..Len(t) /\ Len(t) \in Nat
  OBVIOUS
<1> DEFINE a == SubSeq(t, 1, k - 1)
<1> DEFINE b == SubSeq(t, k + 1, Len(t))
<1>1. a \in Seq(Int) /\ Len(a) = k - 1 /\ \A i \in 1..k - 1 : a[i] = t[i]
  BY <1>0
<1>2. b \in Seq(Int) /\ Len(b) = Len(t) - k /\ \A i \in 1..Len(t) - k : b[i] = t[i + k]
  <2>1. /\ b \in Seq(Int) /\ Len(b) = Len(t) - k
        /\ \A i \in 1..Len(t) - k : b[i] = t[((k + 1) + i) - 1]
    BY <1>0
  <2>2. \A i \in 1..Len(t) - k : ((k + 1) + i) - 1 = i + k
    BY <1>0
  <2> HIDE DEF b
  <2>. QED  BY <2>1, <2>2
<1> HIDE DEF a, b
<1>3. /\ a \o b \in Seq(Int) /\ Len(a \o b) = Len(t) - 1
      /\ \A i \in 1..Len(t) - 1 : (a \o b)[i] = IF i < k THEN a[i] ELSE b[(i - k) + 1]
  <2>1. /\ a \o b \in Seq(Int) /\ Len(a \o b) = Len(a) + Len(b)
        /\ \A i \in 1..Len(a) + Len(b) :
              (a \o b)[i] = IF i <= Len(a) THEN a[i] ELSE b[i - Len(a)]
    BY <1>1, <1>2, ConcatElements, Zenon
  <2>2. Len(a) + Len(b) = Len(t) - 1 /\ Len(a) = k - 1
    <3>1. Len(a) = k - 1 /\ Len(b) = Len(t) - k
      BY <1>1, <1>2, Zenon
    <3>2. ASSUME NEW m, NEW n, m = k - 1, n = Len(t) - k PROVE m + n = Len(t) - 1
      BY <1>0, <3>2
    <3>. QED  BY <3>1, <3>2, Zenon
  <2>3. \A i \in 1..Len(t) - 1 : (i <= Len(a) <=> i < k) /\ i - Len(a) = (i - k) + 1
    <3>1. PICK m : m = Len(a)
      OBVIOUS
    <3>2. m = k - 1
      BY <2>2, <3>1, Zenon
    <3>3. \A i \in 1..Len(t) - 1 : (i <= m <=> i < k) /\ i - m = (i - k) + 1
      BY <1>0, <3>2
    <3>. QED  BY <3>1, <3>3, Zenon
  <2>. QED  BY <2>1, <2>2, <2>3, Zenon
<1> DEFINE u == a \o b
<1> HIDE DEF u
<1>4. u \in Seq(Int) /\ Len(u) = Len(t) - 1
      /\ \A i \in 1..Len(t) - 1 : u[i] = IF i < k THEN a[i] ELSE b[(i - k) + 1]
  BY <1>3, Zenon DEF u
<1>5. \A i \in 1..Len(t) - 1 : u[i] = IF i < k THEN t[i] ELSE t[i + 1]
  <2>1. \A i \in 1..Len(t) - 1 : i < k => i \in 1..k - 1
    BY <1>0
  <2>2. \A i \in 1..Len(t) - 1 : ~(i < k) =>
            (i - k) + 1 \in 1..Len(t) - k /\ ((i - k) + 1) + k = i + 1
    BY <1>0
  <2>3. ASSUME NEW i \in 1..Len(t) - 1, ~(i < k) PROVE b[(i - k) + 1] = t[i + 1]
    <3>1. PICK j : j = (i - k) + 1
      OBVIOUS
    <3>2. j \in 1..Len(t) - k /\ j + k = i + 1
      BY <2>2, <2>3, <3>1, Zenon
    <3>3. b[j] = t[j + k]
      BY <1>2, <3>2, Zenon
    <3>. QED  BY <3>1, <3>2, <3>3, Zenon
  <2>. QED  BY <1>1, <1>4, <2>1, <2>3, Zenon
<1>6. DOMAIN u = 1..Len(t) - 1
  BY <1>4
<1>7. Without1(u, t, k)
  BY <1>4, <1>5, <1>6, Zenon DEF Without1
<1>. QED  BY <1>7, Zenon DEF u, a, b, RemoveAt

LEMMA WithoutFirst ==
    ASSUME NEW t \in Seq(Int), 1 \in DOMAIN t
    PROVE  Without1(SubSeq(t, 2, Len(t)), t, 1)
<1> DEFINE u == SubSeq(t, 2, Len(t))
<1>1. u \in Seq(Int) /\ Len(u) = Len(t) - 1 /\ Len(t) \in Nat
      /\ \A i \in 1..Len(t) - 1 : u[i] = t[i + 1]
  <2>0. Len(t) \in Nat \ {0}
    OBVIOUS
  <2>1. 2 \in 1..Len(t) + 1
    BY <2>0
  <2>2. /\ u \in Seq(Int) /\ Len(u) = (Len(t) - 2) + 1
        /\ \A i \in 1..(Len(t) - 2) + 1 : u[i] = t[(i + 2) - 1]
    BY <2>1, SuffixIs, Zenon
  <2>3. (Len(t) - 2) + 1 = Len(t) - 1 /\ \A i \in 1..Len(t) - 1 : (i + 2) - 1 = i + 1
    BY <2>0
  <2> HIDE DEF u
  <2>. QED  BY <2>0, <2>2, <2>3, Zenon
<1> HIDE DEF u
<1>2. DOMAIN u = 1..Len(t) - 1
  BY <1>1
<1>3. \A i \in 1..Len(t) - 1 : u[i] = IF i < 1 THEN t[i] ELSE t[i + 1]
  BY <1>1
<1>4. Without1(u, t, 1)
  BY <1>1, <1>2, <1>3, Zenon DEF Without1
<1>. QED  BY <1>4, Zenon DEF u

LEMMA QueueRest ==
    ASSUME NEW q, q # <<>>, NEW nx, NEW voff, Queue(q, nx, voff), NEW r, Rest(r, q)
    PROVE  Queue(r, nx, voff)
<1>1. q \in Seq(Pkts) /\ Len(q) \in Nat /\ DOMAIN q = 1..Len(q)
  BY DEF Queue
<1>2. /\ r \in Seq(Pkts) /\ DOMAIN r = 1..Len(q) - 1
      /\ \A i \in DOMAIN r : i + 1 \in DOMAIN q /\ r[i] = q[i + 1]
  BY <1>1 DEF Rest
<1>3. /\ \A i \in DOMAIN r :
            /\ r[i].n < nx[r[i].enc]
            /\ r[i].enc \in Videos => r[i].pts = (r[i].n * Step[r[i].enc]) - voff[r[i].enc]
  <2> SUFFICES ASSUME NEW i \in DOMAIN r
               PROVE  /\ r[i].n < nx[r[i].enc]
                      /\ r[i].enc \in Videos =>
                            r[i].pts = (r[i].n * Step[r[i].enc]) - voff[r[i].enc]
    BY Zenon
  <2>1. PICK x : x = q[i + 1] /\ r[i] = x
    BY <1>2
  <2>2. x.n < nx[x.enc] /\ (x.enc \in Videos => x.pts = (x.n * Step[x.enc]) - voff[x.enc])
    BY <1>2, <2>1, Zenon DEF Queue
  <2>. QED  BY <2>1, <2>2, Zenon
<1>4. ASSUME NEW i \in DOMAIN r, NEW j \in DOMAIN r, r[i].enc = r[j].enc, r[i].n = r[j].n
      PROVE  i = j
  <2>1. q[i + 1].enc = q[j + 1].enc /\ q[i + 1].n = q[j + 1].n
    BY <1>2, <1>4, Zenon
  <2>2. i + 1 = j + 1
    BY <1>2, <2>1, Zenon DEF Queue
  <2>. QED  BY <1>1, <1>2, <2>2
<1>. QED  BY <1>2, <1>3, <1>4, Zenon DEF Queue

(* The first packet leaves, and is of another track. *)
LEMMA RestOther ==
    ASSUME NEW q \in Seq(Pkts), q # <<>>, NEW v, q[1].enc # v, NEW t, MatchesFor(q, v, t),
           NEW r, Rest(r, q)
    PROVE  MatchesFor(r, v, t)
<1>1. Len(q) \in Nat /\ DOMAIN q = 1..Len(q) /\ 1 \in DOMAIN q
  OBVIOUS
<1>2. /\ DOMAIN r = 1..Len(q) - 1
      /\ \A i \in DOMAIN r : i + 1 \in DOMAIN q /\ r[i] = q[i + 1]
  BY <1>1 DEF Rest
<1>3. \A i \in Waiting(r, v) : i \in DOMAIN r /\ i + 1 \in Waiting(q, v) /\ r[i] = q[i + 1]
  BY <1>2 DEF Waiting
<1>4. ASSUME NEW j \in Waiting(q, v) PROVE \E i \in Waiting(r, v) : r[i] = q[j]
  <2>1. j \in DOMAIN q /\ q[j].enc = v /\ j # 1
    BY DEF Waiting
  <2>2. j - 1 \in DOMAIN r /\ (j - 1) + 1 = j
    BY <1>1, <1>2, <2>1
  <2>3. r[j - 1] = q[j]
    BY <1>2, <2>2, Zenon
  <2>4. j - 1 \in Waiting(r, v)
    BY <2>1, <2>2, <2>3, Zenon DEF Waiting
  <2>. QED  BY <2>3, <2>4, Zenon
<1>5. ASSUME NEW i \in Waiting(r, v), NEW j \in Waiting(r, v), r[i].pts = r[j].pts
      PROVE  i = j
  <2>1. q[i + 1].pts = q[j + 1].pts
    BY <1>3, <1>5, Zenon
  <2>2. i + 1 = j + 1
    BY <1>3, <2>1, Zenon DEF MatchesFor
  <2>3. i \in Int /\ j \in Int
    BY <1>2, <1>3
  <2>. QED  BY <2>2, <2>3
<1>6. {r[i].pts : i \in Waiting(r, v)} = {q[i].pts : i \in Waiting(q, v)}
  <2>1. \A i \in Waiting(r, v) : r[i].pts \in {q[j].pts : j \in Waiting(q, v)}
    BY <1>3, Zenon
  <2>2. \A j \in Waiting(q, v) : q[j].pts \in {r[i].pts : i \in Waiting(r, v)}
    BY <1>4, Zenon
  <2>. QED  BY <2>1, <2>2, Zenon
<1>. QED  BY <1>5, <1>6, Zenon DEF MatchesFor

(* The first packet leaves with its times. *)
LEMMA RestOwn ==
    ASSUME NEW q \in Seq(Pkts), q # <<>>, NEW v, q[1].enc = v, NEW t \in Seq(Int),
           MatchesFor(q, v, t), NEW r, Rest(r, q),
           NEW k \in DOMAIN t, t[k] = q[1].pts, NEW u, Without1(u, t, k)
    PROVE  MatchesFor(r, v, u)
<1>1. Len(q) \in Nat /\ DOMAIN q = 1..Len(q) /\ 1 \in DOMAIN q
  OBVIOUS
<1>2. /\ DOMAIN r = 1..Len(q) - 1
      /\ \A i \in DOMAIN r : i + 1 \in DOMAIN q /\ r[i] = q[i + 1]
  BY <1>1 DEF Rest
<1>3. \A i \in Waiting(r, v) : i \in DOMAIN r /\ i + 1 \in Waiting(q, v) /\ r[i] = q[i + 1]
  BY <1>2 DEF Waiting
<1>4. ASSUME NEW j \in Waiting(q, v), j # 1 PROVE \E i \in Waiting(r, v) : r[i] = q[j]
  <2>1. j \in DOMAIN q /\ q[j].enc = v
    BY DEF Waiting
  <2>2. j - 1 \in DOMAIN r /\ (j - 1) + 1 = j
    BY <1>1, <1>2, <1>4, <2>1
  <2>3. r[j - 1] = q[j]
    BY <1>2, <2>2, Zenon
  <2>4. j - 1 \in Waiting(r, v)
    BY <2>1, <2>2, <2>3, Zenon DEF Waiting
  <2>. QED  BY <2>3, <2>4, Zenon
<1>5. ASSUME NEW i \in Waiting(r, v), NEW j \in Waiting(r, v), r[i].pts = r[j].pts
      PROVE  i = j
  <2>1. q[i + 1].pts = q[j + 1].pts
    BY <1>3, <1>5, Zenon
  <2>2. i + 1 = j + 1
    BY <1>3, <2>1, Zenon DEF MatchesFor
  <2>3. i \in Int /\ j \in Int
    BY <1>2, <1>3
  <2>. QED  BY <2>2, <2>3
<1> DEFINE gone == q[1].pts
<1>6. {r[i].pts : i \in Waiting(r, v)} = {q[i].pts : i \in Waiting(q, v)} \ {gone}
  <2>1. ASSUME NEW i \in Waiting(r, v)
        PROVE  r[i].pts \in {q[j].pts : j \in Waiting(q, v)} /\ r[i].pts # gone
    <3>1. i + 1 \in Waiting(q, v) /\ r[i] = q[i + 1] /\ 1 \in Waiting(q, v)
      BY <1>1, <1>3, Zenon DEF Waiting
    <3>2. i + 1 # 1
      BY <1>2, <1>3
    <3>3. q[i + 1].pts # q[1].pts
      BY <3>1, <3>2, Zenon DEF MatchesFor
    <3>. QED  BY <3>1, <3>3, Zenon
  <2>2. \A j \in Waiting(q, v) : q[j].pts # gone => q[j].pts \in {r[i].pts : i \in Waiting(r, v)}
    BY <1>4, Zenon
  <2> HIDE DEF gone
  <2> DEFINE R == {r[i].pts : i \in Waiting(r, v)}
  <2> DEFINE Q == {q[i].pts : i \in Waiting(q, v)}
  <2>3. \A x \in R : x \in Q /\ x # gone
    BY <2>1, Zenon
  <2>4. \A x \in Q : x # gone => x \in R
    BY <2>2, Zenon
  <2> HIDE DEF R, Q
  <2>5. R = Q \ {gone}
    BY <2>3, <2>4
  <2>. QED  BY <2>5, Zenon DEF R, Q
<1>7. /\ \A a, b \in DOMAIN t : t[a] = t[b] => a = b
      /\ {t[a] : a \in DOMAIN t} = {q[i].pts : i \in Waiting(q, v)}
  BY Zenon DEF MatchesFor, IsInjective, Range
<1>8. /\ DOMAIN t = 1..Len(t) /\ Len(t) \in Nat /\ DOMAIN u = 1..Len(t) - 1
      /\ \A a \in 1..Len(t) - 1 : u[a] = IF a < k THEN t[a] ELSE t[a + 1]
  BY DEF Without1
<1> DEFINE was(a) == IF a < k THEN a ELSE a + 1
<1>9. \A a \in DOMAIN u : was(a) \in DOMAIN t /\ was(a) # k /\ u[a] = t[was(a)]
  BY <1>8
<1>10. \A a, b \in DOMAIN u : was(a) = was(b) => a = b
  BY <1>8, SMTT(30)
<1>11. ASSUME NEW b \in DOMAIN t, b # k PROVE \E a \in DOMAIN u : u[a] = t[b]
  <2> DEFINE a == IF b < k THEN b ELSE b - 1
  <2>1. a \in DOMAIN u /\ was(a) = b
    BY <1>8, <1>11
  <2>. QED  BY <1>9, <2>1
<1> HIDE DEF was
<1>12. \A a, b \in DOMAIN u : u[a] = u[b] => a = b
  BY <1>7, <1>9, <1>10, Zenon
<1>13. {u[a] : a \in DOMAIN u} = {t[a] : a \in DOMAIN t} \ {gone}
  <2>1. ASSUME NEW a \in DOMAIN u
        PROVE  u[a] \in {t[b] : b \in DOMAIN t} /\ u[a] # gone
    <3>1. was(a) \in DOMAIN t /\ was(a) # k /\ u[a] = t[was(a)]
      BY <1>9
    <3>. QED  BY <1>7, <3>1, Zenon
  <2>2. \A b \in DOMAIN t : t[b] # gone => t[b] \in {u[a] : a \in DOMAIN u}
    BY <1>11, Zenon
  <2>. QED  BY <2>1, <2>2, Zenon
<1>14. Range(u) = {r[i].pts : i \in Waiting(r, v)} /\ IsInjective(u)
  <2>1. Range(u) = {u[a] : a \in DOMAIN u}
    BY Zenon DEF Range
  <2>2. {u[a] : a \in DOMAIN u} = {r[i].pts : i \in Waiting(r, v)}
    BY <1>6, <1>7, <1>13, Zenon
  <2>3. IsInjective(u)
    BY <1>12, Zenon DEF IsInjective
  <2>. QED  BY <2>1, <2>2, <2>3, Zenon
<1>. QED  BY <1>5, <1>14, Zenon DEF MatchesFor

-----------------------------------------------------------------------------
(* A packet comes *)

\* The times when packet p has come.
WithTimes(times, p) ==
    IF p.enc \in Videos THEN [times EXCEPT ![p.enc] = Append(@, p.pts)] ELSE times

(* The packets of a track that wait are earlier than the one that comes. *)
LEMMA WaitingEarlier ==
    ASSUME NEW q, NEW nx \in [Encoders -> Nat], NEW voff \in [Videos -> Int],
           Queue(q, nx, voff),
           NEW p \in Pkts, p.n = nx[p.enc], p.enc \in Videos,
           p.pts = (p.n * Step[p.enc]) - voff[p.enc]
    PROVE  \A i \in Waiting(q, p.enc) : q[i].pts < p.pts
<1> SUFFICES ASSUME NEW i \in Waiting(q, p.enc) PROVE q[i].pts < p.pts
  OBVIOUS
<1> DEFINE v == p.enc
<1> DEFINE m == q[i].n
<1> DEFINE n == p.n
<1> DEFINE s == Step[v]
<1> DEFINE o == voff[v]
<1>1. q \in Seq(Pkts) /\ i \in DOMAIN q /\ q[i].enc = v
  BY DEF Queue, Waiting
<1>2. q[i] \in Pkts
  BY <1>1
<1>3. m \in Nat /\ n \in Nat /\ s \in Nat \ {0} /\ o \in Int
  <2>1. v \in Videos /\ v \in Encoders
    BY DEF Pkts
  <2>. QED  BY <1>2, <2>1, StepAssumption DEF Pkts
<1>4. m < n /\ q[i].pts = (m * s) - o
  <2>1. m < nx[q[i].enc] /\ q[i].pts = (m * Step[q[i].enc]) - voff[q[i].enc]
    BY <1>1, Zenon DEF Queue
  <2>. QED  BY <1>1, <2>1, Zenon
<1>5. p.pts = (n * s) - o
  OBVIOUS
<1> HIDE DEF m, n, s, o
<1>6. m * s < n * s
  BY <1>3, <1>4, StepsOrdered
<1>7. PICK a \in Int, b \in Int : a = m * s /\ b = n * s
  BY <1>3
<1>8. (m * s) - o < (n * s) - o
  BY <1>3, <1>6, <1>7
<1>. QED  BY <1>4, <1>5, <1>8, Zenon

(* The packet that comes is put into the queue and its times to the end.   *)
LEMMA MatchesInsert ==
    ASSUME NEW q, NEW nx \in [Encoders -> Nat], NEW voff \in [Videos -> Int],
           Queue(q, nx, voff),
           NEW times \in Times, Matches(q, times),
           NEW p \in Pkts, p.n = nx[p.enc],
           p.enc \in Videos => p.pts = (p.n * Step[p.enc]) - voff[p.enc]
    PROVE  WithTimes(times, p) \in Times /\ Matches(Insert(q, p), WithTimes(times, p))
<1>0. q \in Seq(Pkts) /\ p.enc \in Encoders /\ p.pts \in Int
  BY DEF Queue, Pkts
<1>1. \A v \in Videos : MatchesFor(q, v, times[v]) /\ times[v] \in Seq(Int)
  BY MatchesTracks DEF Times
<1>2. CASE p.enc \in Videos
  <2> DEFINE new == [times EXCEPT ![p.enc] = Append(@, p.pts)]
  <2>1. WithTimes(times, p) = new
    BY <1>2, Zenon DEF WithTimes
  <2>2. new \in Times /\ new[p.enc] = Append(times[p.enc], p.pts)
        /\ \A v \in Videos : v # p.enc => new[v] = times[v]
    BY <1>0, <1>2 DEF Times
  <2>3. \A i \in Waiting(q, p.enc) : q[i].pts # p.pts
    <3>1. \A i \in Waiting(q, p.enc) : q[i].pts < p.pts
      BY <1>2, WaitingEarlier
    <3>2. \A i \in Waiting(q, p.enc) : q[i] \in Pkts
      BY <1>0 DEF Waiting
    <3>3. \A x \in Pkts : x.pts \in Int
      BY DEF Pkts
    <3>. QED  BY <1>0, <3>1, <3>2, <3>3
  <2> HIDE DEF new
  <2>4. \A v \in Videos : MatchesFor(Insert(q, p), v, new[v])
    <3> SUFFICES ASSUME NEW v \in Videos PROVE MatchesFor(Insert(q, p), v, new[v])
      OBVIOUS
    <3>1. CASE p.enc = v
      BY <1>0, <1>1, <1>2, <2>2, <2>3, <3>1, MatchesOwn, Zenon
    <3>2. CASE p.enc # v
      BY <1>0, <1>1, <2>2, <3>2, MatchesOther, Zenon
    <3>. QED  BY <3>1, <3>2
  <2>. QED  BY <2>1, <2>2, <2>4, MatchesTracks, Zenon
<1>3. CASE p.enc \notin Videos
  <2>1. WithTimes(times, p) = times
    BY <1>3, Zenon DEF WithTimes
  <2>2. \A v \in Videos : MatchesFor(Insert(q, p), v, times[v])
    BY <1>0, <1>1, <1>3, MatchesOther, Zenon
  <2>. QED  BY <2>1, <2>2, MatchesTracks, Zenon
<1>. QED  BY <1>2, <1>3

-----------------------------------------------------------------------------
(* While packets are collected *)

Zero == [v \in Videos |-> 0]

\* The timestamps are in system time, and the queue is sorted by them.
InSystemTime(q) ==
    /\ \A i \in DOMAIN q : q[i].ts = StartTs[q[i].enc] + (q[i].n * Step[q[i].enc])
    /\ \A i, j \in DOMAIN q : i < j => q[i].ts <= q[j].ts

RisingTimes(t) == \A a, b \in DOMAIN t : a < b => t[a] < t[b]
Rising(times) == \A v \in Videos : RisingTimes(times[v])

Collecting(q, times, nx) ==
    /\ Queue(q, nx, Zero) /\ InSystemTime(q)
    /\ times \in Times /\ Rising(times) /\ Matches(q, times)

LEMMA InsertSorted ==
    ASSUME NEW q \in Seq(Pkts), NEW p \in Pkts,
           \A i, j \in DOMAIN q : i < j => q[i].ts <= q[j].ts
    PROVE  \A i, j \in DOMAIN Insert(q, p) : i < j => Insert(q, p)[i].ts <= Insert(q, p)[j].ts
<1> DEFINE r == Insert(q, p)
<1> DEFINE n == Len(q)
<1>1. PICK k \in 1..n + 1 :
              /\ InsertedAt(r, q, p, k)
              /\ \A i \in 1..k - 1 : ~GoesBefore(p, q[i])
              /\ k <= n => GoesBefore(p, q[k])
  BY InsertIs
<1>0. n \in Nat /\ DOMAIN q = 1..n
  OBVIOUS
<1>2. r \in Seq(Pkts) /\ Len(r) = n + 1
      /\ \A i \in 1..n + 1 : r[i] = IF i < k THEN q[i] ELSE IF i = k THEN p ELSE q[i - 1]
  BY <1>1, Zenon DEF InsertedAt
<1> HIDE DEF r
<1>3. DOMAIN r = 1..n + 1
  BY <1>2
<1> HIDE DEF n
<1>4. \A x \in Pkts : x.ts \in Int
  BY DEF Pkts
<1>5. \A i \in 1..n : q[i].ts \in Int
  <2>1. \A i \in 1..n : q[i] \in Pkts
    BY <1>0
  <2>. QED  BY <1>4, <2>1, Zenon
<1>6. \A i \in 1..k - 1 : q[i].ts <= p.ts
  <2>1. \A i \in 1..k - 1 : ~(p.ts < q[i].ts) /\ q[i].ts \in Int
    <3>1. \A i \in 1..k - 1 : i \in 1..n
      BY <1>0
    <3>. QED  BY <1>1, <1>5, <3>1, Zenon DEF GoesBefore
  <2>. QED  BY <1>4, <2>1
<1>7. k <= n => p.ts <= q[k].ts
  <2>1. k <= n => (p.ts < q[k].ts \/ p.ts = q[k].ts) /\ q[k].ts \in Int
    <3>1. k <= n => k \in 1..n
      BY <1>0
    <3>. QED  BY <1>1, <1>5, <3>1, Zenon DEF GoesBefore
  <2>. QED  BY <1>4, <2>1
<1>8. \A j \in k..n : p.ts <= q[j].ts
  <2> SUFFICES ASSUME NEW j \in k..n PROVE p.ts <= q[j].ts
    OBVIOUS
  <2>1. k \in 1..n /\ j \in 1..n /\ (k < j \/ k = j) /\ k <= n
    BY <1>0
  <2>2. k < j => q[k].ts <= q[j].ts
    BY <1>0, <2>1, Zenon
  <2>3. q[k].ts \in Int /\ q[j].ts \in Int /\ p.ts \in Int
    BY <1>4, <1>5, <2>1, Zenon
  <2>. QED  BY <1>7, <2>1, <2>2, <2>3
<1>9. ASSUME NEW i \in 1..n + 1, NEW j \in 1..n + 1, i < j PROVE r[i].ts <= r[j].ts
  <2>1. CASE j < k
    <3>1. r[i] = q[i] /\ r[j] = q[j] /\ i \in DOMAIN q /\ j \in DOMAIN q
      BY <1>0, <1>2, <1>9, <2>1
    <3>. QED  BY <1>9, <3>1, Zenon
  <2>2. CASE j = k
    <3>1. r[i] = q[i] /\ r[j] = p /\ i \in 1..k - 1
      BY <1>0, <1>2, <1>9, <2>2
    <3>. QED  BY <1>6, <3>1, Zenon
  <2>3. CASE i < k /\ k < j
    <3>1. r[i] = q[i] /\ r[j] = q[j - 1] /\ i \in DOMAIN q /\ j - 1 \in DOMAIN q /\ i < j - 1
      BY <1>0, <1>2, <1>9, <2>3
    <3>. QED  BY <3>1, Zenon
  <2>4. CASE i = k /\ k < j
    <3>1. r[i] = p /\ r[j] = q[j - 1] /\ j - 1 \in k..n
      BY <1>0, <1>2, <1>9, <2>4
    <3>. QED  BY <1>8, <3>1, Zenon
  <2>5. CASE k < i
    <3>1. r[i] = q[i - 1] /\ r[j] = q[j - 1] /\ i - 1 \in DOMAIN q /\ j - 1 \in DOMAIN q
          /\ i - 1 < j - 1
      BY <1>0, <1>2, <1>9, <2>5
    <3>. QED  BY <3>1, Zenon
  <2>. QED  BY <1>9, <2>1, <2>2, <2>3, <2>4, <2>5
<1>. QED  BY <1>3, <1>9, Zenon DEF r

(* A packet is collected. *)
LEMMA CollectInsert ==
    ASSUME NEW q, NEW times, NEW nx \in [Encoders -> Nat], Collecting(q, times, nx),
           NEW e \in Encoders, NEW p, p = Packet(e, nx[e])
    PROVE  /\ Collecting(Insert(q, p), WithTimes(times, p), [nx EXCEPT ![e] = @ + 1])
           /\ Insert(q, p) # <<>>
<1>0. nx[e] \in Nat
  OBVIOUS
<1>1. /\ p \in Pkts /\ p.enc = e /\ p.n = nx[e] /\ p.ts = StartTs[e] + (p.n * Step[e])
      /\ e \in Videos => p.pts = p.n * Step[e]
  BY <1>0, PacketIs, ZenonT(30)
<1>2. /\ Queue(q, nx, Zero) /\ InSystemTime(q) /\ times \in Times /\ Rising(times)
      /\ Matches(q, times)
  BY Zenon DEF Collecting
<1>3. Zero \in [Videos -> Int]
  BY DEF Zero
<1>4. p.enc \in Videos => p.pts = (p.n * Step[p.enc]) - Zero[p.enc]
  <2>1. e \in Videos => Zero[e] = 0
    BY DEF Zero
  <2>2. e \in Videos => p.pts = (p.n * Step[e]) - 0
    <3>1. p.pts \in Int
      BY <1>1 DEF Pkts
    <3>2. p.pts - 0 = p.pts
      BY <3>1
    <3>. QED  BY <1>1, <3>2
  <2>. QED  BY <1>1, <2>1, <2>2, Zenon
<1>5. /\ Queue(Insert(q, p), [nx EXCEPT ![p.enc] = @ + 1], Zero)
      /\ Insert(q, p) # <<>>
  <2>1. p.n = nx[p.enc]
    BY <1>1, Zenon
  <2>. QED  BY <1>1, <1>2, <1>4, <2>1, QueueInsert, Zenon
<1>6. WithTimes(times, p) \in Times /\ Matches(Insert(q, p), WithTimes(times, p))
  <2>1. p.n = nx[p.enc]
    BY <1>1, Zenon
  <2>. QED  BY <1>1, <1>2, <1>3, <1>4, <2>1, MatchesInsert, Zenon
<1>7. q \in Seq(Pkts)
  BY <1>2 DEF Queue
<1>8. InSystemTime(Insert(q, p))
  <2> DEFINE r == Insert(q, p)
  <2>1. \A i, j \in DOMAIN r : i < j => r[i].ts <= r[j].ts
    <3>1. \A i, j \in DOMAIN q : i < j => q[i].ts <= q[j].ts
      BY <1>2, Zenon DEF InSystemTime
    <3>. QED  BY <1>1, <1>7, <3>1, InsertSorted, Zenon
  <2>2. \A i \in DOMAIN r : r[i].ts = StartTs[r[i].enc] + (r[i].n * Step[r[i].enc])
    <3>1. PICK k : Put(r, q, p, k)
      BY <1>1, <1>7, InsertPuts, Zenon
    <3> HIDE DEF r
    <3>2. \A i \in DOMAIN r : r[i] = p \/ \E j \in DOMAIN q : r[i] = q[j]
      BY <3>1, Zenon DEF Put
    <3>3. ASSUME NEW x, x = p \/ \E j \in DOMAIN q : x = q[j]
          PROVE  x.ts = StartTs[x.enc] + (x.n * Step[x.enc])
      <4>1. CASE x = p
        BY <1>1, <4>1, Zenon
      <4>2. ASSUME NEW j \in DOMAIN q, x = q[j]
            PROVE  x.ts = StartTs[x.enc] + (x.n * Step[x.enc])
        BY <1>2, <4>2, Zenon DEF InSystemTime
      <4>. QED  BY <3>3, <4>1, <4>2
    <3>. QED  BY <3>2, <3>3, Zenon
  <2>. QED  BY <2>1, <2>2, Zenon DEF InSystemTime
<1>9. Rising(WithTimes(times, p))
  <2>1. CASE e \notin Videos
    BY <1>1, <1>2, <2>1, Zenon DEF WithTimes
  <2>2. CASE e \in Videos
    <3> DEFINE new == [times EXCEPT ![e] = Append(@, p.pts)]
    <3> DEFINE t == times[e]
    <3>1. WithTimes(times, p) = new
      BY <1>1, <2>2, Zenon DEF WithTimes
    <3>2. new[e] = Append(t, p.pts) /\ t \in Seq(Int) /\ p.pts \in Int
          /\ \A v \in Videos : v # e => new[v] = times[v]
      BY <1>1, <1>2, <2>2 DEF Times, Pkts
    <3>3. \A v \in Videos : RisingTimes(times[v])
      BY <1>2, Zenon DEF Rising
    <3>4. \A a \in DOMAIN t : t[a] < p.pts
      <4>1. \A i \in Waiting(q, p.enc) : q[i].pts < p.pts
        <5>1. p.n = nx[p.enc] /\ p.enc \in Videos
          BY <1>1, <2>2, Zenon
        <5>2. p.pts = (p.n * Step[p.enc]) - Zero[p.enc]
          BY <1>4, <5>1, Zenon
        <5>. QED  BY <1>1, <1>2, <1>3, <5>1, <5>2, WaitingEarlier, Zenon
      <4>2. Range(t) = {q[i].pts : i \in Waiting(q, e)}
        BY <1>2, <2>2, MatchesTracks, Zenon DEF MatchesFor
      <4>3. \A a \in DOMAIN t : t[a] \in {q[i].pts : i \in Waiting(q, e)}
        BY <4>2, Zenon DEF Range
      <4>. QED  BY <1>1, <4>1, <4>3, Zenon
    <3> HIDE DEF new, t
    <3>5. RisingTimes(Append(t, p.pts))
      <4> DEFINE u == Append(t, p.pts)
      <4>1. DOMAIN t = 1..Len(t) /\ Len(t) \in Nat /\ DOMAIN u = 1..Len(t) + 1
            /\ \A a \in 1..Len(t) + 1 : u[a] = IF a = Len(t) + 1 THEN p.pts ELSE t[a]
        BY <3>2
      <4>2. \A a, b \in DOMAIN t : a < b => t[a] < t[b]
        BY <2>2, <3>3, Zenon DEF RisingTimes, t
      <4> HIDE DEF u
      <4>3. \A a, b \in DOMAIN u : a < b => u[a] < u[b]
        BY <3>4, <4>1, <4>2
      <4>. QED  BY <4>3, Zenon DEF RisingTimes, u
    <3>6. \A v \in Videos : RisingTimes(new[v])
      BY <3>2, <3>3, <3>5, Zenon
    <3>. QED  BY <3>1, <3>6, Zenon DEF Rising
  <2>. QED  BY <2>1, <2>2
<1>. QED  BY <1>1, <1>5, <1>6, <1>8, <1>9, Zenon DEF Collecting

(* The first times of a track are those of its first packet. *)
LEMMA FirstTimes ==
    ASSUME NEW q, NEW times, NEW nx, Collecting(q, times, nx), q # <<>>,
           NEW v \in Videos, q[1].enc = v
    PROVE  1 \in DOMAIN times[v] /\ times[v][1] = q[1].pts
<1> DEFINE t == times[v]
<1>1. q \in Seq(Pkts) /\ t \in Seq(Int)
  BY DEF Collecting, Queue, Times
<1>2. 1 \in Waiting(q, v) /\ Len(q) \in Nat /\ DOMAIN q = 1..Len(q)
  BY <1>1 DEF Waiting
<1>3. {t[a] : a \in DOMAIN t} = {q[i].pts : i \in Waiting(q, v)}
  <2>1. MatchesFor(q, v, t)
    BY MatchesTracks, Zenon DEF Collecting
  <2>. QED  BY <2>1, Zenon DEF MatchesFor, Range
<1>4. \A i \in Waiting(q, v) : q[1].pts <= q[i].pts
  <2> SUFFICES ASSUME NEW i \in Waiting(q, v) PROVE q[1].pts <= q[i].pts
    OBVIOUS
  <2>1. i \in DOMAIN q /\ q[i].enc = v /\ 1 \in DOMAIN q /\ (1 < i \/ i = 1)
    BY <1>2 DEF Waiting
  <2>2. q[1].ts <= q[i].ts \/ i = 1
    BY <2>1, Zenon DEF Collecting, InSystemTime
  <2>3. /\ q[1].ts = StartTs[v] + (q[1].n * Step[v])
        /\ q[i].ts = StartTs[v] + (q[i].n * Step[v])
    BY <2>1, Zenon DEF Collecting, InSystemTime
  <2>4. /\ q[1].pts = (q[1].n * Step[v]) - Zero[v]
        /\ q[i].pts = (q[i].n * Step[v]) - Zero[v]
    BY <2>1, Zenon DEF Collecting, Queue
  <2>5. /\ StartTs[v] \in Int /\ q[1].n * Step[v] \in Int /\ q[i].n * Step[v] \in Int
        /\ Zero[v] = 0
    <3>1. StartTs[v] \in Int /\ Step[v] \in Int
      BY StepAssumption, TimeAssumption DEF Encoders
    <3>2. q[1] \in Pkts /\ q[i] \in Pkts
      BY <1>1, <2>1
    <3>3. q[1].n \in Int /\ q[i].n \in Int
      BY <3>2 DEF Pkts
    <3>. QED  BY <3>1, <3>3 DEF Zero
  <2>6. PICK a \in Int, b \in Int : a = q[1].n * Step[v] /\ b = q[i].n * Step[v]
    BY <2>5
  <2>7. q[1].pts = a - 0 /\ q[i].pts = b - 0 /\ q[1].ts = StartTs[v] + a /\ q[i].ts = StartTs[v] + b
    BY <2>3, <2>4, <2>5, <2>6, Zenon
  <2>. QED  BY <2>2, <2>5, <2>7
<1>5. \A a, b \in DOMAIN t : a < b => t[a] < t[b]
  BY Zenon DEF Collecting, Rising, RisingTimes
<1>6. PICK k \in DOMAIN t : t[k] = q[1].pts
  BY <1>2, <1>3, Zenon
<1>7. 1 \in DOMAIN t /\ k \in Nat \ {0} /\ t[1] \in Int /\ t[k] \in Int
  BY <1>1
<1>8. q[1].pts <= t[1]
  BY <1>3, <1>4, <1>7, Zenon
<1>9. ~(1 < k)
  BY <1>5, <1>6, <1>7, <1>8
<1>. QED  BY <1>6, <1>7, <1>9

\* The times when the first packet of the queue has been thrown away.
Popped(q, times) ==
    IF q[1].enc \in Videos THEN [times EXCEPT ![q[1].enc] = SubSeq(@, 2, Len(@))] ELSE times

(* One packet goes, and with it the first times of its track.              *)
LEMMA DropOne ==
    ASSUME NEW q, NEW times, NEW nx, Collecting(q, times, nx), q # <<>>
    PROVE  Collecting(SubSeq(q, 2, Len(q)), Popped(q, times), nx)
<1> DEFINE r == SubSeq(q, 2, Len(q))
<1> DEFINE v == q[1].enc
<1>1. q \in Seq(Pkts) /\ times \in Times
  BY DEF Collecting, Queue
<1>2. Rest(r, q)
  BY <1>1, RestIs, Zenon
<1> HIDE DEF r
<1>3. Queue(r, nx, Zero)
  BY <1>2, QueueRest, Zenon DEF Collecting
<1>4. InSystemTime(r)
  <2>1. Len(q) \in Nat /\ DOMAIN q = 1..Len(q) /\ DOMAIN r = 1..Len(q) - 1
        /\ \A i \in 1..Len(q) - 1 : r[i] = q[i + 1]
    BY <1>1, <1>2 DEF Rest
  <2>2. \A i \in DOMAIN r : i + 1 \in DOMAIN q /\ r[i] = q[i + 1]
    BY <2>1
  <2>3. \A i, j \in DOMAIN r : i < j => i + 1 < j + 1
    BY <2>1
  <2>4. \A i, j \in DOMAIN r : i < j => r[i].ts <= r[j].ts
    BY <2>2, <2>3, Zenon DEF Collecting, InSystemTime
  <2>5. \A i \in DOMAIN r : r[i].ts = StartTs[r[i].enc] + (r[i].n * Step[r[i].enc])
    BY <2>2, Zenon DEF Collecting, InSystemTime
  <2>. QED  BY <2>4, <2>5, Zenon DEF InSystemTime
<1>5. \A w \in Videos : MatchesFor(q, w, times[w]) /\ RisingTimes(times[w])
                        /\ times[w] \in Seq(Int)
  BY <1>1, MatchesTracks DEF Collecting, Rising, Times
<1>6. CASE v \notin Videos
  <2>1. Popped(q, times) = times
    BY <1>6, Zenon DEF Popped
  <2>2. \A w \in Videos : MatchesFor(r, w, times[w])
    BY <1>1, <1>2, <1>5, <1>6, RestOther, Zenon
  <2>3. Matches(r, times)
    BY <2>2, MatchesTracks, Zenon
  <2>. QED  BY <1>3, <1>4, <2>1, <2>3, Zenon DEF Collecting, r
<1>7. CASE v \in Videos
  <2> DEFINE u == SubSeq(times[v], 2, Len(times[v]))
  <2> DEFINE new == [times EXCEPT ![v] = u]
  <2>1. Popped(q, times) = new
    BY <1>7, Zenon DEF Popped
  <2>2. 1 \in DOMAIN times[v] /\ times[v][1] = q[1].pts
    BY <1>7, FirstTimes, Zenon
  <2>3. Without1(u, times[v], 1)
    BY <1>5, <1>7, <2>2, WithoutFirst, Zenon
  <2> HIDE DEF u
  <2>4. new \in Times /\ new[v] = u /\ \A w \in Videos : w # v => new[w] = times[w]
    BY <1>1, <1>7, <2>3 DEF Times, Without1
  <2> HIDE DEF new
  <2>5. \A w \in Videos : MatchesFor(r, w, new[w])
    <3> SUFFICES ASSUME NEW w \in Videos PROVE MatchesFor(r, w, new[w])
      OBVIOUS
    <3>1. CASE w = v
      <4>1. MatchesFor(r, v, u)
        BY <1>1, <1>2, <1>5, <1>7, <2>2, <2>3, RestOwn, Zenon
      <4>. QED  BY <2>4, <3>1, <4>1, Zenon
    <3>2. CASE w # v
      <4>1. MatchesFor(r, w, times[w])
        BY <1>1, <1>2, <1>5, <3>2, RestOther, Zenon
      <4>. QED  BY <2>4, <3>2, <4>1, Zenon
    <3>. QED  BY <3>1, <3>2
  <2>6. RisingTimes(u)
    <3> DEFINE t == times[v]
    <3>1. t \in Seq(Int) /\ \A a, b \in DOMAIN t : a < b => t[a] < t[b]
      BY <1>5, <1>7, Zenon DEF RisingTimes
    <3>2. Len(t) \in Nat /\ DOMAIN t = 1..Len(t)
      BY <3>1
    <3>3. DOMAIN u = 1..Len(t) - 1 /\ \A a \in DOMAIN u : u[a] = t[a + 1]
      BY <2>3, <3>2 DEF Without1
    <3> HIDE DEF t
    <3>4. \A a, b \in DOMAIN u : a < b =>
              a + 1 \in DOMAIN t /\ b + 1 \in DOMAIN t /\ a + 1 < b + 1
      BY <3>2, <3>3
    <3>5. \A a, b \in DOMAIN u : a < b => u[a] < u[b]
      BY <3>1, <3>3, <3>4, Zenon
    <3>. QED  BY <3>5, Zenon DEF RisingTimes
  <2>7. \A w \in Videos : RisingTimes(new[w])
    BY <1>5, <2>4, <2>6, Zenon
  <2>. QED  BY <1>3, <1>4, <2>1, <2>4, <2>5, <2>7, MatchesTracks, Zenon DEF Collecting, Rising, r
<1>. QED  BY <1>6, <1>7

\* left holds the times at every step of the loop of discard_to_idx.
DiscardLoop(left, q, n, times) ==
    /\ left[0] = times
    /\ \A i \in 1..n :
          left[i] = IF IsVideo(q[i]) THEN [left[i - 1] EXCEPT ![q[i].enc] = SubSeq(@, 2, Len(@))]
                    ELSE left[i - 1]

LEMMA DiscardSteps ==
    ASSUME NEW q \in Seq(Pkts), NEW times \in Times, NEW n \in 0..Len(q)
    PROVE  \E left : DiscardLoop(left, q, n, times) /\ TimesLeft(q, n, times) = left[n]
<1> DEFINE pop(i, t) ==
        IF IsVideo(q[i]) THEN [t EXCEPT ![q[i].enc] = SubSeq(@, 2, Len(@))] ELSE t
<1> DEFINE X == Times
<1> DEFINE Eq(f) == f = [i \in 0..n |-> IF i = 0 THEN times ELSE pop(i, f[i - 1])]
<1> DEFINE left == CHOOSE f : Eq(f)
<1> DEFINE step == [i \in 1..n |-> [x \in X |-> pop(i, x)]]
<1>0. n \in Nat /\ times \in X
  OBVIOUS
<1>1. TimesLeft(q, n, times) = left[n]
  BY Zenon DEF TimesLeft
<1>2. ASSUME NEW i \in 1..n, NEW x \in X PROVE pop(i, x) \in X
  <2>1. CASE IsVideo(q[i])
    <3>1. q[i].enc \in Videos
      BY <2>1, Zenon DEF IsVideo
    <3>2. x[q[i].enc] \in Seq(Int)
      BY <3>1 DEF Times
    <3>3. SubSeq(x[q[i].enc], 2, Len(x[q[i].enc])) \in Seq(Int)
      BY <3>2
    <3>. QED  BY <2>1, <3>1, <3>3 DEF Times
  <2>2. CASE ~IsVideo(q[i])
    BY <2>2, Zenon
  <2>. QED  BY <2>1, <2>2
<1> HIDE DEF pop, X
<1>3. step \in [1..n -> [X -> X]] /\ \A i \in 1..n, x \in X : step[i][x] = pop(i, x)
  BY <1>2
<1> HIDE DEF step
<1>4. PICK f : Solves(f, n, X, times, step)
  BY <1>0, <1>3, RecursionHasSolution
<1>5. f \in [0..n -> X] /\ f[0] = times /\ \A i \in 1..n : f[i] = pop(i, f[i - 1])
  <2>1. f \in [0..n -> X] /\ f[0] = times /\ \A i \in 1..n : f[i] = step[i][f[i - 1]]
    BY <1>4, Zenon DEF Solves
  <2>2. \A i \in 1..n : f[i - 1] \in X
    BY <1>0, <2>1
  <2>. QED  BY <1>3, <2>1, <2>2, Zenon
<1>6. Eq(f)
  <2>1. \A i \in 0..n : f[i] = IF i = 0 THEN times ELSE pop(i, f[i - 1])
    <3>1. \A i \in 0..n : i # 0 => i \in 1..n
      BY <1>0
    <3>. QED  BY <1>5, <3>1, Zenon
  <2>2. f = [i \in 0..n |-> f[i]]
    BY <1>5
  <2>. QED  BY <2>1, <2>2
<1>7. Eq(left)
  <2> HIDE DEF Eq
  <2>. QED  BY <1>6, Zenon
<1> HIDE DEF left
<1>8. left[0] = times /\ \A i \in 1..n : left[i] = pop(i, left[i - 1])
  <2>1. 0 \in 0..n /\ \A i \in 1..n : i \in 0..n /\ i # 0
    BY <1>0
  <2>. QED  BY <1>7, <2>1
<1>9. DiscardLoop(left, q, n, times)
  BY <1>8, Zenon DEF DiscardLoop, pop
<1>. QED  BY <1>1, <1>9, Zenon

(* discard_to_idx: every packet that goes takes its own times along.       *)
LEMMA Drop ==
    ASSUME NEW q, NEW times, NEW nx, Collecting(q, times, nx), NEW n \in 0..Len(q)
    PROVE  Collecting(Discarded(q, n), TimesLeft(q, n, times), nx)
<1>1. q \in Seq(Pkts) /\ times \in Times
  BY DEF Collecting, Queue
<1>0. n \in Nat /\ Len(q) \in Nat /\ n <= Len(q)
  BY <1>1
<1>2. PICK left : DiscardLoop(left, q, n, times) /\ TimesLeft(q, n, times) = left[n]
  BY <1>1, DiscardSteps, Zenon
<1> DEFINE S == {i \in 0..n : Collecting(Discarded(q, i), left[i], nx)}
<1>3. 0 \in S
  <2>1. Discarded(q, 0) = q
    <3>1. SubSeq(q, 0 + 1, Len(q)) = q
      BY <1>1
    <3>. QED  BY <3>1, Zenon DEF Discarded
  <2>2. left[0] = times /\ 0 \in 0..n
    BY <1>0, <1>2 DEF DiscardLoop
  <2>. QED  BY <2>1, <2>2
<1>4. ASSUME NEW i \in 0..n - 1, i \in S PROVE i + 1 \in S
  <2> DEFINE d == Discarded(q, i)
  <2>0. i \in Nat /\ i + 1 \in 1..n /\ i + 1 \in 0..n /\ (i + 1) - 1 = i /\ i + 1 \in 1..Len(q) + 1
    BY <1>0
  <2>1. Collecting(d, left[i], nx)
    BY <1>4
  <2>2. /\ d \in Seq(Pkts) /\ Len(d) = (Len(q) - (i + 1)) + 1
        /\ \A j \in 1..(Len(q) - (i + 1)) + 1 : d[j] = q[(j + (i + 1)) - 1]
    BY <1>1, <2>0, SuffixIs, Zenon DEF Discarded
  <2> HIDE DEF d
  <2>3. d # <<>> /\ d[1] = q[i + 1]
    <3>1. 1 \in 1..(Len(q) - (i + 1)) + 1 /\ (1 + (i + 1)) - 1 = i + 1
      BY <1>0
    <3>2. d[1] = q[i + 1]
      BY <2>2, <3>1, Zenon
    <3>3. Len(d) # 0
      BY <1>0, <2>2
    <3>. QED  BY <3>2, <3>3
  <2>4. Collecting(SubSeq(d, 2, Len(d)), Popped(d, left[i]), nx)
    BY <2>1, <2>3, DropOne, Zenon
  <2>5. SubSeq(d, 2, Len(d)) = Discarded(q, i + 1)
    <3> DEFINE a == SubSeq(d, 2, Len(d))
    <3> DEFINE b == SubSeq(q, (i + 1) + 1, Len(q))
    <3>1. 2 \in 1..Len(d) + 1 /\ (i + 1) + 1 \in 1..Len(q) + 1
      BY <1>0, <2>2
    <3>2. /\ a \in Seq(Pkts) /\ Len(a) = (Len(d) - 2) + 1
          /\ \A j \in 1..(Len(d) - 2) + 1 : a[j] = d[(j + 2) - 1]
      BY <2>2, <3>1, SuffixIs, Zenon
    <3>3. /\ b \in Seq(Pkts) /\ Len(b) = (Len(q) - ((i + 1) + 1)) + 1
          /\ \A j \in 1..(Len(q) - ((i + 1) + 1)) + 1 : b[j] = q[(j + ((i + 1) + 1)) - 1]
      BY <1>1, <3>1, SuffixIs, Zenon
    <3>4. Discarded(q, i + 1) = b
      BY Zenon DEF Discarded
    <3> HIDE DEF a, b
    <3> DEFINE m == Len(q) - (i + 1)
    <3>5. Len(a) = m /\ Len(b) = m /\ m \in Nat
      BY <1>0, <2>2, <3>2, <3>3
    <3>6. ASSUME NEW j \in 1..m PROVE a[j] = b[j]
      <4>1. j \in 1..(Len(d) - 2) + 1 /\ j \in 1..(Len(q) - ((i + 1) + 1)) + 1
        BY <1>0, <2>2
      <4>2. a[j] = d[(j + 2) - 1] /\ b[j] = q[(j + ((i + 1) + 1)) - 1]
        BY <3>2, <3>3, <4>1, Zenon
      <4>3. PICK l : l = (j + 2) - 1
        OBVIOUS
      <4>4. l \in 1..(Len(q) - (i + 1)) + 1 /\ (l + (i + 1)) - 1 = (j + ((i + 1) + 1)) - 1
        BY <1>0, <4>3
      <4>5. d[l] = q[(l + (i + 1)) - 1]
        BY <2>2, <4>4, Zenon
      <4>. QED  BY <4>2, <4>3, <4>4, <4>5, Zenon
    <3>7. DOMAIN a = 1..m /\ DOMAIN b = 1..m
      BY <3>2, <3>3, <3>5
    <3>8. a = [j \in 1..m |-> a[j]] /\ b = [j \in 1..m |-> b[j]]
      BY <3>2, <3>3, <3>7
    <3>9. a = b
      BY <3>6, <3>8
    <3>. QED  BY <3>4, <3>9, Zenon DEF a
  <2>6. Popped(d, left[i]) = left[i + 1]
    <3>1. left[i + 1] = IF IsVideo(q[i + 1])
                        THEN [left[(i + 1) - 1] EXCEPT ![q[i + 1].enc] = SubSeq(@, 2, Len(@))]
                        ELSE left[(i + 1) - 1]
      BY <1>2, <2>0, Zenon DEF DiscardLoop
    <3>. QED  BY <2>0, <2>3, <3>1, Zenon DEF Popped, IsVideo
  <2>. QED  BY <2>0, <2>4, <2>5, <2>6
<1>5. n \in S
  <2> HIDE DEF S
  <2>1. 0..n \subseteq S
    BY <1>0, <1>3, <1>4, UpToInduction
  <2>. QED  BY <1>0, <2>1
<1>. QED  BY <1>2, <1>5

-----------------------------------------------------------------------------
(* The queue is sorted again *)

\* r has the packets of the first m of q, each once.
SamePackets(r, q, m) ==
    /\ r \in Seq(Pkts)
    /\ \A j \in DOMAIN r : \E k \in 1..m : r[j] = q[k]
    /\ \A k \in 1..m : \E j \in DOMAIN r : r[j] = q[k]
    /\ \A i, j \in DOMAIN r : r[i] = r[j] => i = j

LEMMA SamePacketsInsert ==
    ASSUME NEW q \in Seq(Pkts), \A i, j \in DOMAIN q : q[i] = q[j] => i = j,
           NEW m \in 0..Len(q) - 1, NEW r, SamePackets(r, q, m)
    PROVE  SamePackets(Insert(r, q[m + 1]), q, m + 1)
<1> DEFINE p == q[m + 1]
<1> DEFINE w == Insert(r, p)
<1>0. Len(q) \in Nat /\ DOMAIN q = 1..Len(q) /\ m + 1 \in DOMAIN q
      /\ 1..m \subseteq DOMAIN q /\ 1..m + 1 = 1..m \cup {m + 1} /\ m + 1 \notin 1..m
  OBVIOUS
<1>1. p \in Pkts /\ r \in Seq(Pkts)
  BY <1>0 DEF SamePackets
<1>2. PICK k : Put(w, r, p, k)
  BY <1>1, InsertPuts, Zenon
<1> HIDE DEF w
<1>3. /\ w \in Seq(Pkts) /\ k \in DOMAIN w /\ w[k] = p
      /\ \A i \in DOMAIN w \ {k} : Old(i, k) \in DOMAIN r /\ w[i] = r[Old(i, k)]
      /\ \A i, j \in DOMAIN w \ {k} : Old(i, k) = Old(j, k) => i = j
      /\ \A j \in DOMAIN r : \E i \in DOMAIN w \ {k} : w[i] = r[j]
  BY <1>2, Zenon DEF Put
<1>4. /\ \A j \in DOMAIN r : \E l \in 1..m : r[j] = q[l]
      /\ \A l \in 1..m : \E j \in DOMAIN r : r[j] = q[l]
      /\ \A i, j \in DOMAIN r : r[i] = r[j] => i = j
  BY Zenon DEF SamePackets
<1>5. \A j \in DOMAIN r : r[j] # p
  <2> SUFFICES ASSUME NEW j \in DOMAIN r, r[j] = p PROVE FALSE
    OBVIOUS
  <2>1. PICK l \in 1..m : r[j] = q[l]
    BY <1>4, Zenon
  <2>2. l = m + 1
    BY <1>0, <2>1, Zenon
  <2>. QED  BY <1>0, <2>2, Zenon
<1> HIDE DEF p
<1>6. \A i \in DOMAIN w : \E l \in 1..m + 1 : w[i] = q[l]
  <2> SUFFICES ASSUME NEW i \in DOMAIN w PROVE \E l \in 1..m + 1 : w[i] = q[l]
    OBVIOUS
  <2>1. CASE i = k
    BY <1>0, <1>3, <2>1, Zenon DEF p
  <2>2. CASE i # k
    <3>1. PICK j \in DOMAIN r : w[i] = r[j]
      BY <1>3, <2>2, Zenon
    <3>2. PICK l \in 1..m : r[j] = q[l]
      BY <1>4, Zenon
    <3>. QED  BY <1>0, <3>1, <3>2, Zenon
  <2>. QED  BY <2>1, <2>2
<1>7. \A l \in 1..m + 1 : \E i \in DOMAIN w : w[i] = q[l]
  <2> SUFFICES ASSUME NEW l \in 1..m + 1 PROVE \E i \in DOMAIN w : w[i] = q[l]
    OBVIOUS
  <2>1. CASE l = m + 1
    BY <1>3, <2>1, Zenon DEF p
  <2>2. CASE l \in 1..m
    <3>1. PICK j \in DOMAIN r : r[j] = q[l]
      BY <1>4, <2>2, Zenon
    <3>2. PICK i \in DOMAIN w \ {k} : w[i] = r[j]
      BY <1>3, Zenon
    <3>. QED  BY <3>1, <3>2, Zenon
  <2>. QED  BY <1>0, <2>1, <2>2, Zenon
<1>8. ASSUME NEW i \in DOMAIN w, NEW j \in DOMAIN w, w[i] = w[j] PROVE i = j
  <2>1. CASE i = k \/ j = k
    <3>1. \A x \in DOMAIN w : x # k => w[x] # p
      BY <1>3, <1>5, Zenon
    <3>. QED  BY <1>3, <1>8, <2>1, <3>1, Zenon
  <2>2. CASE i # k /\ j # k
    <3>1. /\ Old(i, k) \in DOMAIN r /\ w[i] = r[Old(i, k)]
          /\ Old(j, k) \in DOMAIN r /\ w[j] = r[Old(j, k)]
      BY <1>3, <2>2, Zenon
    <3>2. Old(i, k) = Old(j, k)
      BY <1>4, <1>8, <3>1, Zenon
    <3>. QED  BY <1>3, <2>2, <3>2, Zenon
  <2>. QED  BY <2>1, <2>2
<1>. QED  BY <1>3, <1>6, <1>7, <1>8, Zenon DEF SamePackets, w, p

(* resort_interleaved_packets keeps every packet.                          *)
LEMMA ResortedKeeps ==
    ASSUME NEW q \in Seq(Pkts), \A i, j \in DOMAIN q : q[i] = q[j] => i = j
    PROVE  SamePackets(Resorted(q), q, Len(q))
<1> DEFINE n == Len(q)
<1> DEFINE X == Seq(Pkts)
<1> DEFINE in(i, x) == Insert(x, q[i])
<1> DEFINE Eq(f) == f = [i \in 0..n |-> IF i = 0 THEN <<>> ELSE in(i, f[i - 1])]
<1> DEFINE new == CHOOSE f : Eq(f)
<1> DEFINE step == [i \in 1..n |-> [x \in X |-> in(i, x)]]
<1>0. n \in Nat /\ <<>> \in X /\ \A i \in 1..n : q[i] \in Pkts
  OBVIOUS
<1>1. Resorted(q) = new[n]
  BY Zenon DEF Resorted
<1>2. ASSUME NEW i \in 1..n, NEW x \in X PROVE in(i, x) \in X
  <2>1. PICK k : Put(Insert(x, q[i]), x, q[i], k)
    BY <1>0, <1>2, InsertPuts, Zenon
  <2>. QED  BY <2>1, Zenon DEF Put
<1> HIDE DEF in, X
<1>3. step \in [1..n -> [X -> X]] /\ \A i \in 1..n, x \in X : step[i][x] = in(i, x)
  BY <1>2
<1> HIDE DEF step, n
<1>4. PICK f : Solves(f, n, X, <<>>, step)
  BY <1>0, <1>3, RecursionHasSolution
<1>5. f \in [0..n -> X] /\ f[0] = <<>> /\ \A i \in 1..n : f[i] = in(i, f[i - 1])
  <2>1. f \in [0..n -> X] /\ f[0] = <<>> /\ \A i \in 1..n : f[i] = step[i][f[i - 1]]
    BY <1>4, Zenon DEF Solves
  <2>2. \A i \in 1..n : f[i - 1] \in X
    BY <1>0, <2>1
  <2>. QED  BY <1>3, <2>1, <2>2, Zenon
<1>6. Eq(f)
  <2>1. \A i \in 0..n : f[i] = IF i = 0 THEN <<>> ELSE in(i, f[i - 1])
    <3>1. \A i \in 0..n : i # 0 => i \in 1..n
      BY <1>0
    <3>. QED  BY <1>5, <3>1, Zenon
  <2>2. f = [i \in 0..n |-> f[i]]
    BY <1>5
  <2>. QED  BY <2>1, <2>2
<1>7. Eq(new)
  <2> HIDE DEF Eq
  <2>. QED  BY <1>6, Zenon
<1> HIDE DEF new
<1>8. new[0] = <<>> /\ \A i \in 1..n : new[i] = in(i, new[i - 1])
  <2>1. 0 \in 0..n /\ \A i \in 1..n : i \in 0..n /\ i # 0
    BY <1>0
  <2>. QED  BY <1>7, <2>1
<1> DEFINE S == {i \in 0..n : SamePackets(new[i], q, i)}
<1>9. 0 \in S
  <2>1. SamePackets(<<>>, q, 0)
    BY DEF SamePackets
  <2>. QED  BY <1>0, <1>8, <2>1
<1>10. ASSUME NEW i \in 0..n - 1, i \in S PROVE i + 1 \in S
  <2>1. i + 1 \in 1..n /\ i + 1 \in 0..n /\ (i + 1) - 1 = i
    BY <1>0
  <2>2. SamePackets(Insert(new[i], q[i + 1]), q, i + 1)
    BY <1>10, SamePacketsInsert, Zenon DEF n
  <2>3. new[i + 1] = Insert(new[i], q[i + 1])
    BY <1>8, <2>1, Zenon DEF in
  <2>. QED  BY <2>1, <2>2, <2>3
<1>11. n \in S
  <2> HIDE DEF S
  <2>1. 0..n \subseteq S
    BY <1>0, <1>9, <1>10, UpToInduction
  <2>. QED  BY <1>0, <2>1
<1>. QED  BY <1>1, <1>11, Zenon DEF n

(* The sorted queue is one of the same packets.                            *)
LEMMA ResortedQueue ==
    ASSUME NEW q, NEW nx, NEW voff, Queue(q, nx, voff)
    PROVE  /\ Queue(Resorted(q), nx, voff)
           /\ q # <<>> => Resorted(q) # <<>>
           /\ \A v, t : MatchesFor(q, v, t) => MatchesFor(Resorted(q), v, t)
<1> DEFINE r == Resorted(q)
<1>0. q \in Seq(Pkts) /\ DOMAIN q = 1..Len(q) /\ Len(q) \in Nat
  BY DEF Queue
<1>1. \A i, j \in DOMAIN q : q[i] = q[j] => i = j
  BY Zenon DEF Queue
<1>2. SamePackets(r, q, Len(q))
  BY <1>0, <1>1, ResortedKeeps, Zenon
<1> HIDE DEF r
<1>3. /\ r \in Seq(Pkts)
      /\ \A j \in DOMAIN r : \E k \in DOMAIN q : r[j] = q[k]
      /\ \A k \in DOMAIN q : \E j \in DOMAIN r : r[j] = q[k]
      /\ \A i, j \in DOMAIN r : r[i] = r[j] => i = j
  BY <1>0, <1>2, Zenon DEF SamePackets
<1>4. Queue(r, nx, voff)
  <2>1. ASSUME NEW i \in DOMAIN r
        PROVE  /\ r[i].n < nx[r[i].enc]
               /\ r[i].enc \in Videos => r[i].pts = (r[i].n * Step[r[i].enc]) - voff[r[i].enc]
    <3>1. PICK k \in DOMAIN q : r[i] = q[k]
      BY <1>3, Zenon
    <3>2. PICK x : x = q[k]
      OBVIOUS
    <3>3. x.n < nx[x.enc] /\ (x.enc \in Videos => x.pts = (x.n * Step[x.enc]) - voff[x.enc])
      BY <3>2, Zenon DEF Queue
    <3>. QED  BY <3>1, <3>2, <3>3, Zenon
  <2>2. ASSUME NEW i \in DOMAIN r, NEW j \in DOMAIN r, r[i].enc = r[j].enc, r[i].n = r[j].n
        PROVE  i = j
    <3>0. PICK k \in DOMAIN q : r[i] = q[k]
      BY <1>3, Zenon
    <3>1. PICK l \in DOMAIN q : r[i] = q[k] /\ r[j] = q[l]
      BY <1>3, <3>0, Zenon
    <3>2. q[k].enc = q[l].enc /\ q[k].n = q[l].n
      BY <2>2, <3>1, Zenon
    <3>3. k = l
      BY <3>2, Zenon DEF Queue
    <3>. QED  BY <1>3, <3>1, <3>3, Zenon
  <2>. QED  BY <1>3, <2>1, <2>2, Zenon DEF Queue
<1>5. q # <<>> => r # <<>>
  <2>1. q # <<>> => 1 \in DOMAIN q
    BY <1>0
  <2>2. q # <<>> => \E j : j \in DOMAIN r
    BY <1>3, <2>1, Zenon
  <2>3. r = <<>> => DOMAIN r = {}
    OBVIOUS
  <2>. QED  BY <2>2, <2>3
<1>6. ASSUME NEW v, NEW t, MatchesFor(q, v, t) PROVE MatchesFor(r, v, t)
  <2>1. \A i \in Waiting(r, v) : i \in DOMAIN r /\ \E k \in Waiting(q, v) : r[i] = q[k]
    BY <1>3, Zenon DEF Waiting
  <2>2. \A k \in Waiting(q, v) : \E i \in Waiting(r, v) : r[i] = q[k]
    BY <1>3, Zenon DEF Waiting
  <2>3. ASSUME NEW i \in Waiting(r, v), NEW j \in Waiting(r, v), r[i].pts = r[j].pts
        PROVE  i = j
    <3>0. PICK k \in Waiting(q, v) : r[i] = q[k]
      BY <2>1, Zenon
    <3>1. PICK l \in Waiting(q, v) : r[i] = q[k] /\ r[j] = q[l]
      BY <2>1, <3>0, Zenon
    <3>2. q[k].pts = q[l].pts
      BY <2>3, <3>1, Zenon
    <3>3. k = l
      BY <1>6, <3>2, Zenon DEF MatchesFor
    <3>. QED  BY <1>3, <2>1, <3>1, <3>3, Zenon
  <2>4. {r[i].pts : i \in Waiting(r, v)} = {q[i].pts : i \in Waiting(q, v)}
    <3>1. \A i \in Waiting(r, v) : r[i].pts \in {q[j].pts : j \in Waiting(q, v)}
      BY <2>1, Zenon
    <3>2. \A j \in Waiting(q, v) : q[j].pts \in {r[i].pts : i \in Waiting(r, v)}
      BY <2>2, Zenon
    <3>. QED  BY <3>1, <3>2, Zenon
  <2>. QED  BY <1>6, <2>3, <2>4, Zenon DEF MatchesFor
<1>. QED  BY <1>4, <1>5, <1>6, Zenon DEF r

-----------------------------------------------------------------------------
(* The timestamps start over, and packets are sent *)

LEMMA ShiftedIs ==
    ASSUME NEW p \in Pkts, NEW aoff \in [Audios -> Int], NEW voff \in [Videos -> Int]
    PROVE  /\ Shifted(p, aoff, voff) \in Pkts
           /\ Shifted(p, aoff, voff).enc = p.enc /\ Shifted(p, aoff, voff).n = p.n
           /\ p.enc \in Videos => Shifted(p, aoff, voff).pts = p.pts - voff[p.enc]
<1> DEFINE off == IF p.enc \in Videos THEN voff[p.enc] ELSE aoff[p.enc]
<1>1. Shifted(p, aoff, voff) = [p EXCEPT !.dts = @ - off, !.pts = @ - off, !.ts = p.dts - off]
  BY Zenon DEF Shifted, IsVideo
<1>2. p.enc \in Videos \/ p.enc \in Audios
  BY DEF Pkts, Encoders
<1>3. off \in Int
  BY <1>2
<1>4. p.enc \in Videos => off = voff[p.enc]
  BY Zenon
<1> HIDE DEF off
<1> DEFINE x == [p EXCEPT !.dts = @ - off, !.pts = @ - off, !.ts = p.dts - off]
<1>5. p.pts \in Int /\ p.dts \in Int
  BY DEF Pkts
<1>6. p.pts - off \in Int /\ p.dts - off \in Int
  BY <1>3, <1>5
<1>7. x \in Pkts
  BY <1>6 DEF Pkts
<1>8. x.enc = p.enc /\ x.n = p.n /\ x.pts = p.pts - off
  BY DEF Pkts
<1> HIDE DEF x
<1>. QED  BY <1>1, <1>4, <1>7, <1>8, Zenon DEF x

(* apply_interleaved_packet_offset takes one offset off a whole track.     *)
LEMMA ShiftedQueue ==
    ASSUME NEW q, NEW nx, Queue(q, nx, Zero), NEW aoff \in [Audios -> Int],
           NEW voff \in [Videos -> Int],
           NEW r, r = [i \in DOMAIN q |-> Shifted(q[i], aoff, voff)]
    PROVE  /\ Queue(r, nx, voff) /\ (q # <<>> => r # <<>>)
           /\ \A v \in Videos : \A t : MatchesFor(q, v, t) =>
                 MatchesFor(r, v, [k \in DOMAIN t |-> t[k] - voff[v]])
<1>0. q \in Seq(Pkts) /\ DOMAIN q = 1..Len(q) /\ Len(q) \in Nat
  BY DEF Queue
<1>1. \A i \in DOMAIN q : q[i] \in Pkts
  BY <1>0
<1>2. \A i \in DOMAIN q :
          /\ r[i] \in Pkts /\ r[i].enc = q[i].enc /\ r[i].n = q[i].n
          /\ q[i].enc \in Videos => r[i].pts = q[i].pts - voff[q[i].enc]
  <2>1. \A i \in DOMAIN q : r[i] = Shifted(q[i], aoff, voff)
    OBVIOUS
  <2>. QED  BY <1>1, <2>1, ShiftedIs, ZenonT(30)
<1>3. r \in Seq(Pkts) /\ DOMAIN r = DOMAIN q
  <2>1. DOMAIN r = DOMAIN q
    OBVIOUS
  <2>2. r = [i \in 1..Len(q) |-> r[i]]
    BY <1>0
  <2>. QED  BY <1>0, <1>2, <2>1, <2>2
<1>4. q # <<>> => r # <<>>
  <2>1. q # <<>> => 1 \in DOMAIN r
    BY <1>0, <1>3
  <2>2. DOMAIN <<>> = {}
    OBVIOUS
  <2>. QED  BY <2>1, <2>2
<1>5. Queue(r, nx, voff)
  <2>1. ASSUME NEW i \in DOMAIN r
        PROVE  /\ r[i].n < nx[r[i].enc]
               /\ r[i].enc \in Videos => r[i].pts = (r[i].n * Step[r[i].enc]) - voff[r[i].enc]
    <3> DEFINE e == q[i].enc
    <3>1. q[i].n < nx[e] /\ (e \in Videos => q[i].pts = (q[i].n * Step[e]) - Zero[e])
      BY <1>3, Zenon DEF Queue
    <3>2. e \in Videos => q[i].pts \in Int /\ Zero[e] = 0 /\ q[i].n * Step[e] \in Int
      <4>1. q[i] \in Pkts
        BY <1>1, <1>3
      <4>2. q[i].pts \in Int /\ q[i].n \in Int /\ e \in Encoders
        BY <4>1 DEF Pkts
      <4>3. Step[e] \in Int
        BY <4>2, StepAssumption
      <4>. QED  BY <4>2, <4>3 DEF Zero
    <3>3. e \in Videos => q[i].pts = q[i].n * Step[e]
      BY <3>1, <3>2
    <3>4. r[i].enc = e /\ r[i].n = q[i].n /\ (e \in Videos => r[i].pts = q[i].pts - voff[e])
      BY <1>2, <1>3, Zenon
    <3> HIDE DEF e
    <3>. QED  BY <3>1, <3>3, <3>4, Zenon
  <2>2. ASSUME NEW i \in DOMAIN r, NEW j \in DOMAIN r, r[i].enc = r[j].enc, r[i].n = r[j].n
        PROVE  i = j
    <3>1. q[i].enc = q[j].enc /\ q[i].n = q[j].n
      BY <1>2, <1>3, <2>2, Zenon
    <3>. QED  BY <1>3, <3>1, Zenon DEF Queue
  <2>. QED  BY <1>3, <2>1, <2>2, Zenon DEF Queue
<1>6. ASSUME NEW v \in Videos, NEW t, MatchesFor(q, v, t)
      PROVE  MatchesFor(r, v, [k \in DOMAIN t |-> t[k] - voff[v]])
  <2> DEFINE o == voff[v]
  <2> DEFINE u == [k \in DOMAIN t |-> t[k] - o]
  <2>1. Waiting(r, v) = Waiting(q, v)
    BY <1>2, <1>3 DEF Waiting
  <2>2. \A i \in Waiting(q, v) : i \in DOMAIN q /\ q[i].enc = v /\ q[i] \in Pkts
    BY <1>1 DEF Waiting
  <2>3. \A i \in Waiting(q, v) : r[i].pts = q[i].pts - o
    BY <1>2, <2>2, Zenon
  <2>4. o \in Int /\ \A i \in Waiting(q, v) : q[i].pts \in Int
    BY <2>2 DEF Pkts
  <2>5. /\ \A a, b \in DOMAIN t : t[a] = t[b] => a = b
        /\ {t[a] : a \in DOMAIN t} = {q[i].pts : i \in Waiting(q, v)}
    BY <1>6, Zenon DEF MatchesFor, IsInjective, Range
  <2>6. \A a \in DOMAIN t : t[a] \in Int
    <3>1. \A a \in DOMAIN t : t[a] \in {q[i].pts : i \in Waiting(q, v)}
      BY <2>5, Zenon
    <3>. QED  BY <2>4, <3>1
  <2>7. DOMAIN u = DOMAIN t /\ \A a \in DOMAIN t : u[a] = t[a] - o
    OBVIOUS
  <2> HIDE DEF u, o
  <2>8. ASSUME NEW i \in Waiting(q, v), NEW j \in Waiting(q, v), r[i].pts = r[j].pts
        PROVE  i = j
    <3>1. q[i].pts - o = q[j].pts - o
      BY <2>3, <2>8, Zenon
    <3>2. q[i].pts = q[j].pts
      BY <2>4, <3>1
    <3>. QED  BY <1>6, <3>2, Zenon DEF MatchesFor
  <2>9. ASSUME NEW a \in DOMAIN t, NEW b \in DOMAIN t, u[a] = u[b] PROVE a = b
    <3>1. t[a] = t[b]
      BY <2>4, <2>6, <2>7, <2>9
    <3>. QED  BY <2>5, <3>1, Zenon
  <2>10. \A a \in DOMAIN t : \E i \in Waiting(q, v) : u[a] = r[i].pts
    <3>1. \A a \in DOMAIN t : \E i \in Waiting(q, v) : t[a] = q[i].pts
      BY <2>5, Zenon
    <3>. QED  BY <2>3, <2>7, <3>1, Zenon
  <2>11. \A i \in Waiting(q, v) : \E a \in DOMAIN t : u[a] = r[i].pts
    <3>1. \A i \in Waiting(q, v) : \E a \in DOMAIN t : t[a] = q[i].pts
      BY <2>5, Zenon
    <3>. QED  BY <2>3, <2>7, <3>1, Zenon
  <2>12. {u[a] : a \in DOMAIN u} = {r[i].pts : i \in Waiting(r, v)}
    <3>1. \A a \in DOMAIN u : u[a] \in {r[i].pts : i \in Waiting(r, v)}
      BY <2>1, <2>7, <2>10, Zenon
    <3>2. \A i \in Waiting(r, v) : r[i].pts \in {u[a] : a \in DOMAIN u}
      BY <2>1, <2>7, <2>11, Zenon
    <3>. QED  BY <3>1, <3>2, Zenon
  <2>13. MatchesFor(r, v, u)
    BY <2>1, <2>7, <2>8, <2>9, <2>12, Zenon DEF MatchesFor, IsInjective, Range
  <2>. QED  BY <2>13, Zenon DEF u, o
<1>. QED  BY <1>4, <1>5, <1>6

\* What was sent.
Sents == [enc : Encoders, n : Nat, ts : Int, key : BOOLEAN, timed : BOOLEAN]
Timed(s) == s \in Seq(Sents) /\ \A i \in DOMAIN s : s[i].timed

\* A queue from which packets go out.
Going(c, nx, voff) ==
    /\ Queue(c.q, nx, voff) /\ c.times \in Times /\ Matches(c.q, c.times) /\ Timed(c.sent)

(* send_interleaved finds the times of the packet and takes them along.    *)
LEMMA SentGoing ==
    ASSUME NEW c, NEW nx, NEW voff, Going(c, nx, voff), c.q # <<>>
    PROVE  Going(Sent(c), nx, voff) /\ Rest(Sent(c).q, c.q)
<1> DEFINE q == c.q
<1> DEFINE p == Head(q)
<1> DEFINE v == p.enc
<1> DEFINE t == c.times[v]
<1> DEFINE I == {i \in 1..Len(t) : t[i] = p.pts}
<1> DEFINE k == IF IsVideo(p) THEN SelectInSeq(t, LAMBDA x : x = p.pts) ELSE 0
<1> DEFINE new == [enc |-> v, n |-> p.n, ts |-> p.ts, key |-> p.key,
                   timed |-> IsVideo(p) => k # 0]
<1>0. /\ Queue(q, nx, voff) /\ q \in Seq(Pkts) /\ c.times \in Times /\ Matches(q, c.times)
      /\ Timed(c.sent)
  BY Zenon DEF Going, Queue
<1>1. /\ Sent(c).q = Tail(q)
      /\ Sent(c).times = IF k = 0 THEN c.times ELSE [c.times EXCEPT ![v] = RemoveAt(@, k)]
      /\ Sent(c).sent = Append(c.sent, new)
  <2>2. Sent(c) = [q |-> Tail(q),
                   times |-> IF k = 0 THEN c.times ELSE [c.times EXCEPT ![v] = RemoveAt(@, k)],
                   sent |-> Append(c.sent, new)]
    BY Zenon DEF Sent
  <2> HIDE DEF new, k
  <2>. QED  BY <2>2
<1>2. p = q[1] /\ p \in Pkts /\ 1 \in DOMAIN q
  BY <1>0
<1>3. Rest(Tail(q), q)
  BY <1>0, RestIs, Zenon
<1>4. Queue(Tail(q), nx, voff)
  BY <1>0, <1>3, QueueRest, Zenon
<1>5. \A w \in Videos : MatchesFor(q, w, c.times[w]) /\ c.times[w] \in Seq(Int)
  BY <1>0, MatchesTracks DEF Times
<1>6. v \in Videos => k \in DOMAIN t /\ t[k] = p.pts /\ k # 0
  <2> SUFFICES ASSUME v \in Videos PROVE k \in DOMAIN t /\ t[k] = p.pts /\ k # 0
    OBVIOUS
  <2>1. t \in Seq(Int) /\ MatchesFor(q, v, t)
    BY <1>5, Zenon
  <2>2. Len(t) \in Nat /\ DOMAIN t = 1..Len(t)
    BY <2>1
  <2>3. \E i \in DOMAIN t : t[i] = p.pts
    <3>1. 1 \in Waiting(q, v)
      BY <1>2, Zenon DEF Waiting
    <3>2. p.pts \in Range(t)
      BY <1>2, <2>1, <3>1, Zenon DEF MatchesFor
    <3>. QED  BY <3>2, Zenon DEF Range
  <2>4. I # {} /\ I \in SUBSET (1..Len(t))
    BY <2>2, <2>3
  <2>5. Ends(IF I # {} THEN Min(I) ELSE 0, Len(t), I)
    BY <2>2, <2>4, SearchEnds, Zenon
  <2>6. Ends(k, Len(t), I)
    BY <2>5, Zenon DEF SelectInSeq, IsVideo
  <2> HIDE DEF k
  <2>7. k \in I /\ k # 0
    BY <2>4, <2>6, Zenon DEF Ends
  <2>. QED  BY <2>2, <2>7
<1>7. v \notin Videos => k = 0
  BY Zenon DEF IsVideo
<1>8. Timed(Append(c.sent, new))
  <2>1. new.timed
    BY <1>6, Zenon DEF IsVideo
  <2>2. (IsVideo(p) => k # 0) = TRUE
    BY <1>6, Zenon DEF IsVideo
  <2>3. new \in Sents
    <3> HIDE DEF k
    <3>1. p.enc \in Encoders /\ p.n \in Nat /\ p.ts \in Int /\ p.key \in BOOLEAN
      BY <1>2 DEF Pkts
    <3>. QED  BY <2>2, <3>1, Zenon DEF Sents
  <2> HIDE DEF new
  <2>4. c.sent \in Seq(Sents) /\ \A i \in DOMAIN c.sent : c.sent[i].timed
    BY <1>0, Zenon DEF Timed
  <2> DEFINE s == Append(c.sent, new)
  <2>5. /\ s \in Seq(Sents) /\ DOMAIN s = 1..Len(c.sent) + 1
        /\ s[Len(c.sent) + 1] = new
        /\ \A i \in 1..Len(c.sent) : s[i] = c.sent[i]
        /\ DOMAIN c.sent = 1..Len(c.sent) /\ Len(c.sent) \in Nat
    BY <2>3, <2>4
  <2> HIDE DEF s
  <2>6. \A i \in DOMAIN s : i = Len(c.sent) + 1 \/ i \in DOMAIN c.sent
    BY <2>5
  <2>7. \A i \in DOMAIN s : s[i].timed
    BY <2>1, <2>4, <2>5, <2>6, Zenon
  <2>. QED  BY <2>5, <2>7, Zenon DEF Timed, s
<1> HIDE DEF k, new, t
<1>9. Sent(c).times \in Times /\ Matches(Tail(q), Sent(c).times)
  <2>1. CASE v \notin Videos
    <3>1. Sent(c).times = c.times
      BY <1>1, <1>7, <2>1, Zenon
    <3>2. \A w \in Videos : MatchesFor(Tail(q), w, c.times[w])
      BY <1>0, <1>2, <1>3, <1>5, <2>1, RestOther, Zenon
    <3>. QED  BY <1>0, <3>1, <3>2, MatchesTracks, Zenon
  <2>2. CASE v \in Videos
    <3> DEFINE u == RemoveAt(t, k)
    <3> DEFINE more == [c.times EXCEPT ![v] = u]
    <3>1. Sent(c).times = more
      BY <1>1, <1>6, <2>2, Zenon DEF t
    <3>2. t \in Seq(Int) /\ MatchesFor(q, v, t)
      BY <1>5, <2>2, Zenon DEF t
    <3>3. Without1(u, t, k)
      BY <1>6, <2>2, <3>2, Without1Is, Zenon
    <3> HIDE DEF u
    <3>4. u \in Seq(Int)
      BY <3>3, Zenon DEF Without1
    <3>5. more \in Times /\ more[v] = u /\ \A w \in Videos : w # v => more[w] = c.times[w]
      BY <1>0, <2>2, <3>4 DEF Times
    <3> HIDE DEF more
    <3>6. \A w \in Videos : MatchesFor(Tail(q), w, more[w])
      <4> SUFFICES ASSUME NEW w \in Videos PROVE MatchesFor(Tail(q), w, more[w])
        OBVIOUS
      <4>1. CASE w = v
        <5>1. q[1].enc = v /\ t[k] = q[1].pts /\ k \in DOMAIN t
          BY <1>2, <1>6, <2>2, Zenon
        <5>2. MatchesFor(Tail(q), v, u)
          BY <1>0, <1>3, <3>2, <3>3, <5>1, RestOwn, Zenon
        <5>. QED  BY <3>5, <4>1, <5>2, Zenon
      <4>2. CASE w # v
        <5>1. q[1].enc # w
          BY <1>2, <4>2, Zenon
        <5>2. MatchesFor(Tail(q), w, c.times[w])
          BY <1>0, <1>3, <1>5, <5>1, RestOther, Zenon
        <5>. QED  BY <3>5, <4>2, <5>2, Zenon
      <4>. QED  BY <4>1, <4>2
    <3>. QED  BY <3>1, <3>5, <3>6, MatchesTracks, Zenon
  <2>. QED  BY <2>1, <2>2
<1>. QED  BY <1>1, <1>3, <1>4, <1>8, <1>9, Zenon DEF Going

-----------------------------------------------------------------------------
(* Where the stream begins *)

LEMMA IdxIs ==
    ASSUME NEW q \in Seq(Pkts), NEW e
    PROVE  /\ FirstIdx(q, e) \in 0..Len(q)
           /\ Has(q, e) => First(q, e) \in Pkts /\ First(q, e).enc = e /\ FirstIdx(q, e) \in 1..Len(q)
<1> DEFINE I == {i \in 1..Len(q) : q[i].enc = e}
<1> DEFINE k == IF I # {} THEN Min(I) ELSE 0
<1>0. Len(q) \in Nat
  OBVIOUS
<1>1. FirstIdx(q, e) = k
  BY Zenon DEF FirstIdx, SelectInSeq
<1>2. I \in SUBSET (1..Len(q))
  OBVIOUS
<1>3. Ends(k, Len(q), I)
  BY <1>0, <1>2, SearchEnds, Zenon
<1> HIDE DEF k
<1>4. k \in 0..Len(q) /\ (k # 0 => k \in 1..Len(q) /\ q[k].enc = e)
  BY <1>3 DEF Ends
<1>5. k # 0 => q[k] \in Pkts
  BY <1>4
<1>. QED  BY <1>1, <1>4, <1>5, Zenon DEF Has, First

(* get_interleaved_start_idx finds a packet.                               *)
LEMMA StartIdxIn ==
    ASSUME NEW q \in Seq(Pkts), Has(q, Video(0)), \A a \in Audios : Has(q, a)
    PROVE  StartIdx(q) \in 1..Len(q) /\ StartIdx(q) <= FirstIdx(q, Video(0))
<1> DEFINE audios == {i \in DOMAIN q : ~IsVideo(q[i])}
<1> DEFINE off(i) == Distance(q[i].ts, First(q, Video(0)).ts)
<1> DEFINE near == {i \in audios : \A j \in audios : off(i) <= off(j)}
<1> DEFINE closest == Least(near)
<1> DEFINE two == {closest, FirstIdx(q, Video(0))}
<1> DEFINE idx == Least(two)
<1> DEFINE more == {idx} \cup {FirstIdx(q, a) : a \in {a \in Audios : Has(q, a)}}
<1>0. Len(q) \in Nat /\ DOMAIN q = 1..Len(q) /\ IsFiniteSet(1..Len(q)) /\ 1..Len(q) \in SUBSET Int
  BY FS_Interval
<1>1. \A S \in SUBSET (1..Len(q)) : S # {} =>
          Least(S) \in S /\ Least(S) \in 1..Len(q) /\ \A y \in S : Least(S) <= y
  <2> SUFFICES ASSUME NEW S \in SUBSET (1..Len(q)), S # {}
               PROVE  Least(S) \in S /\ \A y \in S : Least(S) <= y
    OBVIOUS
  <2>1. IsFiniteSet(S) /\ S \in SUBSET Int
    BY <1>0, FS_Subset
  <2>. QED  BY <2>1, LeastInSet
<1>2. near # {} /\ near \in SUBSET (1..Len(q))
  <2>1. audios \in SUBSET (1..Len(q))
    BY <1>0
  <2>2. audios # {}
    <3>1. PICK a \in Audios : Has(q, a)
      BY EncodersAreFinite
    <3>2. FirstIdx(q, a) \in 1..Len(q) /\ q[FirstIdx(q, a)].enc = a
      BY <3>1, IdxIs, Zenon DEF First
    <3>3. a \notin Videos
      BY EncodersAreFinite
    <3>4. FirstIdx(q, a) \in audios
      BY <1>0, <3>2, <3>3, Zenon DEF IsVideo
    <3>. QED  BY <3>4
  <2> DEFINE f == [i \in audios |-> off(i)]
  <2> DEFINE D == {f[i] : i \in audios}
  <2>3. IsFiniteSet(audios)
    BY <1>0, <2>1, FS_Subset, Zenon
  <2>4. IsFiniteSet(D)
    BY <2>3, ImageIsFinite, Zenon
  <2>5. \A i \in audios : f[i] = off(i) /\ off(i) \in Int
    <3>1. \A x \in Pkts : x.ts \in Int
      BY DEF Pkts
    <3>2. First(q, Video(0)) \in Pkts
      BY IdxIs, Zenon
    <3>3. \A i \in audios : q[i] \in Pkts
      BY <1>0
    <3>4. \A x, y \in Int : Distance(x, y) \in Int
      BY DEF Distance
    <3>5. \A i \in audios : off(i) \in Int
      BY <3>1, <3>2, <3>3, <3>4, Zenon
    <3> HIDE DEF off
    <3>. QED  BY <3>5
  <2> HIDE DEF f, off, audios
  <2>6. D # {} /\ D \in SUBSET Int
    BY <2>2, <2>5
  <2>7. PICK d \in D : \A y \in D : d <= y
    BY <2>4, <2>6, LeastInSet, Zenon
  <2>8. PICK i \in audios : d = f[i]
    BY <2>7
  <2>9. \A j \in audios : f[j] \in D
    OBVIOUS
  <2>10. \A j \in audios : off(i) <= off(j)
    BY <2>5, <2>7, <2>8, <2>9, Zenon
  <2>. QED  BY <2>1, <2>8, <2>10
<1> HIDE DEF near
<1>3. closest \in 1..Len(q)
  BY <1>1, <1>2, Zenon
<1> HIDE DEF closest
<1>4. FirstIdx(q, Video(0)) \in 1..Len(q)
  BY IdxIs, Zenon
<1>5. idx \in 1..Len(q) /\ idx <= FirstIdx(q, Video(0))
  <2>1. two \in SUBSET (1..Len(q)) /\ two # {}
    BY <1>3, <1>4
  <2>2. FirstIdx(q, Video(0)) \in two
    OBVIOUS
  <2>. QED  BY <1>1, <2>1, <2>2, Zenon
<1> HIDE DEF idx
<1>6. Least(more) \in 1..Len(q) /\ Least(more) <= idx
  <2>1. \A a \in Audios : Has(q, a) => FirstIdx(q, a) \in 1..Len(q)
    BY IdxIs, Zenon
  <2>2. more \in SUBSET (1..Len(q)) /\ more # {} /\ idx \in more
    BY <1>5, <2>1
  <2>. QED  BY <1>1, <2>2, Zenon
<1>7. StartIdx(q) = idx \/ StartIdx(q) = Least(more)
  BY Zenon DEF StartIdx, idx, closest, near
<1>8. CASE StartIdx(q) = idx
  BY <1>5, <1>8, Zenon
<1>9. CASE StartIdx(q) = Least(more)
  <2> HIDE DEF more
  <2>1. Least(more) <= FirstIdx(q, Video(0))
    BY <1>4, <1>5, <1>6
  <2>. QED  BY <1>6, <1>9, <2>1, Zenon
<1>. QED  BY <1>7, <1>8, <1>9

(* prune_premature_packets throws away no more than there is.              *)
LEMMA PrematureIn ==
    ASSUME NEW q \in Seq(Pkts)
    PROVE  Premature(q) \in 0..Len(q)
<1> DEFINE f == [e \in Audios \cup {Video(0)} |-> FirstIdx(q, e)]
<1> DEFINE firsts == {FirstIdx(q, e) : e \in Audios \cup {Video(0)}}
<1>0. Len(q) \in Nat /\ 0 \in 0..Len(q) /\ IsFiniteSet(0..Len(q)) /\ 0..Len(q) \in SUBSET Int
  BY FS_Interval
<1>1. firsts \in SUBSET (0..Len(q)) /\ firsts # {}
  <2>1. \A e : FirstIdx(q, e) \in 0..Len(q)
    BY IdxIs, Zenon
  <2>. QED  BY <2>1
<1>2. IsFiniteSet(firsts)
  BY <1>0, <1>1, FS_Subset, Zenon
<1>3. firsts \in SUBSET Int
  BY <1>0, <1>1
<1> HIDE DEF firsts
<1>4. Greatest(firsts) \in 0..Len(q)
  <2>1. Greatest(firsts) \in firsts
    BY <1>1, <1>2, <1>3, GreatestInSet, Zenon
  <2>. QED  BY <1>1, <2>1
<1>5. Premature(q) = Greatest(firsts) \/ Premature(q) = 0
  BY Zenon DEF Premature, firsts
<1>. QED  BY <1>0, <1>4, <1>5, Zenon

Colls == [q : Seq(Pkts), times : Times, ra : BOOLEAN, rv : [Videos -> BOOLEAN], ok : BOOLEAN]

\* What has been collected, when nx are the next packets.
Good(c, nx) == c \in Colls /\ Collecting(c.q, c.times, nx)

\* The stream can begin with what is left of c in d.
Begun(d, c) == d.ok => d.ra = c.ra /\ d.rv = c.rv /\ \A e \in Encoders : Has(d.q, e)

LEMMA WithoutGood ==
    ASSUME NEW c, NEW nx, Good(c, nx), NEW n \in 0..Len(c.q)
    PROVE  /\ Good(Without(c, n), nx)
           /\ Without(c, n).ra = c.ra /\ Without(c, n).rv = c.rv /\ Without(c, n).ok = c.ok
<1> DEFINE q == Discarded(c.q, n)
<1> DEFINE t == TimesLeft(c.q, n, c.times)
<1>1. Collecting(q, t, nx)
  BY Drop, Zenon DEF Good
<1>2. q \in Seq(Pkts) /\ t \in Times
  BY <1>1, Zenon DEF Collecting, Queue
<1>3. Without(c, n) = [c EXCEPT !.q = q, !.times = t]
  BY Zenon DEF Without
<1> HIDE DEF q, t
<1>4. /\ Without(c, n) \in Colls /\ Without(c, n).q = q /\ Without(c, n).times = t
      /\ Without(c, n).ra = c.ra /\ Without(c, n).rv = c.rv /\ Without(c, n).ok = c.ok
  <2>1. c \in Colls
    BY Zenon DEF Good
  <2>. QED  BY <1>2, <1>3, <2>1 DEF Colls
<1>. QED  BY <1>1, <1>4, Zenon DEF Good

LEMMA NotYet ==
    ASSUME NEW c, NEW nx, Good(c, nx)
    PROVE  /\ Good(NoAudio(c), nx) /\ ~NoAudio(c).ok
           /\ Good([c EXCEPT !.ok = FALSE], nx) /\ ~[c EXCEPT !.ok = FALSE].ok
           /\ \A v : Good([c EXCEPT !.rv[v] = FALSE, !.ok = FALSE], nx)
                     /\ ~[c EXCEPT !.rv[v] = FALSE, !.ok = FALSE].ok
<1>1. c \in Colls /\ Collecting(c.q, c.times, nx)
  BY Zenon DEF Good
<1>2. \A d : d \in Colls /\ d.q = c.q /\ d.times = c.times => Good(d, nx)
  BY <1>1, Zenon DEF Good
<1>3. /\ NoAudio(c) \in Colls /\ NoAudio(c).q = c.q /\ NoAudio(c).times = c.times
      /\ ~NoAudio(c).ok
  BY <1>1 DEF Colls, NoAudio
<1> DEFINE d == [c EXCEPT !.ok = FALSE]
<1>4. d \in Colls /\ d.q = c.q /\ d.times = c.times /\ ~d.ok
  BY <1>1 DEF Colls
<1> HIDE DEF d
<1>5. ASSUME NEW v
      PROVE  Good([c EXCEPT !.rv[v] = FALSE, !.ok = FALSE], nx)
             /\ ~[c EXCEPT !.rv[v] = FALSE, !.ok = FALSE].ok
  <2> DEFINE rv == [c.rv EXCEPT ![v] = FALSE]
  <2> DEFINE e == [c EXCEPT !.rv[v] = FALSE, !.ok = FALSE]
  <2>1. rv \in [Videos -> BOOLEAN]
    BY <1>1 DEF Colls
  <2>2. e = [c EXCEPT !.rv = rv, !.ok = FALSE]
    OBVIOUS
  <2> HIDE DEF rv
  <2>3. e \in Colls /\ e.q = c.q /\ e.times = c.times /\ ~e.ok
    BY <1>1, <2>1, <2>2 DEF Colls
  <2> HIDE DEF e
  <2>4. Good(e, nx) /\ ~e.ok
    BY <1>2, <2>3, Zenon
  <2>. QED  BY <2>4, Zenon DEF e
<1>. QED  BY <1>2, <1>3, <1>4, <1>5, Zenon DEF d

(* get_audio_and_video_packets *)
LEMMA AllThereGood ==
    ASSUME NEW c, NEW nx, Good(c, nx)
    PROVE  /\ Good(AllThere(c), nx) /\ Begun(AllThere(c), c)
           /\ AllThere(c).ok => AllThere(c) = c
<1> DEFINE missing == {i \in VideoTracks : ~Has(c.q, Video(i))}
<1>1. CASE missing # {}
  <2>1. AllThere(c) = [c EXCEPT !.rv[Video(Least(missing))] = FALSE, !.ok = FALSE]
    BY <1>1, Zenon DEF AllThere
  <2> DEFINE v == Video(Least(missing))
  <2>2. \A x : /\ Good([c EXCEPT !.rv[x] = FALSE, !.ok = FALSE], nx)
               /\ ~[c EXCEPT !.rv[x] = FALSE, !.ok = FALSE].ok
    BY NotYet, Zenon
  <2>3. AllThere(c) = [c EXCEPT !.rv[v] = FALSE, !.ok = FALSE]
    BY <2>1, Zenon
  <2> HIDE DEF v
  <2>4. Good(AllThere(c), nx) /\ ~AllThere(c).ok
    BY <2>2, <2>3, Zenon
  <2>. QED  BY <2>4, Zenon DEF Begun
<1>2. CASE missing = {} /\ \A a \in Audios : Has(c.q, a)
  <2>1. AllThere(c) = c
    BY <1>2, Zenon DEF AllThere
  <2>2. \A e \in Encoders : Has(c.q, e)
    BY <1>2, Zenon DEF Encoders, Videos
  <2>. QED  BY <2>1, <2>2, Zenon DEF Begun
<1>3. CASE missing = {} /\ ~(\A a \in Audios : Has(c.q, a))
  <2>1. AllThere(c) = NoAudio(c)
    BY <1>3, Zenon DEF AllThere
  <2>2. Good(AllThere(c), nx) /\ ~AllThere(c).ok
    BY <2>1, NotYet, Zenon
  <2>. QED  BY <2>2, Zenon DEF Begun
<1>. QED  BY <1>1, <1>2, <1>3

(* The packets before the beginning go. *)
LEMMA StartGood ==
    ASSUME NEW c, NEW nx, Good(c, nx), Has(c.q, Video(0)), \A a \in Audios : Has(c.q, a)
    PROVE  /\ Good(Without(c, StartIdx(c.q) - 1), nx)
           /\ Without(c, StartIdx(c.q) - 1).ra = c.ra
           /\ Without(c, StartIdx(c.q) - 1).rv = c.rv
<1>1. c.q \in Seq(Pkts)
  BY DEF Good, Colls
<1>2. StartIdx(c.q) \in 1..Len(c.q)
  BY <1>1, StartIdxIn, Zenon
<1>3. StartIdx(c.q) - 1 \in 0..Len(c.q)
  BY <1>2
<1>. QED  BY <1>3, WithoutGood, Zenon

(* initialize_interleaved_packets, up to the offsets *)
LEMMA InitializedGood ==
    ASSUME NEW c, NEW nx, Good(c, nx)
    PROVE  Good(Initialized(c), nx) /\ Begun(Initialized(c), c)
<1>1. CASE ~AllThere(c).ok
  <2>1. Initialized(c) = AllThere(c)
    BY <1>1, Zenon DEF Initialized
  <2>. QED  BY <2>1, AllThereGood, Zenon
<1>2. CASE AllThere(c).ok
  <2>1. \A e \in Encoders : Has(c.q, e)
    BY <1>2, AllThereGood, Zenon DEF Begun
  <2>2. Has(c.q, Video(0)) /\ \A a \in Audios : Has(c.q, a)
    BY <2>1, EncodersAreFinite, Zenon DEF Encoders
  <2> DEFINE d == Without(c, StartIdx(c.q) - 1)
  <2>3. Good(d, nx) /\ d.ra = c.ra /\ d.rv = c.rv
    BY <2>2, StartGood, Zenon
  <2>4. Good(AllThere(d), nx) /\ Begun(AllThere(d), d)
    BY <2>3, AllThereGood, Zenon
  <2>5. Begun(AllThere(d), c)
    BY <2>3, <2>4, Zenon DEF Begun
  <2>6. Initialized(c) = NoAudio(c) \/ Initialized(c) = AllThere(d)
    BY <1>2, Zenon DEF Initialized
  <2>7. CASE Initialized(c) = NoAudio(c)
    <3>1. Good(Initialized(c), nx) /\ ~Initialized(c).ok
      BY <2>7, NotYet, Zenon
    <3>. QED  BY <3>1, Zenon DEF Begun
  <2>8. CASE Initialized(c) = AllThere(d)
    BY <2>4, <2>5, <2>8, Zenon
  <2>. QED  BY <2>6, <2>7, <2>8
<1>. QED  BY <1>1, <1>2

(* prune_interleaved_packets and the initialization                        *)
LEMMA AttemptGood ==
    ASSUME NEW c, NEW nx, Good(c, nx)
    PROVE  Good(Attempt(c), nx) /\ Begun(Attempt(c), c)
<1>1. CASE ~Has(c.q, Video(0))
  <2>1. Attempt(c) = [c EXCEPT !.ok = FALSE]
    BY <1>1, Zenon DEF Attempt
  <2>2. Good(Attempt(c), nx) /\ ~Attempt(c).ok
    BY <2>1, NotYet, Zenon
  <2>. QED  BY <2>2, Zenon DEF Begun
<1>2. CASE Has(c.q, Video(0)) /\ \E a \in Audios : ~Has(c.q, a)
  <2>1. Attempt(c) = NoAudio(c)
    BY <1>2, Zenon DEF Attempt
  <2>2. Good(Attempt(c), nx) /\ ~Attempt(c).ok
    BY <2>1, NotYet, Zenon
  <2>. QED  BY <2>2, Zenon DEF Begun
<1>3. CASE Has(c.q, Video(0)) /\ \A a \in Audios : Has(c.q, a)
  <2> DEFINE n == IF Premature(c.q) # 0 THEN Premature(c.q) ELSE StartIdx(c.q) - 1
  <2> DEFINE d == Without(c, n)
  <2>1. Attempt(c) = Initialized(d)
    BY <1>3, Zenon DEF Attempt
  <2>2. Good(d, nx) /\ d.ra = c.ra /\ d.rv = c.rv
    <3>1. CASE Premature(c.q) # 0
      <4>1. c.q \in Seq(Pkts)
        BY DEF Good, Colls
      <4>2. n \in 0..Len(c.q)
        BY <3>1, <4>1, PrematureIn, Zenon
      <4>. QED  BY <4>2, WithoutGood, Zenon
    <3>2. CASE Premature(c.q) = 0
      <4>1. n = StartIdx(c.q) - 1
        BY <3>2, Zenon
      <4>. QED  BY <1>3, <4>1, StartGood, Zenon
    <3>. QED  BY <3>1, <3>2
  <2> HIDE DEF d
  <2>3. Good(Initialized(d), nx) /\ Begun(Initialized(d), d)
    BY <2>2, InitializedGood, Zenon
  <2>. QED  BY <2>1, <2>2, <2>3, Zenon DEF Begun
<1>. QED  BY <1>1, <1>2, <1>3

-----------------------------------------------------------------------------
(* The inductive invariant *)

\* What holds of the queue, while packets are collected and afterwards.
Consistent(q, times, nx, voff, started) ==
    /\ Queue(q, nx, voff) /\ times \in Times /\ Matches(q, times)
    /\ ~started => InSystemTime(q) /\ Rising(times) /\ voff = Zero

\* The inductive invariant.
IInv ==
    /\ TypeOK /\ Timed(sent)
    /\ Consistent(interleaved_packets, encoder_packet_times, next, video_offsets, Started)

LEMMA QueueLater ==
    ASSUME NEW q, NEW nx \in [Encoders -> Nat], NEW voff, Queue(q, nx, voff),
           NEW e \in Encoders
    PROVE  Queue(q, [nx EXCEPT ![e] = @ + 1], voff)
<1> DEFINE more == [nx EXCEPT ![e] = @ + 1]
<1>1. \A f \in Encoders : nx[f] \in Nat /\ more[f] \in Nat /\ nx[f] <= more[f]
  OBVIOUS
<1>2. q \in Seq(Pkts) /\ \A i \in DOMAIN q : q[i].n < nx[q[i].enc]
  BY Zenon DEF Queue
<1>3. \A i \in DOMAIN q : q[i].n \in Int /\ q[i].enc \in Encoders
  <2>1. \A i \in DOMAIN q : q[i] \in Pkts
    BY <1>2
  <2>2. \A x \in Pkts : x.n \in Int /\ x.enc \in Encoders
    BY DEF Pkts
  <2>. QED  BY <2>1, <2>2, Zenon
<1> HIDE DEF more
<1>4. \A i \in DOMAIN q : q[i].n < more[q[i].enc]
  BY <1>1, <1>2, <1>3
<1>5. Queue(q, more, voff)
  BY <1>4, Zenon DEF Queue
<1>. QED  BY <1>5, Zenon DEF more

LEMMA EmptyConsistent ==
    ASSUME NEW nx, NEW started
    PROVE  Consistent(<<>>, [e \in Videos |-> <<>>], nx, Zero, started)
<1> DEFINE t == [e \in Videos |-> <<>>]
<1>1. t \in Times /\ \A v \in Videos : t[v] = <<>>
  BY DEF Times
<1> HIDE DEF t
<1>2. <<>> \in Seq(Pkts) /\ DOMAIN <<>> = {}
  OBVIOUS
<1>3. Queue(<<>>, nx, Zero) /\ InSystemTime(<<>>)
  BY <1>2, Zenon DEF Queue, InSystemTime
<1>4. Rising(t)
  BY <1>1, <1>2, Zenon DEF Rising, RisingTimes
<1>5. \A v \in Videos : MatchesFor(<<>>, v, <<>>)
  <2>1. \A v : Waiting(<<>>, v) = {}
    BY <1>2, Zenon DEF Waiting
  <2>2. Range(<<>>) = {} /\ IsInjective(<<>>)
    BY <1>2, Zenon DEF Range, IsInjective
  <2>. QED  BY <2>1, <2>2, Zenon DEF MatchesFor
<1>6. Matches(<<>>, t)
  BY <1>1, <1>5, MatchesTracks, Zenon
<1>. QED  BY <1>1, <1>3, <1>4, <1>6, Zenon DEF Consistent, t

LEMMA CollectingConsistent ==
    ASSUME NEW q, NEW times, NEW nx, Collecting(q, times, nx), NEW started
    PROVE  Consistent(q, times, nx, Zero, started)
BY Zenon DEF Collecting, Consistent

LEMMA InitInv ==
    ASSUME Init
    PROVE  IInv
<1>1. TypeOK
  <2>1. {active, received_audio} \subseteq BOOLEAN /\ hooked \subseteq Encoders
        /\ interleaver_max_batch_size \in Nat /\ sessions \in Nat
        /\ highest_audio_ts \in Int
    <3>1. /\ active = FALSE /\ received_audio = FALSE /\ hooked = {}
          /\ interleaver_max_batch_size = 0 /\ sessions = 0 /\ highest_audio_ts = 0
      BY Zenon DEF Init
    <3>2. {active, received_audio} \subseteq BOOLEAN
      BY <3>1, Zenon
    <3>3. hooked \subseteq Encoders
      BY <3>1, Zenon
    <3>4. interleaver_max_batch_size \in Nat /\ sessions \in Nat /\ highest_audio_ts \in Int
      <4>1. 0 \in Nat /\ 0 \in Int
        OBVIOUS
      <4>. QED  BY <3>1, <4>1, Zenon
    <3>. QED  BY <3>2, <3>3, <3>4, Zenon
  <2>2. received_video \in [Videos -> BOOLEAN]
    BY DEF Init
  <2>3. highest_video_ts \in [Videos -> Int]
    BY DEF Init, Never
  <2>4. audio_offsets \in [Audios -> Nat] /\ video_offsets \in [Videos -> Int]
    BY DEF Init
  <2>5. \A i \in DOMAIN interleaved_packets : interleaved_packets[i].enc \in Encoders
    BY DEF Init
  <2>6. encoder_packet_times \in [Videos -> Seq(Int)]
    BY DEF Init
  <2>7. next \in [Encoders -> 0..MaxPackets + 1]
    BY BoundsAssumption DEF Init
  <2>. QED  BY <2>1, <2>2, <2>3, <2>4, <2>5, <2>6, <2>7, Zenon DEF TypeOK
<1>2. Timed(sent)
  BY DEF Init, Timed
<1>3. Consistent(interleaved_packets, encoder_packet_times, next, video_offsets, Started)
  <2>1. /\ interleaved_packets = <<>> /\ encoder_packet_times = [e \in Videos |-> <<>>]
        /\ video_offsets = Zero
    BY Zenon DEF Init, Zero
  <2>. QED  BY <2>1, EmptyConsistent, Zenon
<1>. QED  BY <1>1, <1>2, <1>3, Zenon DEF IInv

(* The packets of all encoders in twice the longest interval are finitely many. *)
LEMMA BatchSizeType == BatchSize \in Nat
<1> DEFINE S == {Step[e] : e \in Encoders}
<1> DEFINE longest == Greatest(S)
<1>1. longest \in Nat
  <2>1. IsFiniteSet(S)
    BY EncodersAreFinite, ImageIsFinite, Zenon
  <2>2. S \in SUBSET Int /\ S # {} /\ S \in SUBSET Nat
    BY EncodersAreFinite, StepAssumption DEF Encoders
  <2>3. longest \in S
    BY <2>1, <2>2, GreatestInSet, Zenon
  <2>. QED  BY <2>2, <2>3
<1> HIDE DEF longest
<1> DEFINE num(e) == (2 * longest) \div Step[e]
<1>2. \A e \in Encoders : num(e) \in Nat
  <2>1. \A e \in Encoders : Step[e] \in Nat /\ Step[e] > 0
    BY StepAssumption
  <2>2. \A x \in Nat, y \in Nat : y > 0 => x \div y \in Nat
    OBVIOUS
  <2>3. 2 * longest \in Nat
    BY <1>1
  <2>. QED  BY <2>1, <2>2, <2>3, Zenon
<1> DEFINE T == Encoders
<1> DEFINE c(s) == CHOOSE x \in s : TRUE
<1> DEFINE step == [e \in T |-> [x \in Nat |-> x + num(e)]]
<1> DEFINE Eq(F) == F = [s \in SUBSET T |-> IF s = {} THEN 0 ELSE F[s \ {c(s)}] + num(c(s))]
<1> DEFINE iter == CHOOSE F : Eq(F)
<1>3. BatchSize = iter[T]
  BY Zenon DEF BatchSize, FoldSet, MapThenFoldSet, longest
<1> HIDE DEF num
<1>4. /\ step \in [T -> [Nat -> Nat]] /\ IsFiniteSet(T) /\ 0 \in Nat
      /\ \A e \in T, x \in Nat : step[e][x] = x + num(e)
  BY <1>2, EncodersAreFinite
<1> HIDE DEF step
<1>5. PICK F \in [SUBSET T -> Nat] : FoldsFrom(F, T, 0, step)
  BY <1>4, SetFoldExists, Zenon
<1>6. \A s \in SUBSET T : F[s] = IF s = {} THEN 0 ELSE step[c(s)][F[s \ {c(s)}]]
  BY <1>5, Zenon DEF FoldsFrom
<1>7. \A s \in SUBSET T : s # {} => c(s) \in T /\ s \ {c(s)} \in SUBSET T
  OBVIOUS
<1>8. \A s \in SUBSET T : F[s] \in Nat
  BY <1>5
<1> HIDE DEF c, T
<1>9. Eq(F)
  <2>1. \A s \in SUBSET T : F[s] = IF s = {} THEN 0 ELSE F[s \ {c(s)}] + num(c(s))
    BY <1>4, <1>6, <1>7, <1>8, Zenon
  <2>2. F = [s \in SUBSET T |-> F[s]]
    BY <1>5
  <2>. QED  BY <2>1, <2>2, Zenon
<1>10. Eq(iter)
  <2> HIDE DEF Eq
  <2>. QED  BY <1>9, Zenon
<1> HIDE DEF iter
<1>11. \A s \in SUBSET T : iter[s] = IF s = {} THEN 0 ELSE iter[s \ {c(s)}] + num(c(s))
  BY <1>10, Zenon
<1> DEFINE P == {s \in SUBSET T : iter[s] \in Nat}
<1>12. {} \in P
  <2>1. {} \in SUBSET T
    OBVIOUS
  <2>2. iter[{}] = 0
    BY <1>11, <2>1, Zenon
  <2>. QED  BY <2>1, <2>2
<1>13. ASSUME NEW s \in SUBSET T, s # {}, s \ {c(s)} \in P PROVE s \in P
  <2>1. iter[s] = iter[s \ {c(s)}] + num(c(s))
    BY <1>11, <1>13, Zenon
  <2>2. iter[s \ {c(s)}] \in Nat /\ num(c(s)) \in Nat
    BY <1>2, <1>7, <1>13 DEF T
  <2>. QED  BY <2>1, <2>2
<1>14. T \in P
  <2> HIDE DEF P
  <2>. QED  BY <1>4, <1>12, <1>13, SubsetInduction, Zenon DEF c
<1>. QED  BY <1>3, <1>14

\* The state after a step of an encoder.
LEMMA OneMore ==
    ASSUME TypeOK, NEW e \in Encoders, Arrives(e)
    PROVE  /\ next \in [Encoders -> Nat] /\ next[e] \in Nat
           /\ next' = [next EXCEPT ![e] = @ + 1]
           /\ next' \in [Encoders -> 0..MaxPackets + 1]
<1>1. next \in [Encoders -> 0..MaxPackets + 1] /\ MaxPackets \in Nat
  BY BoundsAssumption DEF TypeOK
<1>2. next' = [next EXCEPT ![e] = @ + 1] /\ next[e] <= MaxPackets
  BY Zenon DEF Arrives, Ready
<1>3. next[e] + 1 \in 0..MaxPackets + 1
  BY <1>1, <1>2
<1>4. next' \in [Encoders -> 0..MaxPackets + 1]
  BY <1>1, <1>2, <1>3
<1>5. next \in [Encoders -> Nat] /\ next[e] \in Nat
  BY <1>1
<1>. QED  BY <1>2, <1>4, <1>5

(* Nothing but the queue, its times and the flags of the tracks changes.   *)
LEMMA WaitsInv ==
    ASSUME IInv, ~Started, NEW e \in Encoders, Arrives(e), NEW c, Good(c, next'), Waits(c),
           UNCHANGED <<active, interleaver_max_batch_size, hooked, sessions>>
    PROVE  IInv'
<1>1. TypeOK /\ Timed(sent) /\ video_offsets = Zero
  BY Zenon DEF IInv, Consistent
<1>2. /\ interleaved_packets' = c.q /\ encoder_packet_times' = c.times
      /\ received_audio' = c.ra /\ received_video' = c.rv
      /\ highest_audio_ts' = highest_audio_ts /\ highest_video_ts' = highest_video_ts
      /\ audio_offsets' = audio_offsets /\ video_offsets' = video_offsets /\ sent' = sent
  BY DEF Waits, highest, offsets
<1>3. c \in Colls /\ Collecting(c.q, c.times, next')
  BY Zenon DEF Good
<1>4. TypeOK'
  <2>1. /\ c.ra \in BOOLEAN /\ c.rv \in [Videos -> BOOLEAN] /\ c.times \in [Videos -> Seq(Int)]
        /\ \A i \in DOMAIN c.q : c.q[i].enc \in Encoders
    <3>1. c.q \in Seq(Pkts)
      BY <1>3 DEF Colls
    <3>2. \A i \in DOMAIN c.q : c.q[i] \in Pkts
      BY <3>1
    <3>. QED  BY <1>3, <3>2 DEF Colls, Times, Pkts
  <2>2. next' \in [Encoders -> 0..MaxPackets + 1]
    BY <1>1, OneMore, Zenon
  <2>. QED  BY <1>1, <1>2, <2>1, <2>2 DEF TypeOK
<1>5. Timed(sent)'
  BY <1>1, <1>2, Zenon DEF Timed
<1>6. Consistent(interleaved_packets, encoder_packet_times, next, video_offsets, Started)'
  <2>1. \A s : Consistent(c.q, c.times, next', Zero, s)
    BY <1>3, CollectingConsistent, Zenon
  <2>2. Consistent(interleaved_packets', encoder_packet_times', next', video_offsets', Started')
    BY <1>1, <1>2, <2>1, Zenon
  <2>. QED  BY <2>2
<1>. QED  BY <1>4, <1>5, <1>6, Zenon DEF IInv

\* Greatest of a few sets of numbers.
LEMMA GreatestType ==
    ASSUME NEW x \in Int, NEW S \in SUBSET Int, IsFiniteSet(S)
    PROVE  Greatest({x} \cup S) \in Int
<1>1. {x} \cup S \in SUBSET Int /\ {x} \cup S # {}
  OBVIOUS
<1>2. IsFiniteSet({x} \cup S)
  BY FS_Singleton, FS_Union, Zenon
<1>3. Greatest({x} \cup S) \in {x} \cup S
  BY <1>1, <1>2, GreatestInSet, Zenon
<1>. QED  BY <1>1, <1>3

\* The latest timestamps of a track in a queue.
LatestOf(r, e) == {r[i].ts : i \in {i \in DOMAIN r : r[i].enc = e}}

LEMMA LatestFinite ==
    ASSUME NEW r \in Seq(Pkts)
    PROVE  /\ \A e : LatestOf(r, e) \in SUBSET Int /\ IsFiniteSet(LatestOf(r, e))
           /\ UNION {LatestOf(r, a) : a \in Audios} \in SUBSET Int
           /\ IsFiniteSet(UNION {LatestOf(r, a) : a \in Audios})
<1> DEFINE f == [i \in DOMAIN r |-> r[i].ts]
<1> DEFINE All == {f[i] : i \in DOMAIN r}
<1>1. IsFiniteSet(DOMAIN r)
  <2>1. DOMAIN r = 1..Len(r) /\ Len(r) \in Int /\ 1 \in Int
    OBVIOUS
  <2>. QED  BY <2>1, FS_Interval, Zenon
<1>2. IsFiniteSet(All)
  BY <1>1, ImageIsFinite, Zenon
<1>3. \A i \in DOMAIN r : r[i].ts \in Int
  <2>1. \A i \in DOMAIN r : r[i] \in Pkts
    OBVIOUS
  <2>. QED  BY <2>1 DEF Pkts
<1>4. All \in SUBSET Int
  BY <1>3
<1>5. \A e : LatestOf(r, e) \in SUBSET All
  BY DEF LatestOf
<1> HIDE DEF All
<1>6. UNION {LatestOf(r, a) : a \in Audios} \in SUBSET All
  BY <1>5
<1>. QED  BY <1>2, <1>4, <1>5, <1>6, FS_Subset

(* initialize_interleaved_packets, resort_interleaved_packets and the first *)
(* packet.                                                                  *)
LEMMA BeginsInv ==
    ASSUME IInv, NEW e \in Encoders, Arrives(e), NEW c, Good(c, next'),
           Complete(c.ra, c.rv), \A f \in Encoders : Has(c.q, f), Begins(c),
           UNCHANGED <<active, interleaver_max_batch_size, hooked, sessions>>
    PROVE  IInv'
<1> DEFINE q == c.q
<1> DEFINE voff == [v \in Videos |-> First(q, v).pts]
<1> DEFINE aoff == [a \in Audios |-> AudioOffset(First(q, a))]
<1> DEFINE shifted == [i \in DOMAIN q |-> Shifted(q[i], aoff, voff)]
<1> DEFINE times == [v \in Videos |-> [k \in DOMAIN c.times[v] |-> c.times[v][k] - voff[v]]]
<1> DEFINE in == [q |-> Resorted(shifted), sent |-> sent, times |-> times]
<1> DEFINE out == Sent(in)
<1> DEFINE ha == {highest_audio_ts - First(q, Audio(Least(AudioTracks))).ts}
                 \cup UNION {LatestOf(shifted, a) : a \in Audios}
<1> DEFINE hv == [v \in Videos |-> Greatest({highest_video_ts[v]} \cup LatestOf(shifted, v))]
<1>1. TypeOK /\ Timed(sent)
  BY Zenon DEF IInv
<1>2. /\ received_audio' = c.ra /\ received_video' = c.rv
      /\ video_offsets' = voff /\ audio_offsets' = aoff
      /\ interleaved_packets' = out.q /\ encoder_packet_times' = out.times
      /\ sent' = out.sent
  BY Zenon DEF Begins
<1>3. highest_audio_ts' = Greatest(ha) /\ highest_video_ts' = hv
  BY Zenon DEF Begins, LatestOf
<1>4. /\ c \in Colls /\ Queue(q, next', Zero) /\ q \in Seq(Pkts)
      /\ c.times \in Times /\ Matches(q, c.times)
  BY Zenon DEF Good, Collecting, Queue
<1>5. \A f \in Encoders : First(q, f) \in Pkts /\ FirstIdx(q, f) \in 1..Len(q)
  BY <1>4, IdxIs, Zenon
<1>6. voff \in [Videos -> Int] /\ aoff \in [Audios -> Nat] /\ aoff \in [Audios -> Int]
  <2>1. \A x \in Pkts : x.pts \in Int /\ AudioOffset(x) \in Nat
    BY DEF Pkts, AudioOffset
  <2>2. \A v \in Videos : First(q, v).pts \in Int
    BY <1>5, <2>1, Zenon DEF Encoders
  <2>3. \A a \in Audios : AudioOffset(First(q, a)) \in Nat
    BY <1>5, <2>1 DEF Encoders
  <2>. QED  BY <2>2, <2>3
<1> HIDE DEF voff, aoff
<1>7. q # <<>>
  <2>1. FirstIdx(q, Video(0)) \in 1..Len(q)
    BY <1>5, EncodersAreFinite, Zenon DEF Encoders
  <2>. QED  BY <1>4, <2>1
<1>8. /\ Queue(shifted, next', voff) /\ shifted # <<>>
      /\ \A v \in Videos : \A t : MatchesFor(q, v, t) =>
            MatchesFor(shifted, v, [k \in DOMAIN t |-> t[k] - voff[v]])
  <2>1. shifted = [i \in DOMAIN q |-> Shifted(q[i], aoff, voff)]
    OBVIOUS
  <2> HIDE DEF shifted, q
  <2>. QED  BY <1>4, <1>6, <1>7, <2>1, ShiftedQueue, ZenonT(30)
<1>9. \A v \in Videos : MatchesFor(shifted, v, times[v]) /\ times[v] \in Seq(Int)
  <2> SUFFICES ASSUME NEW v \in Videos
               PROVE  MatchesFor(shifted, v, times[v]) /\ times[v] \in Seq(Int)
    OBVIOUS
  <2> DEFINE t == c.times[v]
  <2>1. MatchesFor(q, v, t)
    BY <1>4, MatchesTracks, Zenon
  <2>2. t \in Seq(Int) /\ voff[v] \in Int
    BY <1>4, <1>6 DEF Times
  <2>3. times[v] = [k \in DOMAIN t |-> t[k] - voff[v]]
    OBVIOUS
  <2> HIDE DEF t, times
  <2>4. DOMAIN t = 1..Len(t) /\ Len(t) \in Nat /\ \A k \in DOMAIN t : t[k] \in Int
    BY <2>2
  <2>5. times[v] \in [1..Len(t) -> Int]
    BY <2>2, <2>3, <2>4
  <2>6. times[v] \in Seq(Int)
    BY <2>4, <2>5
  <2>. QED  BY <1>8, <2>1, <2>3, <2>6, Zenon
<1>10. times \in Times
  BY <1>9 DEF Times
<1>11. shifted \in Seq(Pkts)
  BY <1>8, Zenon DEF Queue
<1> HIDE DEF shifted, times
<1>12. /\ Queue(Resorted(shifted), next', voff) /\ Resorted(shifted) # <<>>
       /\ \A v, t : MatchesFor(shifted, v, t) => MatchesFor(Resorted(shifted), v, t)
  BY <1>8, ResortedQueue, Zenon
<1>13. Matches(Resorted(shifted), times)
  BY <1>9, <1>12, MatchesTracks, Zenon
<1>14. in.q = Resorted(shifted) /\ in.times = times /\ in.sent = sent
  OBVIOUS
<1> HIDE DEF in
<1>15. Going(in, next', voff) /\ in.q # <<>>
  BY <1>1, <1>10, <1>12, <1>13, <1>14, Zenon DEF Going
<1>16. Going(out, next', voff)
  BY <1>15, SentGoing, Zenon
<1> HIDE DEF out
<1>17. Greatest(ha) \in Int /\ hv \in [Videos -> Int]
  <2>1. /\ \A f : LatestOf(shifted, f) \in SUBSET Int /\ IsFiniteSet(LatestOf(shifted, f))
        /\ UNION {LatestOf(shifted, a) : a \in Audios} \in SUBSET Int
        /\ IsFiniteSet(UNION {LatestOf(shifted, a) : a \in Audios})
    BY <1>11, LatestFinite, Zenon
  <2>2. highest_audio_ts - First(q, Audio(Least(AudioTracks))).ts \in Int
    <3>1. Audio(Least(AudioTracks)) \in Encoders
      <4>1. Least(AudioTracks) \in AudioTracks
        <5>1. AudioTracks \in SUBSET Int /\ IsFiniteSet(AudioTracks) /\ AudioTracks # {}
          BY TracksAssumption
        <5>. QED  BY <5>1, LeastInSet, Zenon
      <4>. QED  BY <4>1, Zenon DEF Encoders, Audios
    <3>2. First(q, Audio(Least(AudioTracks))) \in Pkts
      BY <1>5, <3>1, Zenon
    <3>3. First(q, Audio(Least(AudioTracks))).ts \in Int
      BY <3>2 DEF Pkts
    <3>4. highest_audio_ts \in Int
      BY <1>1, Zenon DEF TypeOK
    <3>. QED  BY <3>3, <3>4
  <2>3. Greatest(ha) \in Int
    BY <2>1, <2>2, GreatestType, Zenon
  <2>4. \A v \in Videos : highest_video_ts[v] \in Int
    BY <1>1 DEF TypeOK
  <2>5. \A v \in Videos : Greatest({highest_video_ts[v]} \cup LatestOf(shifted, v)) \in Int
    BY <2>1, <2>4, GreatestType, Zenon
  <2>. QED  BY <2>3, <2>5
<1> HIDE DEF ha, hv
<1>18. /\ Queue(out.q, next', voff) /\ out.q \in Seq(Pkts) /\ out.times \in Times
       /\ Matches(out.q, out.times) /\ Timed(out.sent)
  BY <1>16, Zenon DEF Going, Queue
<1>19. TypeOK'
  <2>1. /\ c.ra \in BOOLEAN /\ c.rv \in [Videos -> BOOLEAN]
        /\ out.times \in [Videos -> Seq(Int)]
        /\ \A i \in DOMAIN out.q : out.q[i].enc \in Encoders
    <3>1. \A i \in DOMAIN out.q : out.q[i] \in Pkts
      BY <1>18
    <3>2. \A i \in DOMAIN out.q : out.q[i].enc \in Encoders
      BY <3>1 DEF Pkts
    <3>3. c.ra \in BOOLEAN /\ c.rv \in [Videos -> BOOLEAN]
      BY <1>4 DEF Colls
    <3>. QED  BY <1>18, <3>2, <3>3, Zenon DEF Times
  <2>2. next' \in [Encoders -> 0..MaxPackets + 1]
    BY <1>1, OneMore, Zenon
  <2>. QED  BY <1>1, <1>2, <1>3, <1>6, <1>17, <2>1, <2>2 DEF TypeOK
<1>20. Timed(sent)'
  BY <1>2, <1>18, Zenon DEF Timed
<1>21. Consistent(interleaved_packets, encoder_packet_times, next, video_offsets, Started)'
  <2>1. Started'
    BY <1>2, Zenon DEF Started, Complete
  <2>2. Consistent(interleaved_packets', encoder_packet_times', next', video_offsets', Started')
    BY <1>2, <1>18, <2>1, Zenon DEF Consistent
  <2>. QED  BY <2>2
<1>. QED  BY <1>19, <1>20, <1>21, Zenon DEF IInv

-----------------------------------------------------------------------------
(* Every step keeps the invariant *)

LEMMA HookInv ==
    ASSUME IInv, Hook
    PROVE  IInv'
<1>1. TypeOK
  BY Zenon DEF IInv
<1>2. /\ hooked' = Encoders /\ sessions' = sessions + 1
      /\ received_audio' = FALSE /\ received_video' = [v \in Videos |-> FALSE]
      /\ highest_audio_ts' = 0 /\ highest_video_ts' = [v \in Videos |-> Never]
      /\ audio_offsets' = [a \in Audios |-> 0] /\ video_offsets' = Zero
      /\ interleaved_packets' = <<>> /\ encoder_packet_times' = [v \in Videos |-> <<>>]
      /\ next' \in Starts /\ sent' = <<>> /\ active' = active
      /\ interleaver_max_batch_size' = interleaver_max_batch_size
  BY DEF Hook, Zero
<1>3. TypeOK'
  <2>1. {active, received_audio}' \subseteq BOOLEAN
    <3>1. active \in BOOLEAN
      BY <1>1, Zenon DEF TypeOK
    <3>. QED  BY <1>2, <3>1, Zenon
  <2>2. /\ hooked' \subseteq Encoders /\ interleaver_max_batch_size' \in Nat
        /\ received_video' \in [Videos -> BOOLEAN]
    BY <1>1, <1>2 DEF TypeOK
  <2>3. sessions' \in Nat
    <3>1. sessions + 1 \in Nat
      BY <1>1 DEF TypeOK
    <3>. QED  BY <1>2, <3>1, Zenon
  <2>4. highest_audio_ts' \in Int /\ highest_video_ts' \in [Videos -> Int]
    BY <1>2 DEF Never
  <2>5. audio_offsets' \in [Audios -> Nat] /\ video_offsets' \in [Videos -> Int]
    BY <1>2 DEF Zero
  <2>6. \A i \in DOMAIN interleaved_packets' : interleaved_packets'[i].enc \in Encoders
    <3>1. DOMAIN <<>> = {}
      OBVIOUS
    <3>. QED  BY <1>2, <3>1, Zenon
  <2>7. encoder_packet_times' \in [Videos -> Seq(Int)]
    BY <1>2
  <2>8. next' \in [Encoders -> 0..MaxPackets + 1]
    <3>1. next' \in [Encoders -> 0..MaxPackets]
      BY <1>2, StartsAssumption
    <3>. QED  BY <3>1, BoundsAssumption
  <2>. QED  BY <2>1, <2>2, <2>3, <2>4, <2>5, <2>6, <2>7, <2>8, Zenon DEF TypeOK
<1>4. Timed(sent)'
  <2>1. Timed(<<>>)
    BY DEF Timed
  <2>2. Timed(sent')
    BY <1>2, <2>1, Zenon
  <2>. QED  BY <2>2
<1>5. Consistent(interleaved_packets, encoder_packet_times, next, video_offsets, Started)'
  <2>1. Consistent(interleaved_packets', encoder_packet_times', next', video_offsets', Started')
    BY <1>2, EmptyConsistent, Zenon
  <2>. QED  BY <2>1
<1>. QED  BY <1>3, <1>4, <1>5, Zenon DEF IInv

\* A step that leaves the stream alone.
LEMMA StreamUnchanged ==
    ASSUME IInv, TypeOK',
           UNCHANGED <<received_audio, received_video, video_offsets, packets, next, sent>>
    PROVE  IInv'
<1>1. Timed(sent)'
  BY DEF IInv, Timed
<1>2. Consistent(interleaved_packets, encoder_packet_times, next, video_offsets, Started)'
  <2>1. Started' <=> Started
    BY Zenon DEF Started, Complete
  <2>2. /\ interleaved_packets' = interleaved_packets
        /\ encoder_packet_times' = encoder_packet_times
        /\ next' = next /\ video_offsets' = video_offsets
    BY DEF packets
  <2>3. Consistent(interleaved_packets', encoder_packet_times', next', video_offsets', Started')
    BY <2>1, <2>2, Zenon DEF IInv, Consistent
  <2>. QED  BY <2>3
<1>. QED  BY <1>1, <1>2, Zenon DEF IInv

LEMMA ActivateInv ==
    ASSUME IInv, Activate
    PROVE  IInv'
<1>1. TypeOK
  BY Zenon DEF IInv
<1>2. /\ UNCHANGED <<received, highest, offsets, packets, hooked, next, sessions, sent>>
      /\ active' = TRUE
      /\ interleaver_max_batch_size' = interleaver_max_batch_size + BatchSize
  BY Zenon DEF Activate
<1>3. interleaver_max_batch_size' \in Nat
  <2>1. interleaver_max_batch_size + BatchSize \in Nat
    BY <1>1, BatchSizeType DEF TypeOK
  <2>. QED  BY <1>2, <2>1, Zenon
<1>4. TypeOK'
  BY <1>1, <1>2, <1>3 DEF TypeOK, received, highest, offsets, packets
<1>. QED  BY <1>2, <1>4, StreamUnchanged DEF received, offsets

LEMMA EndCaptureInv ==
    ASSUME IInv, EndCapture
    PROVE  IInv'
<1>1. TypeOK
  BY Zenon DEF IInv
<1>2. /\ UNCHANGED <<interleaver_max_batch_size, received, highest, offsets, packets, hooked,
                     next, sessions, sent>>
      /\ active' = FALSE
  BY Zenon DEF EndCapture
<1>4. TypeOK'
  BY <1>1, <1>2 DEF TypeOK, received, highest, offsets, packets
<1>. QED  BY <1>2, <1>4, StreamUnchanged DEF received, offsets

LEMMA StopEncoderInv ==
    ASSUME IInv, NEW e \in Encoders, StopEncoder(e)
    PROVE  IInv'
<1>1. TypeOK
  BY Zenon DEF IInv
<1>2. /\ UNCHANGED <<active, interleaver_max_batch_size, received, highest, offsets, packets,
                     next, sessions, sent>>
      /\ hooked' = hooked \ {e}
  BY Zenon DEF StopEncoder
<1>4. TypeOK'
  BY <1>1, <1>2 DEF TypeOK, received, highest, offsets, packets
<1>. QED  BY <1>2, <1>4, StreamUnchanged DEF received, offsets

LEMMA DeliverEarlyInv ==
    ASSUME IInv, NEW e \in Encoders, DeliverEarly(e)
    PROVE  IInv'
<1>1. TypeOK /\ Timed(sent)
  BY Zenon DEF IInv
<1>2. /\ UNCHANGED <<active, interleaver_max_batch_size, received, highest, offsets, packets,
                     hooked, sessions, sent>>
      /\ Arrives(e)
  BY Zenon DEF DeliverEarly
<1>3. next \in [Encoders -> Nat] /\ next' = [next EXCEPT ![e] = @ + 1]
      /\ next' \in [Encoders -> 0..MaxPackets + 1]
  BY <1>1, <1>2, OneMore, Zenon
<1>4. TypeOK'
  BY <1>1, <1>2, <1>3 DEF TypeOK, received, highest, offsets, packets
<1>5. Timed(sent)'
  BY <1>1, <1>2, Zenon DEF Timed
<1>6. Consistent(interleaved_packets, encoder_packet_times, next, video_offsets, Started)'
  <2>1. received_audio' = received_audio /\ received_video' = received_video
        /\ video_offsets' = video_offsets /\ interleaved_packets' = interleaved_packets
        /\ encoder_packet_times' = encoder_packet_times
    BY <1>2 DEF received, offsets, packets
  <2>2. Started' <=> Started
    BY <2>1, Zenon DEF Started, Complete
  <2>3. Queue(interleaved_packets, next', video_offsets)
    BY <1>3, QueueLater, Zenon DEF IInv, Consistent
  <2>4. Consistent(interleaved_packets', encoder_packet_times', next', video_offsets', Started')
    BY <2>1, <2>2, <2>3, Zenon DEF IInv, Consistent
  <2>. QED  BY <2>4
<1>. QED  BY <1>4, <1>5, <1>6, Zenon DEF IInv

(* discard_unused_audio_packets, before the keyframe of a track            *)
LEMMA DeliverUnwantedInv ==
    ASSUME IInv, NEW e \in Encoders, DeliverUnwanted(e)
    PROVE  IInv'
<1> DEFINE p == Packet(e, next[e])
<1> DEFINE q == interleaved_packets
<1> DEFINE newer == SelectInSeq(q, LAMBDA c : c.ts >= p.ts)
<1> DEFINE n == IF newer = 0 THEN Len(q) ELSE newer - 1
<1> DEFINE left == TimesLeft(q, n, encoder_packet_times)
<1>1. TypeOK /\ Timed(sent)
  BY Zenon DEF IInv
<1>2. /\ UNCHANGED <<active, interleaver_max_batch_size, received, highest, offsets, hooked,
                     sessions, sent>>
      /\ Arrives(e) /\ Unwanted(p)
      /\ interleaved_packets' = Discarded(q, n) /\ encoder_packet_times' = left
  BY Zenon DEF DeliverUnwanted
<1>3. /\ next \in [Encoders -> Nat] /\ next[e] \in Nat /\ next' = [next EXCEPT ![e] = @ + 1]
      /\ next' \in [Encoders -> 0..MaxPackets + 1]
  BY <1>1, <1>2, OneMore, Zenon
<1>4. ~Started
  <2>1. p.enc \in Videos /\ ~received_video[p.enc]
    BY <1>2, Zenon DEF Unwanted, IsVideo
  <2>. QED  BY <2>1, Zenon DEF Started, Complete
<1>5. Collecting(q, encoder_packet_times, next) /\ video_offsets = Zero
  BY <1>4, Zenon DEF IInv, Consistent, Collecting
<1>6. n \in 0..Len(q)
  <2> DEFINE I == {i \in 1..Len(q) : q[i].ts >= p.ts}
  <2>1. newer = IF I # {} THEN Min(I) ELSE 0
    BY Zenon DEF SelectInSeq
  <2>2. Len(q) \in Nat
    BY <1>5 DEF Collecting, Queue
  <2>3. Ends(newer, Len(q), I)
    <3>1. I \in SUBSET (1..Len(q))
      OBVIOUS
    <3>. QED  BY <2>1, <2>2, <3>1, SearchEnds, Zenon
  <2> HIDE DEF newer
  <2>. QED  BY <2>2, <2>3 DEF Ends
<1> HIDE DEF n
<1>7. Collecting(Discarded(q, n), left, next)
  BY <1>5, <1>6, Drop, Zenon
<1> HIDE DEF left
<1> DEFINE r == Discarded(q, n)
<1> HIDE DEF r
<1>8. /\ Queue(r, next, Zero) /\ r \in Seq(Pkts) /\ left \in Times
      /\ InSystemTime(r) /\ Rising(left) /\ Matches(r, left)
  BY <1>7, Zenon DEF Collecting, Queue, r
<1>9. Collecting(r, left, next')
  <2>1. Queue(r, next', Zero)
    BY <1>3, <1>8, QueueLater, Zenon
  <2>. QED  BY <1>8, <2>1, Zenon DEF Collecting
<1>10. TypeOK'
  <2>1. \A i \in DOMAIN r : r[i].enc \in Encoders
    <3>1. \A i \in DOMAIN r : r[i] \in Pkts
      BY <1>8
    <3>. QED  BY <3>1 DEF Pkts
  <2>2. interleaved_packets' = r /\ encoder_packet_times' \in [Videos -> Seq(Int)]
    BY <1>2, <1>8, Zenon DEF r, Times
  <2>. QED  BY <1>1, <1>2, <1>3, <2>1, <2>2 DEF TypeOK, received, highest, offsets
<1>11. Timed(sent)'
  BY <1>1, <1>2, Zenon DEF Timed
<1>12. Consistent(interleaved_packets, encoder_packet_times, next, video_offsets, Started)'
  <2>1. video_offsets' = Zero /\ interleaved_packets' = r
    BY <1>2, <1>5 DEF offsets, r
  <2>2. Consistent(interleaved_packets', encoder_packet_times', next', video_offsets', Started')
    BY <1>2, <1>9, <2>1, CollectingConsistent, Zenon
  <2>. QED  BY <2>2
<1>. QED  BY <1>10, <1>11, <1>12, Zenon DEF IInv

(* interleave_packets, before the stream has started                       *)
LEMMA DeliverFirstInv ==
    ASSUME IInv, NEW e \in Encoders, DeliverFirst(e)
    PROVE  IInv'
<1> DEFINE p == Packet(e, next[e])
<1> DEFINE q == interleaved_packets
<1> DEFINE c == Collected(e, p)
<1>1. TypeOK
  BY Zenon DEF IInv
<1>2. /\ UNCHANGED <<active, interleaver_max_batch_size, hooked, sessions>>
      /\ Arrives(e) /\ ~Started
      /\ IF ~Complete(c.ra, c.rv) THEN Waits(c)
         ELSE IF Attempt(c).ok THEN Begins(Attempt(c))
         ELSE Waits(Attempt(c))
  BY Zenon DEF DeliverFirst
<1>3. /\ next \in [Encoders -> Nat] /\ next[e] \in Nat /\ next' = [next EXCEPT ![e] = @ + 1]
  BY <1>1, <1>2, OneMore, Zenon
<1>4. Collecting(q, encoder_packet_times, next)
  BY <1>2, Zenon DEF IInv, Consistent, Collecting
<1>5. /\ Collecting(Insert(q, p), WithTimes(encoder_packet_times, p), next')
  BY <1>3, <1>4, CollectInsert, Zenon
<1>6. p.enc = e
  BY <1>3, PacketIs, Zenon
<1>7. Good(c, next')
  <2>1. /\ c.q = Insert(q, p) /\ c.times = WithTimes(encoder_packet_times, p)
    BY <1>6, Zenon DEF Collected, WithTimes, IsVideo
  <2> DEFINE ra == received_audio \/ ~IsVideo(p)
  <2> DEFINE rv == IF IsVideo(p) THEN [received_video EXCEPT ![e] = TRUE] ELSE received_video
  <2> DEFINE t == IF IsVideo(p)
                  THEN [encoder_packet_times EXCEPT ![e] = Append(@, p.pts)]
                  ELSE encoder_packet_times
  <2>2. c = [q |-> Insert(q, p), times |-> t, ra |-> ra, rv |-> rv, ok |-> TRUE]
    BY Zenon DEF Collected
  <2>3. t = WithTimes(encoder_packet_times, p)
    BY <1>6, Zenon DEF WithTimes, IsVideo
  <2>4. Insert(q, p) \in Seq(Pkts) /\ t \in Times
    BY <1>5, <2>3, Zenon DEF Collecting, Queue
  <2>5. ra \in BOOLEAN
    BY Zenon
  <2>6. rv \in [Videos -> BOOLEAN]
    BY <1>1 DEF TypeOK
  <2> HIDE DEF ra, rv, t
  <2> DEFINE w == Insert(q, p)
  <2> HIDE DEF w
  <2>7. w \in Seq(Pkts) /\ c = [q |-> w, times |-> t, ra |-> ra, rv |-> rv, ok |-> TRUE]
    BY <2>2, <2>4, Zenon DEF w
  <2> HIDE DEF c
  <2>8. c \in Colls
    BY <2>4, <2>5, <2>6, <2>7 DEF Colls
  <2>. QED  BY <1>5, <2>1, <2>8, Zenon DEF Good
<1> HIDE DEF c
<1>8. CASE ~Complete(c.ra, c.rv)
  <2>1. Waits(c)
    BY <1>2, <1>8, Zenon
  <2>. QED  BY <1>2, <1>7, <2>1, WaitsInv, Zenon
<1>9. CASE Complete(c.ra, c.rv)
  <2> DEFINE d == Attempt(c)
  <2>1. Good(d, next') /\ Begun(d, c)
    BY <1>7, AttemptGood, Zenon
  <2>2. IF d.ok THEN Begins(d) ELSE Waits(d)
    BY <1>2, <1>9, Zenon
  <2> HIDE DEF d
  <2>3. CASE d.ok
    <3>1. Begins(d) /\ Complete(d.ra, d.rv) /\ \A f \in Encoders : Has(d.q, f)
      BY <1>9, <2>1, <2>2, <2>3, Zenon DEF Begun
    <3>. QED  BY <1>2, <2>1, <3>1, BeginsInv, Zenon
  <2>4. CASE ~d.ok
    <3>1. Waits(d)
      BY <2>2, <2>4, Zenon
    <3>. QED  BY <1>2, <2>1, <3>1, WaitsInv, Zenon
  <2>. QED  BY <2>3, <2>4
<1>. QED  BY <1>8, <1>9

(* interleave_packets, once the stream has started                         *)
LEMMA DeliverNextInv ==
    ASSUME IInv, NEW e \in Encoders, DeliverNext(e)
    PROVE  IInv'
<1> DEFINE out == Shifted(Packet(e, next[e]), audio_offsets, video_offsets)
<1> DEFINE ha == IF IsVideo(out) THEN highest_audio_ts ELSE Greatest({highest_audio_ts, out.ts})
<1> DEFINE hv == IF IsVideo(out) THEN [highest_video_ts EXCEPT ![e] = Greatest({@, out.ts})]
                 ELSE highest_video_ts
<1> DEFINE q == interleaved_packets
<1> DEFINE in == Collected(e, out)
<1> DEFINE c == [q |-> in.q, times |-> in.times, sent |-> sent]
<1> DEFINE n == Streamable(c.q, ha, hv)
<1> DEFINE res == IF n = 0 THEN c
                  ELSE IF n - 1 > interleaver_max_batch_size THEN Sent(Sent(c)) ELSE Sent(c)
<1>1. TypeOK /\ Timed(sent)
  BY Zenon DEF IInv
<1>2. /\ UNCHANGED <<active, interleaver_max_batch_size, received, offsets, hooked, sessions>>
      /\ Arrives(e) /\ Started
      /\ highest_audio_ts' = ha /\ highest_video_ts' = hv
      /\ interleaved_packets' = res.q /\ encoder_packet_times' = res.times
      /\ sent' = res.sent
  BY Zenon DEF DeliverNext
<1>3. /\ next \in [Encoders -> Nat] /\ next[e] \in Nat /\ next' = [next EXCEPT ![e] = @ + 1]
      /\ next' \in [Encoders -> 0..MaxPackets + 1]
  BY <1>1, <1>2, OneMore, Zenon
<1>4. /\ Queue(q, next, video_offsets) /\ encoder_packet_times \in Times
      /\ Matches(q, encoder_packet_times)
  BY Zenon DEF IInv, Consistent
<1>5. audio_offsets \in [Audios -> Int] /\ video_offsets \in [Videos -> Int]
  BY <1>1 DEF TypeOK
<1>6. /\ out \in Pkts /\ out.enc = e /\ out.n = next[e]
      /\ e \in Videos => out.pts = (out.n * Step[e]) - video_offsets[e]
  <2>1. /\ Packet(e, next[e]) \in Pkts /\ Packet(e, next[e]).enc = e
        /\ Packet(e, next[e]).n = next[e]
        /\ e \in Videos => Packet(e, next[e]).pts = next[e] * Step[e]
    BY <1>3, PacketIs, Zenon
  <2> DEFINE x == Packet(e, next[e])
  <2> HIDE DEF x
  <2>2. /\ Shifted(x, audio_offsets, video_offsets) \in Pkts
        /\ Shifted(x, audio_offsets, video_offsets).enc = x.enc
        /\ Shifted(x, audio_offsets, video_offsets).n = x.n
        /\ x.enc \in Videos =>
              Shifted(x, audio_offsets, video_offsets).pts = x.pts - video_offsets[x.enc]
    BY <1>5, <2>1, ShiftedIs, Zenon DEF x
  <2>. QED  BY <2>1, <2>2, Zenon DEF x
<1> HIDE DEF out
<1>7. /\ Queue(Insert(q, out), next', video_offsets) /\ Insert(q, out) # <<>>
      /\ WithTimes(encoder_packet_times, out) \in Times
      /\ Matches(Insert(q, out), WithTimes(encoder_packet_times, out))
  <2>1. /\ out.n = next[out.enc]
        /\ out.enc \in Videos => out.pts = (out.n * Step[out.enc]) - video_offsets[out.enc]
    BY <1>6, Zenon
  <2>2. /\ Queue(Insert(q, out), [next EXCEPT ![out.enc] = @ + 1], video_offsets)
        /\ Insert(q, out) # <<>>
    BY <1>3, <1>4, <1>6, <2>1, QueueInsert, Zenon
  <2>3. /\ WithTimes(encoder_packet_times, out) \in Times
        /\ Matches(Insert(q, out), WithTimes(encoder_packet_times, out))
    BY <1>3, <1>4, <1>5, <1>6, <2>1, MatchesInsert, Zenon
  <2>. QED  BY <1>3, <1>6, <2>2, <2>3, Zenon
<1>8. in.q = Insert(q, out) /\ in.times = WithTimes(encoder_packet_times, out)
  BY <1>6, Zenon DEF Collected, WithTimes, IsVideo
<1> HIDE DEF in
<1>9. c.q = in.q /\ c.times = in.times /\ c.sent = sent
  OBVIOUS
<1> HIDE DEF c
<1>10. Going(c, next', video_offsets) /\ c.q # <<>>
  BY <1>1, <1>7, <1>8, <1>9, Zenon DEF Going
<1>11. c.q \in Seq(Pkts) /\ Len(c.q) \in Nat \ {0}
  <2>1. c.q \in Seq(Pkts)
    BY <1>10, Zenon DEF Going, Queue
  <2>. QED  BY <1>10, <2>1
<1>12. n \in 0..Len(c.q)
  <2> DEFINE I == {i \in 1..Len(c.q) : ~HigherOpposing(c.q[i], ha, hv)}
  <2> DEFINE held == IF I # {} THEN Min(I) ELSE 0
  <2> HIDE DEF ha, hv
  <2>1. n = IF held = 0 THEN Len(c.q) ELSE held - 1
    BY Zenon DEF Streamable, SelectInSeq
  <2>2. Ends(held, Len(c.q), I)
    <3>1. I \in SUBSET (1..Len(c.q)) /\ Len(c.q) \in Nat
      BY <1>11
    <3>. QED  BY <3>1, SearchEnds, Zenon
  <2> HIDE DEF held, n
  <2>3. held \in 0..Len(c.q)
    BY <2>2, Zenon DEF Ends
  <2>. QED  BY <1>11, <2>1, <2>3
<1> HIDE DEF n
<1>13. Going(Sent(c), next', video_offsets) /\ Rest(Sent(c).q, c.q)
  BY <1>10, SentGoing, Zenon
<1>14. Going(res, next', video_offsets)
  <2>1. CASE n = 0
    <3>1. res = c
      BY <2>1, Zenon
    <3>. QED  BY <1>10, <3>1, Zenon
  <2>2. CASE n # 0 /\ n - 1 > interleaver_max_batch_size
    <3>1. res = Sent(Sent(c))
      BY <2>2, Zenon
    <3>2. Sent(c).q # <<>>
      <4>1. interleaver_max_batch_size \in Nat
        BY <1>1, Zenon DEF TypeOK
      <4>2. 1 \in 1..Len(c.q) - 1
        BY <1>11, <1>12, <2>2, <4>1
      <4>3. 1 \in DOMAIN Sent(c).q
        BY <1>13, <4>2, Zenon DEF Rest
      <4>4. DOMAIN <<>> = {}
        OBVIOUS
      <4>. QED  BY <4>3, <4>4, Zenon
    <3>3. Going(Sent(Sent(c)), next', video_offsets)
      BY <1>13, <3>2, SentGoing, Zenon
    <3>. QED  BY <3>1, <3>3, Zenon
  <2>3. CASE n # 0 /\ ~(n - 1 > interleaver_max_batch_size)
    <3>1. res = Sent(c)
      BY <2>3, Zenon
    <3>. QED  BY <1>13, <3>1, Zenon
  <2>. QED  BY <2>1, <2>2, <2>3
<1> HIDE DEF res
<1>15. /\ Queue(res.q, next', video_offsets) /\ res.q \in Seq(Pkts) /\ res.times \in Times
       /\ Matches(res.q, res.times) /\ Timed(res.sent)
  BY <1>14, Zenon DEF Going, Queue
<1>16. ha \in Int /\ hv \in [Videos -> Int]
  <2>1. out.ts \in Int /\ highest_audio_ts \in Int /\ highest_video_ts \in [Videos -> Int]
    BY <1>1, <1>6 DEF TypeOK, Pkts
  <2>2. ASSUME NEW x \in Int, NEW y \in Int PROVE Greatest({x, y}) \in Int
    <3>1. {x, y} = {x} \cup {y} /\ {y} \in SUBSET Int /\ IsFiniteSet({y})
      BY FS_Singleton
    <3>. QED  BY <3>1, GreatestType
  <2>3. Greatest({highest_audio_ts, out.ts}) \in Int
    BY <2>1, <2>2
  <2>4. e \in Videos => Greatest({highest_video_ts[e], out.ts}) \in Int
    BY <2>1, <2>2
  <2>5. IsVideo(out) => e \in Videos
    BY <1>6, Zenon DEF IsVideo
  <2>. QED  BY <2>1, <2>3, <2>4, <2>5
<1> HIDE DEF ha, hv
<1>17. TypeOK'
  <2>1. \A i \in DOMAIN res.q : res.q[i].enc \in Encoders
    <3>1. \A i \in DOMAIN res.q : res.q[i] \in Pkts
      BY <1>15
    <3>. QED  BY <3>1 DEF Pkts
  <2>2. encoder_packet_times' \in [Videos -> Seq(Int)]
    BY <1>2, <1>15, Zenon DEF Times
  <2>. QED  BY <1>1, <1>2, <1>3, <1>16, <2>1, <2>2 DEF TypeOK, received, offsets
<1>18. Timed(sent)'
  BY <1>2, <1>15, Zenon DEF Timed
<1>19. Consistent(interleaved_packets, encoder_packet_times, next, video_offsets, Started)'
  <2>1. received_audio' = received_audio /\ received_video' = received_video
        /\ video_offsets' = video_offsets
    BY <1>2 DEF received, offsets
  <2>2. Started'
    BY <1>2, <2>1, Zenon DEF Started, Complete
  <2>3. Consistent(interleaved_packets', encoder_packet_times', next', video_offsets', Started')
    BY <1>2, <1>15, <2>1, <2>2, Zenon DEF Consistent
  <2>. QED  BY <2>3
<1>. QED  BY <1>17, <1>18, <1>19, Zenon DEF IInv

(* Every step keeps the invariant.                                         *)
LEMMA NextInv ==
    ASSUME IInv, [Next]_vars
    PROVE  IInv'
<1>1. CASE Hook
  BY <1>1, HookInv
<1>2. CASE Activate
  BY <1>2, ActivateInv
<1>3. CASE EndCapture
  BY <1>3, EndCaptureInv
<1>4. ASSUME NEW e \in Encoders, StopEncoder(e) PROVE IInv'
  BY <1>4, StopEncoderInv
<1>5. ASSUME NEW e \in Encoders, DeliverEarly(e) PROVE IInv'
  BY <1>5, DeliverEarlyInv
<1>6. ASSUME NEW e \in Encoders, DeliverUnwanted(e) PROVE IInv'
  BY <1>6, DeliverUnwantedInv
<1>7. ASSUME NEW e \in Encoders, DeliverFirst(e) PROVE IInv'
  BY <1>7, DeliverFirstInv
<1>8. ASSUME NEW e \in Encoders, DeliverNext(e) PROVE IInv'
  BY <1>8, DeliverNextInv
<1>9. CASE UNCHANGED vars
  <2>1. TypeOK
    BY Zenon DEF IInv
  <2>2. TypeOK'
    BY <1>9, <2>1 DEF vars, TypeOK, received, highest, offsets, packets
  <2>. QED  BY <1>9, <2>2, StreamUnchanged DEF vars, received, offsets
<1>. QED  BY <1>1, <1>2, <1>3, <1>4, <1>5, <1>6, <1>7, <1>8, <1>9, Zenon DEF Next

(* The types of the variables.                                             *)
THEOREM TypeCorrect == Spec => []TypeOK
<1>1. IInv => TypeOK
  BY Zenon DEF IInv
<1>2. IInv /\ [Next]_vars => IInv'
  BY NextInv
<1>. QED  BY InitInv, <1>1, <1>2, PTL DEF Spec

(* encoder_packet_times runs parallel to the queue: through insertion,     *)
(* pruning, the shift to time 0, sorting and sending, every waiting video  *)
(* packet has its times, once, and send_interleaved finds them.            *)
THEOREM TimesAreKept == Spec => []TimesMatch
<1>1. IInv => TimesMatch
  BY Zenon DEF IInv, Consistent, Timed, TimesMatch
<1>2. IInv /\ [Next]_vars => IInv'
  BY NextInv
<1>. QED  BY InitInv, <1>1, <1>2, PTL DEF Spec

-----------------------------------------------------------------------------
(* The order of packets and what is between them                           *)

\* The offset of a track.
OffsetOf(e, aoff, voff) == IF e \in Videos THEN voff[e] ELSE aoff[e]

\* Packet n of encoder e in the stream.
InStream(e, n, aoff, voff) == Shifted(Packet(e, n), aoff, voff)

\* When it is due there.
Due(e, n, aoff, voff) == ((n * Step[e]) - Lead[e]) - OffsetOf(e, aoff, voff)

LEMMA InStreamIs ==
    ASSUME NEW e \in Encoders, NEW n \in Nat,
           NEW aoff \in [Audios -> Int], NEW voff \in [Videos -> Int]
    PROVE  /\ InStream(e, n, aoff, voff) \in Pkts
           /\ InStream(e, n, aoff, voff).enc = e /\ InStream(e, n, aoff, voff).n = n
           /\ InStream(e, n, aoff, voff).key = Packet(e, n).key
           /\ InStream(e, n, aoff, voff).ts = Due(e, n, aoff, voff)
<1> DEFINE p == Packet(e, n)
<1> DEFINE x == n * Step[e]
<1> DEFINE off == OffsetOf(e, aoff, voff)
<1>1. p \in Pkts /\ p.enc = e /\ p.n = n
  BY PacketIs, Zenon
<1>2. p.dts = x - Lead[e]
  BY DEF Packet
<1> HIDE DEF x
<1>3. /\ InStream(e, n, aoff, voff) \in Pkts
      /\ InStream(e, n, aoff, voff).enc = e /\ InStream(e, n, aoff, voff).n = n
  BY <1>1, ShiftedIs, Zenon DEF InStream
<1>4. Shifted(p, aoff, voff) = [p EXCEPT !.dts = @ - off, !.pts = @ - off, !.ts = p.dts - off]
  BY <1>1, Zenon DEF Shifted, IsVideo, OffsetOf
<1> HIDE DEF p, off
<1>5. Shifted(p, aoff, voff).key = p.key /\ Shifted(p, aoff, voff).ts = p.dts - off
  BY <1>1, <1>4 DEF Pkts
<1>6. InStream(e, n, aoff, voff) = Shifted(p, aoff, voff)
  BY Zenon DEF InStream, p
<1>7. Shifted(p, aoff, voff).ts = Due(e, n, aoff, voff)
  BY <1>2, <1>5, Zenon DEF Due, x, off
<1>. QED  BY <1>3, <1>5, <1>6, <1>7, Zenon DEF p

\* A later packet of a track is due later, and captured later.
LEMMA LaterIsDueLater ==
    ASSUME NEW e \in Encoders, NEW m \in Nat, NEW n \in Nat, m < n,
           NEW aoff \in [Audios -> Int], NEW voff \in [Videos -> Int]
    PROVE  /\ Due(e, m, aoff, voff) \in Int /\ Due(e, n, aoff, voff) \in Int
           /\ Due(e, m, aoff, voff) < Due(e, n, aoff, voff)
           /\ Packet(e, m).ts < Packet(e, n).ts
<1>1. Step[e] \in Nat \ {0} /\ StartTs[e] \in Nat /\ Lead[e] \in Nat
  BY StepAssumption, TimeAssumption
<1>2. OffsetOf(e, aoff, voff) \in Int
  BY DEF OffsetOf, Encoders
<1>3. m * Step[e] < n * Step[e]
  BY <1>1, StepsOrdered
<1>4. PICK a \in Int, b \in Int : a = m * Step[e] /\ b = n * Step[e]
  BY <1>1
<1>5. PICK o \in Int : o = OffsetOf(e, aoff, voff)
  BY <1>2
<1>6. /\ (a - Lead[e]) - o \in Int /\ (b - Lead[e]) - o \in Int
      /\ (a - Lead[e]) - o < (b - Lead[e]) - o
      /\ StartTs[e] + a < StartTs[e] + b
  BY <1>1, <1>3, <1>4, <1>5
<1>7. Packet(e, m).ts = StartTs[e] + a /\ Packet(e, n).ts = StartTs[e] + b
  BY <1>4, PacketIs, Zenon
<1>8. Due(e, m, aoff, voff) = (a - Lead[e]) - o /\ Due(e, n, aoff, voff) = (b - Lead[e]) - o
  BY <1>4, <1>5, Zenon DEF Due
<1>. QED  BY <1>6, <1>7, <1>8, Zenon

\* The packets of a track are in order.
Ordered(q) ==
    \A i, j \in DOMAIN q : q[i].enc = q[j].enc /\ q[i].n < q[j].n => i < j

\* From each packet in the queue on, it has all of its track.
UpToDate(q, nx) ==
    \A i \in DOMAIN q : \A m \in Nat : q[i].n <= m /\ m < nx[q[i].enc] =>
        \E j \in DOMAIN q : q[j].enc = q[i].enc /\ q[j].n = m

Sorted(q) == \A i, j \in DOMAIN q : i < j => q[i].ts <= q[j].ts

\* The timestamps follow the numbers of the packets.
Timely(q) ==
    \A i, j \in DOMAIN q : q[i].enc = q[j].enc /\ q[i].n < q[j].n => q[i].ts < q[j].ts

LEMMA SortedIsOrdered ==
    ASSUME NEW q \in Seq(Pkts), Sorted(q), Timely(q)
    PROVE  Ordered(q)
<1> SUFFICES ASSUME NEW i \in DOMAIN q, NEW j \in DOMAIN q, q[i].enc = q[j].enc, q[i].n < q[j].n
             PROVE  i < j
  BY DEF Ordered
<1>0. DOMAIN q = 1..Len(q) /\ Len(q) \in Nat /\ q[i] \in Pkts /\ q[j] \in Pkts
  OBVIOUS
<1>1. PICK a \in Int, b \in Int : a = q[i].ts /\ b = q[j].ts
  BY <1>0 DEF Pkts
<1>2. a < b
  BY <1>1, Zenon DEF Timely
<1>3. CASE i = j
  <2>1. a = b
    BY <1>1, <1>3, Zenon
  <2>. QED  BY <1>2, <2>1
<1>4. CASE j < i
  <2>1. b <= a
    BY <1>1, <1>4, Zenon DEF Sorted
  <2>. QED  BY <1>2, <2>1
<1>. QED  BY <1>0, <1>3, <1>4

LEMMA HasIs ==
    ASSUME NEW q \in Seq(Pkts), NEW e
    PROVE  /\ Has(q, e) <=> \E i \in DOMAIN q : q[i].enc = e
           /\ Has(q, e) => /\ FirstIdx(q, e) \in DOMAIN q /\ First(q, e) = q[FirstIdx(q, e)]
                           /\ \A i \in DOMAIN q : q[i].enc = e => FirstIdx(q, e) <= i
<1> DEFINE I == {i \in 1..Len(q) : q[i].enc = e}
<1> DEFINE k == IF I # {} THEN Min(I) ELSE 0
<1>0. Len(q) \in Nat /\ DOMAIN q = 1..Len(q)
  OBVIOUS
<1>1. FirstIdx(q, e) = k
  BY Zenon DEF FirstIdx, SelectInSeq
<1>2. I \in SUBSET (1..Len(q)) /\ \A i \in DOMAIN q : q[i].enc = e <=> i \in I
  BY <1>0
<1>3. Ends(k, Len(q), I)
  BY <1>0, <1>2, SearchEnds, Zenon
<1>4. I # {} => k \in I /\ \A i \in I : k <= i
  <2> HIDE DEF I
  <2>1. I # {} => Min(I) \in I /\ \A i \in I : Min(I) <= i
    BY <1>0, <1>2, MinInSet, Zenon
  <2>. QED  BY <2>1, Zenon
<1> HIDE DEF k, I
<1>5. k # 0 <=> I # {}
  BY <1>3, Zenon DEF Ends
<1>6. Has(q, e) <=> I # {}
  BY <1>1, <1>5, Zenon DEF Has
<1>7. Has(q, e) <=> \E i \in DOMAIN q : q[i].enc = e
  <2>1. \A i : i \in I => i \in DOMAIN q /\ q[i].enc = e
    BY <1>0, Zenon DEF I
  <2>. QED  BY <1>2, <1>6, <2>1
<1>8. Has(q, e) => k \in DOMAIN q /\ \A i \in DOMAIN q : q[i].enc = e => k <= i
  BY <1>0, <1>2, <1>4, <1>6, Zenon
<1>9. First(q, e) = q[k] /\ FirstIdx(q, e) = k
  BY <1>1, Zenon DEF First
<1>. QED  BY <1>7, <1>8, <1>9, Zenon

\* r is what is left of q behind its first n packets.
Behind(r, q, n) ==
    r \in Seq(Pkts) /\ DOMAIN r = 1..Len(q) - n /\ \A i \in DOMAIN r : i + n \in DOMAIN q /\ r[i] = q[i + n]

LEMMA DiscardedIs ==
    ASSUME NEW q \in Seq(Pkts), NEW n \in 0..Len(q)
    PROVE  Behind(Discarded(q, n), q, n)
<1> DEFINE r == SubSeq(q, n + 1, Len(q))
<1>0. Len(q) \in Nat /\ n \in Nat /\ n <= Len(q) /\ n + 1 \in 1..Len(q) + 1 /\ DOMAIN q = 1..Len(q)
  OBVIOUS
<1>1. /\ r \in Seq(Pkts) /\ Len(r) = (Len(q) - (n + 1)) + 1
      /\ \A i \in 1..(Len(q) - (n + 1)) + 1 : r[i] = q[(i + (n + 1)) - 1]
  BY <1>0, SuffixIs, Zenon
<1> HIDE DEF r
<1>2. (Len(q) - (n + 1)) + 1 = Len(q) - n
      /\ \A i \in 1..Len(q) - n : (i + (n + 1)) - 1 = i + n /\ i + n \in 1..Len(q)
  BY <1>0
<1>3. DOMAIN r = 1..Len(q) - n
  BY <1>1, <1>2
<1>4. \A i \in 1..Len(q) - n : i + n \in DOMAIN q /\ r[i] = q[i + n]
  BY <1>0, <1>1, <1>2, Zenon
<1>5. Discarded(q, n) = r
  BY Zenon DEF Discarded, r
<1>. QED  BY <1>1, <1>3, <1>4, <1>5, Zenon DEF Behind

\* The packets that are left are as they were, and up to date.
LEMMA BehindKeeps ==
    ASSUME NEW q \in Seq(Pkts), NEW n \in 0..Len(q), NEW r, Behind(r, q, n), NEW nx,
           Ordered(q), UpToDate(q, nx)
    PROVE  UpToDate(r, nx) /\ \A i \in DOMAIN r : \E j \in DOMAIN q : r[i] = q[j]
<1>0. Len(q) \in Nat /\ n \in Nat /\ DOMAIN q = 1..Len(q)
  OBVIOUS
<1>1. DOMAIN r = 1..Len(q) - n /\ \A i \in DOMAIN r : i + n \in DOMAIN q /\ r[i] = q[i + n]
  BY Zenon DEF Behind
<1>2. ASSUME NEW i \in DOMAIN r, NEW m \in Nat, r[i].n <= m, m < nx[r[i].enc]
      PROVE  \E j \in DOMAIN r : r[j].enc = r[i].enc /\ r[j].n = m
  <2>1. PICK k : k = i + n /\ k \in DOMAIN q /\ r[i] = q[k]
    BY <1>1
  <2>2. q[k].n <= m /\ m < nx[q[k].enc]
    BY <1>2, <2>1, Zenon
  <2>3. PICK j \in DOMAIN q : q[j].enc = q[k].enc /\ q[j].n = m
    BY <2>1, <2>2, Zenon DEF UpToDate
  <2>4. q[k].n \in Nat
    <3>1. q[k] \in Pkts
      BY <2>1
    <3>. QED  BY <3>1 DEF Pkts
  <2>5. CASE q[k].n = m
    BY <2>1, <2>5, Zenon
  <2>6. CASE q[k].n # m
    <3>1. q[k].n < m
      BY <2>2, <2>4, <2>6
    <3>2. k < j
      BY <2>1, <2>3, <3>1, Zenon DEF Ordered
    <3>3. PICK l : l = j - n
      OBVIOUS
    <3>4. l \in DOMAIN r /\ l + n = j
      BY <1>0, <1>1, <2>1, <2>3, <3>2, <3>3
    <3>5. r[l] = q[j]
      BY <1>1, <3>4, Zenon
    <3>. QED  BY <2>1, <2>3, <3>4, <3>5, Zenon
  <2>. QED  BY <2>5, <2>6
<1>3. UpToDate(r, nx)
  BY <1>2, Zenon DEF UpToDate
<1>. QED  BY <1>1, <1>3, Zenon

(* The next packet of a track leaves no gap.                               *)
LEMMA PutUpToDate ==
    ASSUME NEW q, NEW nx \in [Encoders -> Nat], UpToDate(q, nx), NEW p \in Pkts, p.n = nx[p.enc],
           NEW r, NEW k, Put(r, q, p, k)
    PROVE  UpToDate(r, [nx EXCEPT ![p.enc] = @ + 1])
<1> DEFINE more == [nx EXCEPT ![p.enc] = @ + 1]
<1>0. p.enc \in Encoders /\ nx[p.enc] \in Nat
  BY DEF Pkts
<1>1. /\ k \in DOMAIN r /\ r[k] = p /\ r \in Seq(Pkts)
      /\ \A i \in DOMAIN r \ {k} : Old(i, k) \in DOMAIN q /\ r[i] = q[Old(i, k)]
      /\ \A j \in DOMAIN q : \E i \in DOMAIN r \ {k} : r[i] = q[j]
  BY Zenon DEF Put
<1>2. more[p.enc] = p.n + 1 /\ \A e \in Encoders : e # p.enc => more[e] = nx[e]
  BY <1>0
<1> HIDE DEF more
<1>3. ASSUME NEW i \in DOMAIN r, NEW m \in Nat, r[i].n <= m, m < more[r[i].enc]
      PROVE  \E j \in DOMAIN r : r[j].enc = r[i].enc /\ r[j].n = m
  <2>0. r[i].enc \in Encoders
    <3>1. r[i] \in Pkts
      BY <1>1
    <3>. QED  BY <3>1 DEF Pkts
  <2>1. CASE r[i].enc = p.enc /\ m = p.n
    BY <1>1, <2>1, Zenon
  <2>2. CASE ~(r[i].enc = p.enc /\ m = p.n)
    <3>1. m < nx[r[i].enc]
      <4>1. CASE r[i].enc = p.enc
        <5>1. m < p.n + 1 /\ m # p.n
          BY <1>2, <1>3, <2>2, <4>1, Zenon
        <5>2. p.n \in Nat
          BY DEF Pkts
        <5>3. m < p.n
          BY <5>1, <5>2
        <5>. QED  BY <4>1, <5>3, Zenon
      <4>2. CASE r[i].enc # p.enc
        BY <1>2, <1>3, <2>0, <4>2, Zenon
      <4>. QED  BY <4>1, <4>2
    <3>2. i # k
      <4> SUFFICES ASSUME i = k PROVE FALSE
        OBVIOUS
      <4>1. r[i] = p
        BY <1>1, Zenon
      <4>2. p.n <= m /\ m < p.n
        BY <1>3, <3>1, <4>1, Zenon
      <4>. QED  BY <1>0, <4>2
    <3>3. PICK o \in DOMAIN q : r[i] = q[o]
      BY <1>1, <3>2, Zenon
    <3>4. PICK j \in DOMAIN q : q[j].enc = q[o].enc /\ q[j].n = m
      <4>1. q[o].n <= m /\ m < nx[q[o].enc]
        BY <1>3, <3>1, <3>3, Zenon
      <4>. QED  BY <4>1, Zenon DEF UpToDate
    <3>5. PICK l \in DOMAIN r : r[l] = q[j]
      BY <1>1, Zenon
    <3>. QED  BY <3>3, <3>4, <3>5, Zenon
  <2>. QED  BY <2>1, <2>2
<1>4. UpToDate(r, more)
  BY <1>3, Zenon DEF UpToDate
<1>. QED  BY <1>4, Zenon DEF more

-----------------------------------------------------------------------------
(* What has been collected is as the encoders made it                      *)

Encoded(q) == \A i \in DOMAIN q : q[i] = Packet(q[i].enc, q[i].n)

LEMMA EncodedOrdered ==
    ASSUME NEW q \in Seq(Pkts), Encoded(q), Sorted(q)
    PROVE  Ordered(q)
<1>1. ASSUME NEW i \in DOMAIN q, NEW j \in DOMAIN q, q[i].enc = q[j].enc, q[i].n < q[j].n
      PROVE  q[i].ts < q[j].ts
  <2>1. q[i] \in Pkts /\ q[j] \in Pkts
    OBVIOUS
  <2>2. PICK e \in Encoders, m \in Nat, n \in Nat :
            /\ e = q[i].enc /\ m = q[i].n /\ n = q[j].n
    BY <2>1 DEF Pkts
  <2>3. m < n /\ q[i] = Packet(e, m) /\ q[j] = Packet(e, n)
    BY <1>1, <2>2, Zenon DEF Encoded
  <2>4. PICK a \in [Audios -> Int], b \in [Videos -> Int] : TRUE
    <3>1. [x \in Audios |-> 0] \in [Audios -> Int] /\ [x \in Videos |-> 0] \in [Videos -> Int]
      OBVIOUS
    <3>. QED  BY <3>1
  <2>5. Packet(e, m).ts < Packet(e, n).ts
    BY <2>3, <2>4, LaterIsDueLater
  <2>. QED  BY <2>3, <2>5, Zenon
<1>2. Timely(q)
  BY <1>1, Zenon DEF Timely
<1>. QED  BY <1>2, SortedIsOrdered, Zenon

\* Collected packets, complete up to the latest ones, and the tracks that have
\* not been received.
Fit(c, nx) ==
    /\ Good(c, nx) /\ Encoded(c.q) /\ UpToDate(c.q, nx)
    /\ \A v \in Videos : ~c.rv[v] => ~Has(c.q, v)

LEMMA FitQueue ==
    ASSUME NEW c, NEW nx, Fit(c, nx)
    PROVE  /\ c \in Colls /\ c.q \in Seq(Pkts) /\ Ordered(c.q) /\ Sorted(c.q)
           /\ Encoded(c.q) /\ UpToDate(c.q, nx) /\ Good(c, nx)
           /\ \A v \in Videos : ~c.rv[v] => ~Has(c.q, v)
<1>1. /\ Good(c, nx) /\ Encoded(c.q) /\ UpToDate(c.q, nx)
      /\ \A v \in Videos : ~c.rv[v] => ~Has(c.q, v)
  BY Zenon DEF Fit
<1>2. c \in Colls /\ InSystemTime(c.q) /\ c.q \in Seq(Pkts)
  BY <1>1, Zenon DEF Good, Collecting, Queue
<1>3. Sorted(c.q)
  BY <1>2, Zenon DEF InSystemTime, Sorted
<1>4. Ordered(c.q)
  BY <1>1, <1>2, <1>3, EncodedOrdered, Zenon
<1>. QED  BY <1>1, <1>2, <1>3, <1>4

\* The first packets of a queue go.
LEMMA LeftEncoded ==
    ASSUME NEW q \in Seq(Pkts), NEW nx, Encoded(q), Sorted(q), UpToDate(q, nx), NEW n \in 0..Len(q)
    PROVE  /\ Encoded(Discarded(q, n)) /\ UpToDate(Discarded(q, n), nx)
           /\ \A e : Has(Discarded(q, n), e) => Has(q, e)
<1> DEFINE r == Discarded(q, n)
<1>1. Behind(r, q, n)
  BY DiscardedIs, Zenon
<1>2. Ordered(q)
  BY EncodedOrdered, Zenon
<1> HIDE DEF r
<1>3. UpToDate(r, nx) /\ \A i \in DOMAIN r : \E j \in DOMAIN q : r[i] = q[j]
  BY <1>1, <1>2, BehindKeeps
<1>4. Encoded(r)
  BY <1>3, Zenon DEF Encoded
<1>5. r \in Seq(Pkts)
  BY <1>1, Zenon DEF Behind
<1>6. ASSUME NEW e, Has(r, e) PROVE Has(q, e)
  <2>1. PICK i \in DOMAIN r : r[i].enc = e
    BY <1>5, <1>6, HasIs, Zenon
  <2>2. PICK j \in DOMAIN q : r[i] = q[j]
    BY <1>3, Zenon
  <2>. QED  BY <2>1, <2>2, HasIs, Zenon
<1>. QED  BY <1>3, <1>4, <1>6, Zenon DEF r

LEMMA WithoutFit ==
    ASSUME NEW c, NEW nx, Fit(c, nx), NEW n \in 0..Len(c.q)
    PROVE  Fit(Without(c, n), nx)
<1> DEFINE d == Without(c, n)
<1>1. /\ c \in Colls /\ c.q \in Seq(Pkts) /\ Sorted(c.q) /\ Encoded(c.q) /\ UpToDate(c.q, nx)
      /\ Good(c, nx) /\ \A v \in Videos : ~c.rv[v] => ~Has(c.q, v)
  BY FitQueue, Zenon
<1>2. Good(d, nx) /\ d.rv = c.rv
  BY <1>1, WithoutGood, Zenon
<1>3. d.q = Discarded(c.q, n)
  BY <1>1 DEF Without, Colls
<1> HIDE DEF d
<1>4. /\ Encoded(d.q) /\ UpToDate(d.q, nx) /\ \A e : Has(d.q, e) => Has(c.q, e)
  BY <1>1, <1>3, LeftEncoded, Zenon
<1>5. Fit(d, nx)
  BY <1>1, <1>2, <1>4, Zenon DEF Fit
<1>. QED  BY <1>5, Zenon DEF d

\* A record with the same packets, in which no track that has any is marked as
\* not received.
LEMMA SameFit ==
    ASSUME NEW c, NEW nx, Fit(c, nx), NEW d, Good(d, nx), d.q = c.q,
           \A v \in Videos : ~d.rv[v] => ~c.rv[v] \/ ~Has(c.q, v)
    PROVE  Fit(d, nx)
BY Zenon DEF Fit

LEMMA NotYetFit ==
    ASSUME NEW c, NEW nx, Fit(c, nx)
    PROVE  /\ Fit(NoAudio(c), nx) /\ ~NoAudio(c).ok /\ ~NoAudio(c).ra /\ NoAudio(c).rv = c.rv
           /\ NoAudio(c).q = c.q
           /\ Fit([c EXCEPT !.ok = FALSE], nx) /\ ~[c EXCEPT !.ok = FALSE].ok
           /\ \A v \in Videos : ~Has(c.q, v) =>
                 /\ Fit([c EXCEPT !.rv[v] = FALSE, !.ok = FALSE], nx)
                 /\ ~[c EXCEPT !.rv[v] = FALSE, !.ok = FALSE].ok
                 /\ ~[c EXCEPT !.rv[v] = FALSE, !.ok = FALSE].rv[v]
<1>1. Good(c, nx) /\ c \in Colls
  BY Zenon DEF Fit, Good
<1>2. /\ Good(NoAudio(c), nx) /\ ~NoAudio(c).ok
      /\ Good([c EXCEPT !.ok = FALSE], nx) /\ ~[c EXCEPT !.ok = FALSE].ok
      /\ \A v : Good([c EXCEPT !.rv[v] = FALSE, !.ok = FALSE], nx)
                /\ ~[c EXCEPT !.rv[v] = FALSE, !.ok = FALSE].ok
  BY <1>1, NotYet
<1>3. ~NoAudio(c).ra /\ NoAudio(c).rv = c.rv /\ NoAudio(c).q = c.q
  BY <1>1 DEF NoAudio, Colls
<1>4. [c EXCEPT !.ok = FALSE].q = c.q /\ [c EXCEPT !.ok = FALSE].rv = c.rv
  BY <1>1 DEF Colls
<1>5. Fit(NoAudio(c), nx)
  BY <1>2, <1>3, SameFit, Zenon
<1>6. Fit([c EXCEPT !.ok = FALSE], nx)
  BY <1>2, <1>4, SameFit, Zenon
<1>7. ASSUME NEW v \in Videos, ~Has(c.q, v)
      PROVE  /\ Fit([c EXCEPT !.rv[v] = FALSE, !.ok = FALSE], nx)
             /\ ~[c EXCEPT !.rv[v] = FALSE, !.ok = FALSE].rv[v]
  <2> DEFINE e == [c EXCEPT !.rv[v] = FALSE, !.ok = FALSE]
  <2> DEFINE rv == [c.rv EXCEPT ![v] = FALSE]
  <2>1. c.rv \in [Videos -> BOOLEAN]
    BY <1>1 DEF Colls
  <2>2. ~rv[v] /\ \A w \in Videos : w # v => rv[w] = c.rv[w]
    BY <2>1
  <2>3. e = [c EXCEPT !.rv = rv, !.ok = FALSE]
    OBVIOUS
  <2> HIDE DEF rv
  <2>4. e.q = c.q /\ e.rv = rv
    BY <1>1, <2>3 DEF Colls
  <2>5. Good(e, nx)
    BY <1>2, Zenon
  <2> HIDE DEF e
  <2>6. \A w \in Videos : ~e.rv[w] => ~c.rv[w] \/ ~Has(c.q, w)
    BY <1>7, <2>2, <2>4, Zenon
  <2>7. Fit(e, nx)
    BY <2>4, <2>5, <2>6, SameFit, Zenon
  <2>. QED  BY <2>2, <2>4, <2>7, Zenon DEF e
<1>. QED  BY <1>2, <1>3, <1>5, <1>6, <1>7, Zenon

\* With video track 0 only: the flags say what is there, and an attempt that
\* fails has to wait for a track.
Told(c) == c.rv[Video(0)] => Has(c.q, Video(0))
Retries(c) == ~c.ok => Told(c) /\ ~Complete(c.ra, c.rv)

LEMMA OneVideoFirst ==
    ASSUME VideoTracks = {0}
    PROVE  Videos = {Video(0)} /\ \A S \in SUBSET VideoTracks : S # {} => Least(S) = 0
<1>1. Videos = {Video(0)}
  BY DEF Videos
<1>2. ASSUME NEW S \in SUBSET VideoTracks, S # {} PROVE Least(S) = 0
  <2>1. S = {0}
    BY <1>2
  <2>. QED  BY <2>1 DEF Least
<1>. QED  BY <1>1, <1>2

LEMMA AllThereFit ==
    ASSUME NEW c, NEW nx, Fit(c, nx), c.ok
    PROVE  Fit(AllThere(c), nx) /\ (VideoTracks = {0} => Retries(AllThere(c)))
<1> DEFINE missing == {i \in VideoTracks : ~Has(c.q, Video(i))}
<1>1. CASE missing # {}
  <2>1. AllThere(c) = [c EXCEPT !.rv[Video(Least(missing))] = FALSE, !.ok = FALSE]
    BY <1>1, Zenon DEF AllThere
  <2>2. Least(missing) \in missing
    <3>1. missing \in SUBSET VideoTracks /\ VideoTracks \in SUBSET Int /\ IsFiniteSet(missing)
      BY TracksAssumption, FS_Subset
    <3> HIDE DEF missing
    <3>. QED  BY <1>1, <3>1, LeastInSet
  <2>3. PICK l : l = Least(missing) /\ l \in VideoTracks /\ ~Has(c.q, Video(l))
    BY <2>2
  <2>4. Video(l) \in Videos
    BY <2>3, Zenon DEF Videos
  <2> DEFINE v == Video(l)
  <2> DEFINE d == [c EXCEPT !.rv[v] = FALSE, !.ok = FALSE]
  <2>a. v \in Videos /\ ~Has(c.q, v)
    BY <2>3, <2>4
  <2> HIDE DEF v
  <2>b. \A w \in Videos : ~Has(c.q, w) =>
                 /\ Fit([c EXCEPT !.rv[w] = FALSE, !.ok = FALSE], nx)
                 /\ ~[c EXCEPT !.rv[w] = FALSE, !.ok = FALSE].ok
                 /\ ~[c EXCEPT !.rv[w] = FALSE, !.ok = FALSE].rv[w]
    BY NotYetFit, Zenon
  <2>c. Fit(d, nx) /\ ~d.ok /\ ~d.rv[v]
    BY <2>a, <2>b, Zenon
  <2>d. AllThere(c) = d
    BY <2>1, <2>3, Zenon DEF v
  <2> HIDE DEF d
  <2>5. Fit(AllThere(c), nx) /\ ~AllThere(c).ok /\ ~AllThere(c).rv[Video(l)]
    BY <2>c, <2>d, Zenon DEF v
  <2>6. VideoTracks = {0} => l = 0
    BY <2>3
  <2>. QED  BY <2>4, <2>5, <2>6, Zenon DEF Retries, Told, Complete
<1>2. CASE missing = {} /\ \A a \in Audios : Has(c.q, a)
  <2>1. AllThere(c) = c
    BY <1>2, Zenon DEF AllThere
  <2>. QED  BY <2>1, Zenon DEF Retries
<1>3. CASE missing = {} /\ ~(\A a \in Audios : Has(c.q, a))
  <2>1. AllThere(c) = NoAudio(c)
    BY <1>3, Zenon DEF AllThere
  <2>a. Fit(NoAudio(c), nx) /\ ~NoAudio(c).ra /\ NoAudio(c).q = c.q
    BY NotYetFit, Zenon
  <2>2. Fit(AllThere(c), nx) /\ ~AllThere(c).ra /\ AllThere(c).q = c.q
    BY <2>1, <2>a
  <2>3. Has(c.q, Video(0))
    BY <1>3, TracksAssumption, Zenon
  <2>. QED  BY <2>2, <2>3, Zenon DEF Retries, Told, Complete
<1>. QED  BY <1>1, <1>2, <1>3

LEMMA StartFit ==
    ASSUME NEW c, NEW nx, Fit(c, nx), Has(c.q, Video(0)), \A a \in Audios : Has(c.q, a)
    PROVE  Fit(Without(c, StartIdx(c.q) - 1), nx)
<1>1. c.q \in Seq(Pkts)
  BY FitQueue, Zenon
<1>2. StartIdx(c.q) \in 1..Len(c.q)
  BY <1>1, StartIdxIn, Zenon
<1>3. StartIdx(c.q) - 1 \in 0..Len(c.q)
  BY <1>2
<1>. QED  BY <1>3, WithoutFit, Zenon

LEMMA InitializedFit ==
    ASSUME NEW c, NEW nx, Fit(c, nx), c.ok
    PROVE  Fit(Initialized(c), nx) /\ (VideoTracks = {0} => Retries(Initialized(c)))
<1>0. Good(c, nx)
  BY FitQueue, Zenon
<1>1. CASE ~AllThere(c).ok
  <2>1. Initialized(c) = AllThere(c)
    BY <1>1, Zenon DEF Initialized
  <2>. QED  BY <2>1, AllThereFit
<1>2. CASE AllThere(c).ok
  <2>1. \A e \in Encoders : Has(c.q, e)
    BY <1>0, <1>2, AllThereGood, Zenon DEF Begun
  <2>2. Has(c.q, Video(0)) /\ \A a \in Audios : Has(c.q, a)
    BY <2>1, EncodersAreFinite, Zenon DEF Encoders
  <2> DEFINE d == Without(c, StartIdx(c.q) - 1)
  <2>3. Fit(d, nx)
    BY <2>2, StartFit, Zenon
  <2>4. d.ok
    BY <1>0 DEF Without, Good, Colls
  <2>5. Initialized(c) = NoAudio(c) \/ Initialized(c) = AllThere(d)
    BY <1>2, Zenon DEF Initialized
  <2> HIDE DEF d
  <2>6. CASE Initialized(c) = NoAudio(c)
    <3>1. Fit(NoAudio(c), nx) /\ ~NoAudio(c).ra /\ NoAudio(c).q = c.q
      BY NotYetFit, Zenon
    <3>2. Fit(Initialized(c), nx) /\ ~Initialized(c).ra /\ Initialized(c).q = c.q
      BY <2>6, <3>1
    <3>. QED  BY <2>2, <3>2, Zenon DEF Retries, Told, Complete
  <2>7. CASE Initialized(c) = AllThere(d)
    BY <2>3, <2>4, <2>7, AllThereFit
  <2>. QED  BY <2>5, <2>6, <2>7
<1>. QED  BY <1>1, <1>2

\* With one video track that is there the beginning of the stream is found, or
\* a track has to be waited for.
LEMMA AttemptFit ==
    ASSUME NEW c, NEW nx, Fit(c, nx), c.ok
    PROVE  /\ Fit(Attempt(c), nx)
           /\ VideoTracks = {0} /\ Has(c.q, Video(0)) => Retries(Attempt(c))
<1>0. Good(c, nx) /\ c.q \in Seq(Pkts)
  BY FitQueue, Zenon
<1>1. CASE ~Has(c.q, Video(0))
  <2>1. Attempt(c) = [c EXCEPT !.ok = FALSE]
    BY <1>1, Zenon DEF Attempt
  <2>2. Fit([c EXCEPT !.ok = FALSE], nx)
    BY NotYetFit, Zenon
  <2>. QED  BY <1>1, <2>1, <2>2
<1>2. CASE Has(c.q, Video(0)) /\ \E a \in Audios : ~Has(c.q, a)
  <2>1. Attempt(c) = NoAudio(c)
    BY <1>2, Zenon DEF Attempt
  <2>2. Fit(NoAudio(c), nx) /\ ~NoAudio(c).ra /\ NoAudio(c).q = c.q
    BY NotYetFit, Zenon
  <2>3. Fit(Attempt(c), nx) /\ ~Attempt(c).ra /\ Attempt(c).q = c.q
    BY <2>1, <2>2
  <2>. QED  BY <1>2, <2>3, Zenon DEF Retries, Told, Complete
<1>3. CASE Has(c.q, Video(0)) /\ \A a \in Audios : Has(c.q, a)
  <2> DEFINE n == IF Premature(c.q) # 0 THEN Premature(c.q) ELSE StartIdx(c.q) - 1
  <2> DEFINE d == Without(c, n)
  <2>1. Attempt(c) = Initialized(d)
    BY <1>3, Zenon DEF Attempt
  <2>2. n \in 0..Len(c.q)
    <3>1. CASE Premature(c.q) # 0
      BY <1>0, <3>1, PrematureIn, Zenon
    <3>2. CASE Premature(c.q) = 0
      <4>1. StartIdx(c.q) \in 1..Len(c.q)
        BY <1>0, <1>3, StartIdxIn, Zenon
      <4>2. StartIdx(c.q) - 1 \in 0..Len(c.q)
        BY <4>1
      <4>. QED  BY <3>2, <4>2, Zenon
    <3>. QED  BY <3>1, <3>2
  <2> HIDE DEF n
  <2>3. Fit(d, nx)
    BY <2>2, WithoutFit, Zenon
  <2>4. d.ok
    BY <1>0 DEF Without, Good, Colls
  <2> HIDE DEF d
  <2>5. Fit(Initialized(d), nx) /\ (VideoTracks = {0} => Retries(Initialized(d)))
    BY <2>3, <2>4, InitializedFit, Zenon
  <2>. QED  BY <2>1, <2>5
<1>. QED  BY <1>1, <1>2, <1>3

\* The queues that the loop of resort_interleaved_packets goes through.
ResortLoop(new, q) ==
    new[0] = <<>> /\ \A i \in 1..Len(q) : new[i] = Insert(new[i - 1], q[i])

LEMMA ResortedSteps ==
    ASSUME NEW q \in Seq(Pkts)
    PROVE  \E new : ResortLoop(new, q) /\ Resorted(q) = new[Len(q)]
<1> DEFINE n == Len(q)
<1> DEFINE X == Seq(Pkts)
<1> DEFINE in(i, x) == Insert(x, q[i])
<1> DEFINE Eq(f) == f = [i \in 0..n |-> IF i = 0 THEN <<>> ELSE in(i, f[i - 1])]
<1> DEFINE new == CHOOSE f : Eq(f)
<1> DEFINE step == [i \in 1..n |-> [x \in X |-> in(i, x)]]
<1>0. n \in Nat /\ <<>> \in X /\ \A i \in 1..n : q[i] \in Pkts
  OBVIOUS
<1>1. Resorted(q) = new[n]
  BY Zenon DEF Resorted
<1>2. ASSUME NEW i \in 1..n, NEW x \in X PROVE in(i, x) \in X
  <2>1. PICK k : Put(Insert(x, q[i]), x, q[i], k)
    BY <1>0, <1>2, InsertPuts, Zenon
  <2>. QED  BY <2>1, Zenon DEF Put
<1> HIDE DEF in, X
<1>3. step \in [1..n -> [X -> X]] /\ \A i \in 1..n, x \in X : step[i][x] = in(i, x)
  BY <1>2
<1> HIDE DEF step, n
<1>4. PICK f : Solves(f, n, X, <<>>, step)
  BY <1>0, <1>3, RecursionHasSolution
<1>5. f \in [0..n -> X] /\ f[0] = <<>> /\ \A i \in 1..n : f[i] = in(i, f[i - 1])
  <2>1. f \in [0..n -> X] /\ f[0] = <<>> /\ \A i \in 1..n : f[i] = step[i][f[i - 1]]
    BY <1>4, Zenon DEF Solves
  <2>2. \A i \in 1..n : f[i - 1] \in X
    BY <1>0, <2>1
  <2>. QED  BY <1>3, <2>1, <2>2, Zenon
<1>6. Eq(f)
  <2>1. \A i \in 0..n : f[i] = IF i = 0 THEN <<>> ELSE in(i, f[i - 1])
    <3>1. \A i \in 0..n : i # 0 => i \in 1..n
      BY <1>0
    <3>. QED  BY <1>5, <3>1, Zenon
  <2>2. f = [i \in 0..n |-> f[i]]
    BY <1>5
  <2>. QED  BY <2>1, <2>2
<1>7. Eq(new)
  <2> HIDE DEF Eq
  <2>. QED  BY <1>6, Zenon
<1> HIDE DEF new
<1>8. new[0] = <<>> /\ \A i \in 1..n : new[i] = in(i, new[i - 1])
  <2>1. 0 \in 0..n /\ \A i \in 1..n : i \in 0..n /\ i # 0
    BY <1>0
  <2>. QED  BY <1>7, <2>1
<1>9. ResortLoop(new, q)
  BY <1>8, Zenon DEF ResortLoop, n, in
<1>. QED  BY <1>1, <1>9, Zenon DEF n

(* resort_interleaved_packets sorts the queue.                             *)
LEMMA ResortedSorted ==
    ASSUME NEW q \in Seq(Pkts)
    PROVE  Sorted(Resorted(q))
<1> DEFINE n == Len(q)
<1>0. n \in Nat /\ \A i \in 1..n : q[i] \in Pkts
  OBVIOUS
<1>1. PICK new : ResortLoop(new, q) /\ Resorted(q) = new[n]
  BY ResortedSteps, Zenon
<1>2. new[0] = <<>> /\ \A i \in 1..n : new[i] = Insert(new[i - 1], q[i])
  BY <1>1, Zenon DEF ResortLoop
<1> HIDE DEF n
<1> DEFINE S == {i \in 0..n : new[i] \in Seq(Pkts) /\ Sorted(new[i])}
<1>3. 0 \in S
  <2>1. <<>> \in Seq(Pkts) /\ Sorted(<<>>)
    BY DEF Sorted
  <2>2. 0 \in 0..n
    BY <1>0
  <2>. QED  BY <1>2, <2>1, <2>2, Zenon
<1>4. ASSUME NEW i \in 0..n - 1, i \in S PROVE i + 1 \in S
  <2>1. i + 1 \in 1..n /\ i + 1 \in 0..n /\ (i + 1) - 1 = i
    BY <1>0
  <2>2. new[i + 1] = Insert(new[i], q[i + 1]) /\ q[i + 1] \in Pkts
    BY <1>0, <1>2, <2>1, Zenon
  <2>3. new[i] \in Seq(Pkts) /\ Sorted(new[i])
    BY <1>4, Zenon
  <2>4. Sorted(Insert(new[i], q[i + 1]))
    BY <2>2, <2>3, InsertSorted, Zenon DEF Sorted
  <2>5. Insert(new[i], q[i + 1]) \in Seq(Pkts)
    <3>1. PICK k : Put(Insert(new[i], q[i + 1]), new[i], q[i + 1], k)
      BY <2>2, <2>3, InsertPuts, Zenon
    <3>. QED  BY <3>1, Zenon DEF Put
  <2>. QED  BY <2>1, <2>2, <2>4, <2>5
<1>5. n \in S
  <2> HIDE DEF S
  <2>1. 0..n \subseteq S
    BY <1>0, <1>3, <1>4, UpToInduction
  <2>. QED  BY <1>0, <2>1
<1>. QED  BY <1>1, <1>5, Zenon

-----------------------------------------------------------------------------
(* What was sent, and what waits behind it                                 *)

\* The packets of every track come in their order.
InTurn(w) == \A i, j \in DOMAIN w : i < j /\ w[i].enc = w[j].enc => w[i].n < w[j].n

\* From the first one of its track on, up to the latest one.
Unbroken(w, nx) ==
    /\ InTurn(w) /\ UpToDate(w, nx)
    /\ \A i \in DOMAIN w : w[i].enc \in Encoders /\ w[i].n \in Nat /\ w[i].n < nx[w[i].enc]

\* w has packets where u has them.
SamePlaces(w, u) ==
    DOMAIN w = DOMAIN u /\ \A i \in DOMAIN u : w[i].enc = u[i].enc /\ w[i].n = u[i].n

LEMMA UnbrokenSame ==
    ASSUME NEW w, NEW u, NEW nx, Unbroken(u, nx), SamePlaces(w, u)
    PROVE  Unbroken(w, nx)
<1>1. /\ \A i, j \in DOMAIN u : i < j /\ u[i].enc = u[j].enc => u[i].n < u[j].n
      /\ \A i \in DOMAIN u : u[i].enc \in Encoders /\ u[i].n \in Nat /\ u[i].n < nx[u[i].enc]
      /\ DOMAIN w = DOMAIN u /\ \A i \in DOMAIN u : w[i].enc = u[i].enc /\ w[i].n = u[i].n
  BY Zenon DEF Unbroken, InTurn, SamePlaces
<1>2. InTurn(w)
  BY <1>1, Zenon DEF InTurn
<1>3. \A i \in DOMAIN w : w[i].enc \in Encoders /\ w[i].n \in Nat /\ w[i].n < nx[w[i].enc]
  BY <1>1, Zenon
<1>4. ASSUME NEW i \in DOMAIN w, NEW m \in Nat, w[i].n <= m, m < nx[w[i].enc]
      PROVE  \E j \in DOMAIN w : w[j].enc = w[i].enc /\ w[j].n = m
  <2>1. i \in DOMAIN u /\ u[i].n <= m /\ m < nx[u[i].enc]
    BY <1>1, <1>4, Zenon
  <2>2. PICK j \in DOMAIN u : u[j].enc = u[i].enc /\ u[j].n = m
    BY <2>1, Zenon DEF Unbroken, UpToDate
  <2>. QED  BY <1>1, <1>4, <2>2, Zenon
<1>. QED  BY <1>2, <1>3, <1>4, Zenon DEF Unbroken, UpToDate

\* w is u, of n elements, with p put in as its element k.
Slid(w, u, n, p, k) ==
    /\ n \in Nat /\ k \in 1..n + 1 /\ DOMAIN u = 1..n /\ DOMAIN w = 1..n + 1
    /\ \A i \in 1..n + 1 : w[i] = IF i < k THEN u[i] ELSE IF i = k THEN p ELSE u[i - 1]

LEMMA UnbrokenSlid ==
    ASSUME NEW w, NEW u, NEW n, NEW k, NEW p \in Pkts, Slid(w, u, n, p, k),
           NEW nx \in [Encoders -> Nat], Unbroken(u, nx), p.n = nx[p.enc],
           \A i \in DOMAIN u : u[i].enc = p.enc => i < k
    PROVE  Unbroken(w, [nx EXCEPT ![p.enc] = @ + 1])
<1> DEFINE more == [nx EXCEPT ![p.enc] = @ + 1]
<1>0. p.enc \in Encoders /\ p.n \in Nat /\ nx[p.enc] \in Nat
  BY DEF Pkts
<1>1. /\ n \in Nat /\ k \in 1..n + 1 /\ DOMAIN u = 1..n /\ DOMAIN w = 1..n + 1
      /\ \A i \in 1..n + 1 : w[i] = IF i < k THEN u[i] ELSE IF i = k THEN p ELSE u[i - 1]
  BY Zenon DEF Slid
<1>2. /\ \A i, j \in DOMAIN u : i < j /\ u[i].enc = u[j].enc => u[i].n < u[j].n
      /\ \A i \in DOMAIN u : u[i].enc \in Encoders /\ u[i].n \in Nat /\ u[i].n < nx[u[i].enc]
  BY Zenon DEF Unbroken, InTurn
<1>3. /\ w[k] = p /\ k \in DOMAIN w
      /\ \A i \in DOMAIN w : i < k => i \in DOMAIN u /\ w[i] = u[i]
      /\ \A i \in DOMAIN w : k < i => i - 1 \in DOMAIN u /\ k <= i - 1 /\ w[i] = u[i - 1]
  BY <1>1
<1>4. /\ more[p.enc] = p.n + 1
      /\ \A e \in Encoders : more[e] \in Nat /\ nx[e] <= more[e]
      /\ \A e \in Encoders : e # p.enc => more[e] = nx[e]
  BY <1>0
<1> HIDE DEF more
<1>5. \A i \in DOMAIN w : i = k \/ i < k \/ k < i
  BY <1>1
<1>6. \A i \in DOMAIN w : i # k => \E j \in DOMAIN u : w[i] = u[j]
  BY <1>3, <1>5, Zenon
<1>7. \A j \in DOMAIN u : \E i \in DOMAIN w : w[i] = u[j]
  <2> SUFFICES ASSUME NEW j \in DOMAIN u PROVE \E i \in DOMAIN w : w[i] = u[j]
    OBVIOUS
  <2>1. CASE j < k
    <3>1. j \in DOMAIN w
      BY <1>1
    <3>. QED  BY <1>3, <2>1, <3>1, Zenon
  <2>2. CASE ~(j < k)
    <3>1. PICK i : i = j + 1
      OBVIOUS
    <3>2. i \in DOMAIN w /\ k < i /\ i - 1 = j
      BY <1>1, <2>2, <3>1
    <3>3. w[i] = u[i - 1]
      BY <1>3, <3>2, Zenon
    <3>. QED  BY <3>2, <3>3, Zenon
  <2>. QED  BY <2>1, <2>2
<1>8. \A i \in DOMAIN w : w[i].enc \in Encoders /\ w[i].n \in Nat /\ w[i].n < more[w[i].enc]
  <2>1. p.n < more[p.enc]
    BY <1>0, <1>4
  <2>2. \A j \in DOMAIN u : u[j].enc \in Encoders /\ u[j].n \in Nat /\ u[j].n < more[u[j].enc]
    <3> SUFFICES ASSUME NEW j \in DOMAIN u
                 PROVE  u[j].enc \in Encoders /\ u[j].n \in Nat /\ u[j].n < more[u[j].enc]
      OBVIOUS
    <3>1. PICK e \in Encoders, m \in Nat : e = u[j].enc /\ m = u[j].n /\ m < nx[e]
      BY <1>2
    <3>2. nx[e] \in Nat /\ more[e] \in Nat /\ nx[e] <= more[e]
      BY <1>4
    <3>3. m < more[e]
      BY <3>1, <3>2
    <3>. QED  BY <3>1, <3>3, Zenon
  <2>. QED  BY <1>0, <1>3, <1>6, <2>1, <2>2, Zenon
<1>9. ASSUME NEW i \in DOMAIN w, NEW j \in DOMAIN w, i < j, w[i].enc = w[j].enc
      PROVE  w[i].n < w[j].n
  <2>0. i \in Int /\ j \in Int /\ k \in Int
    BY <1>1
  <2>1. CASE j < k
    <3>1. i < k
      BY <1>9, <2>0, <2>1
    <3>. QED  BY <1>2, <1>3, <1>9, <2>1, <3>1, Zenon
  <2>2. CASE j = k
    <3>1. i < k
      BY <1>9, <2>2, Zenon
    <3>2. i \in DOMAIN u /\ w[i] = u[i] /\ w[j] = p
      BY <1>3, <2>2, <3>1, Zenon
    <3>3. u[i].n < nx[u[i].enc] /\ u[i].enc = p.enc
      BY <1>2, <1>9, <3>2, Zenon
    <3>. QED  BY <3>2, <3>3, Zenon
  <2>3. CASE k < j
    <3>1. j - 1 \in DOMAIN u /\ k <= j - 1 /\ w[j] = u[j - 1]
      BY <1>3, <2>3, Zenon
    <3>2. CASE i < k
      <4>1. i \in DOMAIN u /\ w[i] = u[i]
        BY <1>3, <3>2, Zenon
      <4>2. i < j - 1
        BY <2>0, <3>1, <3>2
      <4>. QED  BY <1>2, <1>9, <3>1, <4>1, <4>2, Zenon
    <3>3. CASE i = k
      <4>1. u[j - 1].enc = p.enc
        BY <1>3, <1>9, <3>1, <3>3, Zenon
      <4>2. j - 1 < k
        BY <3>1, <4>1, Zenon
      <4>. QED  BY <2>0, <3>1, <4>2
    <3>4. CASE k < i
      <4>1. i - 1 \in DOMAIN u /\ w[i] = u[i - 1]
        BY <1>3, <3>4, Zenon
      <4>2. i - 1 < j - 1
        BY <1>9, <2>0
      <4>. QED  BY <1>2, <1>9, <3>1, <4>1, <4>2, Zenon
    <3>. QED  BY <1>5, <3>2, <3>3, <3>4
  <2>. QED  BY <1>5, <2>1, <2>2, <2>3
<1>10. InTurn(w)
  BY <1>9, Zenon DEF InTurn
<1>11. ASSUME NEW i \in DOMAIN w, NEW m \in Nat, w[i].n <= m, m < more[w[i].enc]
       PROVE  \E j \in DOMAIN w : w[j].enc = w[i].enc /\ w[j].n = m
  <2>1. CASE w[i].enc = p.enc /\ m = p.n
    BY <1>3, <2>1, Zenon
  <2>2. CASE ~(w[i].enc = p.enc /\ m = p.n)
    <3>0. w[i].enc \in Encoders
      BY <1>8, Zenon
    <3>1. m < nx[w[i].enc]
      <4>1. CASE w[i].enc = p.enc
        <5>1. m < p.n + 1 /\ m # p.n
          BY <1>4, <1>11, <2>2, <4>1, Zenon
        <5>2. m < p.n
          BY <1>0, <5>1
        <5>. QED  BY <4>1, <5>2, Zenon
      <4>2. CASE w[i].enc # p.enc
        BY <1>4, <1>11, <3>0, <4>2, Zenon
      <4>. QED  BY <4>1, <4>2
    <3>2. i # k
      <4> SUFFICES ASSUME i = k PROVE FALSE
        OBVIOUS
      <4>1. p.n <= m /\ m < p.n
        BY <1>3, <1>11, <3>1, Zenon
      <4>. QED  BY <1>0, <4>1
    <3>3. PICK o \in DOMAIN u : w[i] = u[o]
      BY <1>6, <3>2, Zenon
    <3>4. u[o].n <= m /\ m < nx[u[o].enc]
      BY <1>11, <3>1, <3>3, Zenon
    <3>5. PICK j \in DOMAIN u : u[j].enc = u[o].enc /\ u[j].n = m
      BY <3>4, Zenon DEF Unbroken, UpToDate
    <3>6. PICK l \in DOMAIN w : w[l] = u[j]
      BY <1>7, Zenon
    <3>. QED  BY <3>3, <3>5, <3>6, Zenon
  <2>. QED  BY <2>1, <2>2
<1>12. UpToDate(w, more)
  BY <1>11, Zenon DEF UpToDate
<1>. QED  BY <1>8, <1>10, <1>12, Zenon DEF Unbroken, more

\* The elements of s and then those of q.
Joined(w, s, q) ==
    /\ DOMAIN w = 1..Len(s) + Len(q)
    /\ \A i \in 1..Len(s) + Len(q) : w[i] = IF i <= Len(s) THEN s[i] ELSE q[i - Len(s)]

LEMMA JoinedIs ==
    ASSUME NEW s \in Seq(Sents), NEW q \in Seq(Pkts)
    PROVE  /\ Joined(s \o q, s, q) /\ Len(s) \in Nat /\ Len(q) \in Nat
           /\ DOMAIN s = 1..Len(s) /\ DOMAIN q = 1..Len(q)
<1> DEFINE S == Sents \cup Pkts
<1>1. s \in Seq(S) /\ q \in Seq(S)
  OBVIOUS
<1> HIDE DEF S
<1>2. /\ s \o q \in Seq(S) /\ Len(s \o q) = Len(s) + Len(q)
      /\ \A k \in 1..Len(s) + Len(q) :
            (s \o q)[k] = IF k <= Len(s) THEN s[k] ELSE q[k - Len(s)]
  BY <1>1, ConcatElements, Zenon
<1> DEFINE w == s \o q
<1> HIDE DEF w
<1>3. DOMAIN w = 1..Len(s) + Len(q)
  BY <1>2 DEF w
<1>4. Joined(s \o q, s, q)
  BY <1>2, <1>3, Zenon DEF Joined, w
<1>. QED  BY <1>4

LEMMA JoinInserted ==
    ASSUME NEW s \in Seq(Sents), NEW q \in Seq(Pkts), NEW p, NEW k \in 1..Len(q) + 1,
           NEW r, InsertedAt(r, q, p, k)
    PROVE  Slid(s \o r, s \o q, Len(s) + Len(q), p, Len(s) + k)
<1>1. /\ r \in Seq(Pkts) /\ Len(r) = Len(q) + 1
      /\ \A i \in 1..Len(q) + 1 : r[i] = IF i < k THEN q[i] ELSE IF i = k THEN p ELSE q[i - 1]
  BY Zenon DEF InsertedAt
<1> DEFINE w == s \o r
<1> DEFINE u == s \o q
<1>2. Joined(w, s, r) /\ Joined(u, s, q) /\ Len(s) \in Nat /\ Len(q) \in Nat
  BY <1>1, JoinedIs, Zenon
<1> HIDE DEF w, u
<1>3. PICK a \in Nat, b \in Nat : a = Len(s) /\ b = Len(q)
  BY <1>2
<1>4. DOMAIN w = 1..a + (b + 1)
      /\ \A i \in 1..a + (b + 1) : w[i] = IF i <= a THEN s[i] ELSE r[i - a]
  BY <1>1, <1>2, <1>3, Zenon DEF Joined
<1>5. DOMAIN u = 1..a + b /\ \A i \in 1..a + b : u[i] = IF i <= a THEN s[i] ELSE q[i - a]
  BY <1>2, <1>3, Zenon DEF Joined
<1>6. k \in 1..b + 1
      /\ \A i \in 1..b + 1 : r[i] = IF i < k THEN q[i] ELSE IF i = k THEN p ELSE q[i - 1]
  BY <1>1, <1>3, Zenon
<1>7. DOMAIN w = 1..(a + b) + 1 /\ a + b \in Nat /\ a + k \in 1..(a + b) + 1
  BY <1>4, <1>6
<1>8. ASSUME NEW i \in 1..(a + b) + 1
      PROVE  w[i] = IF i < a + k THEN u[i] ELSE IF i = a + k THEN p ELSE u[i - 1]
  <2>1. CASE i <= a
    BY <1>4, <1>5, <1>6, <2>1
  <2>2. CASE ~(i <= a)
    <3>1. PICK j \in 1..b + 1 : j = i - a
      BY <2>2
    <3>2. w[i] = r[j]
      BY <1>4, <2>2, <3>1
    <3>3. CASE j < k
      <4>1. r[j] = q[j] /\ u[i] = q[j] /\ i < a + k
        BY <1>5, <1>6, <2>2, <3>1, <3>3
      <4>. QED  BY <3>2, <4>1, Zenon
    <3>4. CASE j = k
      <4>1. r[j] = p /\ i = a + k
        BY <1>6, <3>1, <3>4
      <4>. QED  BY <3>2, <4>1, <1>7
    <3>5. CASE k < j
      <4>1. r[j] = q[j - 1] /\ ~(i < a + k) /\ i # a + k
        BY <1>6, <3>1, <3>5
      <4>2. u[i - 1] = q[j - 1]
        BY <1>5, <1>6, <2>2, <3>1, <3>5
      <4>. QED  BY <3>2, <4>1, <4>2, Zenon
    <3>. QED  BY <1>6, <3>3, <3>4, <3>5
  <2>. QED  BY <2>1, <2>2
<1>9. Slid(w, u, a + b, p, a + k)
  BY <1>5, <1>7, <1>8, Zenon DEF Slid
<1>. QED  BY <1>3, <1>9, Zenon DEF w, u

\* The front of the queue goes out.
LEMMA JoinSent ==
    ASSUME NEW s \in Seq(Sents), NEW q \in Seq(Pkts), q # <<>>, NEW x \in Sents,
           x.enc = q[1].enc, x.n = q[1].n
    PROVE  SamePlaces(Append(s, x) \o Tail(q), s \o q)
<1> DEFINE t == Append(s, x)
<1> DEFINE r == Tail(q)
<1>1. /\ t \in Seq(Sents) /\ Len(t) = Len(s) + 1 /\ t[Len(s) + 1] = x
      /\ \A i \in 1..Len(s) : t[i] = s[i]
  OBVIOUS
<1>2. /\ r \in Seq(Pkts) /\ Len(r) = Len(q) - 1 /\ Len(q) \in Nat \ {0}
      /\ \A i \in 1..Len(q) - 1 : r[i] = q[i + 1]
  OBVIOUS
<1> HIDE DEF t, r
<1> DEFINE w == t \o r
<1> DEFINE u == s \o q
<1>3. Joined(w, t, r) /\ Joined(u, s, q) /\ Len(s) \in Nat
  BY <1>1, <1>2, JoinedIs, Zenon
<1> HIDE DEF w, u
<1>4. PICK a \in Nat, b \in Nat \ {0} : a = Len(s) /\ b = Len(q)
  BY <1>2, <1>3
<1>5. /\ DOMAIN w = 1..(a + 1) + (b - 1)
      /\ \A i \in 1..(a + 1) + (b - 1) : w[i] = IF i <= a + 1 THEN t[i] ELSE r[i - (a + 1)]
  BY <1>1, <1>2, <1>3, <1>4, Zenon DEF Joined
<1>6. DOMAIN u = 1..a + b /\ \A i \in 1..a + b : u[i] = IF i <= a THEN s[i] ELSE q[i - a]
  BY <1>3, <1>4, Zenon DEF Joined
<1>7. /\ t[a + 1] = x /\ \A i \in 1..a : t[i] = s[i]
      /\ \A i \in 1..b - 1 : r[i] = q[i + 1]
  BY <1>1, <1>2, <1>4, Zenon
<1>8. DOMAIN w = DOMAIN u
  BY <1>5, <1>6
<1>9. ASSUME NEW i \in 1..a + b PROVE w[i].enc = u[i].enc /\ w[i].n = u[i].n
  <2>1. CASE i <= a
    <3>1. w[i] = u[i]
      BY <1>5, <1>6, <1>7, <2>1
    <3>. QED  BY <3>1, Zenon
  <2>2. CASE i = a + 1
    <3>1. w[i] = x /\ u[i] = q[1]
      BY <1>5, <1>6, <1>7, <2>2
    <3>. QED  BY <3>1, Zenon
  <2>3. CASE i > a + 1
    <3>1. PICK j \in 1..b - 1 : j = i - (a + 1)
      BY <2>3
    <3>2. w[i] = r[j]
      BY <1>5, <2>3, <3>1
    <3>3. u[i] = q[j + 1]
      BY <1>6, <2>3, <3>1
    <3>4. w[i] = u[i]
      BY <1>7, <3>2, <3>3, Zenon
    <3>. QED  BY <3>4, Zenon
  <2>. QED  BY <2>1, <2>2, <2>3
<1>10. SamePlaces(w, u)
  BY <1>6, <1>8, <1>9, Zenon DEF SamePlaces
<1>. QED  BY <1>10, Zenon DEF w, u, t, r

\* All packets of e that come after its packet at i of w, which is one of them.
AllFrom(w, e, i, last) == {w[j].n : j \in {j \in Waiting(w, e) : i <= j}} = w[i].n..last - 1

\* What NoGaps says of a sequence of packets.
LEMMA UnbrokenIs ==
    ASSUME NEW w, NEW nx \in [Encoders -> Nat], Unbroken(w, nx), NEW e \in Encoders,
           NEW i \in Waiting(w, e)
    PROVE  /\ \A j \in Waiting(w, e) : i < j => w[i].n < w[j].n
           /\ DOMAIN w \in SUBSET Int => AllFrom(w, e, i, nx[e])
<1>1. /\ \A a, b \in DOMAIN w : a < b /\ w[a].enc = w[b].enc => w[a].n < w[b].n
      /\ \A a \in DOMAIN w : w[a].enc \in Encoders /\ w[a].n \in Nat /\ w[a].n < nx[w[a].enc]
      /\ UpToDate(w, nx)
  BY Zenon DEF Unbroken, InTurn
<1>2. /\ \A j : j \in Waiting(w, e) => j \in DOMAIN w /\ w[j].enc = e
      /\ \A j \in DOMAIN w : w[j].enc = e => j \in Waiting(w, e)
  BY DEF Waiting
<1>3. \A j \in Waiting(w, e) : i < j => w[i].n < w[j].n
  BY <1>1, <1>2, Zenon
<1> DEFINE J == {j \in Waiting(w, e) : i <= j}
<1>4. ASSUME DOMAIN w \in SUBSET Int
      PROVE  {w[j].n : j \in J} = w[i].n..nx[e] - 1
  <2>0. w[i].n \in Nat /\ nx[e] \in Nat /\ i \in DOMAIN w /\ w[i].enc = e
    BY <1>1, <1>2
  <2>1. ASSUME NEW j \in J PROVE w[j].n \in w[i].n..nx[e] - 1
    <3>1. w[j].n \in Nat /\ w[j].n < nx[e] /\ j \in Waiting(w, e)
      BY <1>1, <1>2, Zenon
    <3>2. i = j \/ i < j
      BY <1>2, <1>4, <2>0
    <3>3. CASE i = j
      BY <2>0, <3>1, <3>3
    <3>4. CASE i < j
      <4>1. w[i].n < w[j].n
        BY <1>3, <3>1, <3>4, Zenon
      <4>. QED  BY <2>0, <3>1, <4>1
    <3>. QED  BY <3>2, <3>3, <3>4
  <2>2. ASSUME NEW m \in w[i].n..nx[e] - 1 PROVE m \in {w[j].n : j \in J}
    <3>1. m \in Nat /\ w[i].n <= m /\ m < nx[e]
      BY <2>0
    <3>2. PICK j \in DOMAIN w : w[j].enc = e /\ w[j].n = m
      BY <1>1, <2>0, <3>1, Zenon DEF UpToDate
    <3>3. j \in Waiting(w, e)
      BY <1>2, <3>2, Zenon
    <3>4. ~(j < i)
      <4> SUFFICES ASSUME j < i PROVE FALSE
        OBVIOUS
      <4>1. w[j].n < w[i].n
        BY <1>1, <2>0, <3>2, Zenon
      <4>. QED  BY <2>0, <3>1, <3>2, <4>1
    <3>5. i <= j
      BY <1>4, <2>0, <3>2, <3>4
    <3>. QED  BY <3>2, <3>3, <3>5
  <2>. QED  BY <2>1, <2>2
<1>. QED  BY <1>3, <1>4, Zenon DEF AllFrom

\* What waits is in the stream.
Shown(q, aoff, voff) ==
    \A i \in DOMAIN q : q[i] = InStream(q[i].enc, q[i].n, aoff, voff)

LEMMA ShownTimely ==
    ASSUME NEW q \in Seq(Pkts), NEW aoff \in [Audios -> Int], NEW voff \in [Videos -> Int],
           Shown(q, aoff, voff)
    PROVE  /\ Timely(q)
           /\ \A i \in DOMAIN q : q[i].ts = Due(q[i].enc, q[i].n, aoff, voff)
<1>1. \A i \in DOMAIN q : q[i].enc \in Encoders /\ q[i].n \in Nat
  <2>1. \A i \in DOMAIN q : q[i] \in Pkts
    OBVIOUS
  <2>. QED  BY <2>1 DEF Pkts
<1>2. ASSUME NEW i \in DOMAIN q PROVE q[i].ts = Due(q[i].enc, q[i].n, aoff, voff)
  <2>1. PICK e \in Encoders, m \in Nat : e = q[i].enc /\ m = q[i].n
    BY <1>1
  <2>2. q[i] = InStream(e, m, aoff, voff)
    BY <2>1, Zenon DEF Shown
  <2>3. InStream(e, m, aoff, voff).ts = Due(e, m, aoff, voff)
    BY InStreamIs
  <2>. QED  BY <2>1, <2>2, <2>3, Zenon
<1>3. ASSUME NEW i \in DOMAIN q, NEW j \in DOMAIN q, q[i].enc = q[j].enc, q[i].n < q[j].n
      PROVE  q[i].ts < q[j].ts
  <2>1. PICK e \in Encoders, m \in Nat, n \in Nat : e = q[i].enc /\ m = q[i].n /\ n = q[j].n
    BY <1>1
  <2>2. m < n
    BY <1>3, <2>1, Zenon
  <2>3. Due(e, m, aoff, voff) < Due(e, n, aoff, voff)
    BY <2>2, LaterIsDueLater
  <2>. QED  BY <1>2, <1>3, <2>1, <2>3, Zenon
<1>. QED  BY <1>2, <1>3, Zenon DEF Timely

\* The stream: s was sent, q waits.
Flow(s, q, nx, aoff, voff) ==
    /\ s \in Seq(Sents) /\ q \in Seq(Pkts)
    /\ Shown(q, aoff, voff) /\ Sorted(q) /\ Unbroken(s \o q, nx)

LEMMA InsertFlow ==
    ASSUME NEW s, NEW q, NEW nx \in [Encoders -> Nat],
           NEW aoff \in [Audios -> Int], NEW voff \in [Videos -> Int],
           Flow(s, q, nx, aoff, voff), NEW e \in Encoders,
           NEW p, p = InStream(e, nx[e], aoff, voff)
    PROVE  Flow(s, Insert(q, p), [nx EXCEPT ![e] = @ + 1], aoff, voff)
<1> DEFINE r == Insert(q, p)
<1>0. /\ s \in Seq(Sents) /\ q \in Seq(Pkts)
      /\ Shown(q, aoff, voff) /\ Sorted(q) /\ Unbroken(s \o q, nx) /\ nx[e] \in Nat
  BY Zenon DEF Flow
<1>1. p \in Pkts /\ p.enc = e /\ p.n = nx[e] /\ p = InStream(p.enc, p.n, aoff, voff)
  <2>1. PICK n \in Nat : n = nx[e]
    BY <1>0
  <2>2. p = InStream(e, n, aoff, voff)
    BY <2>1, Zenon
  <2>3. /\ InStream(e, n, aoff, voff) \in Pkts
        /\ InStream(e, n, aoff, voff).enc = e /\ InStream(e, n, aoff, voff).n = n
    BY InStreamIs
  <2>. QED  BY <2>1, <2>2, <2>3, Zenon
<1>2. PICK k \in 1..Len(q) + 1 : InsertedAt(r, q, p, k)
  BY <1>0, <1>1, InsertIs, Zenon
<1>3. Put(r, q, p, k)
  BY <1>0, <1>2, InsertedElements, Zenon
<1>4. Sorted(r)
  BY <1>0, <1>1, InsertSorted, Zenon DEF Sorted
<1> HIDE DEF r
<1>5. r \in Seq(Pkts) /\ \A i \in DOMAIN r : r[i] = p \/ \E j \in DOMAIN q : r[i] = q[j]
  <2>1. /\ r \in Seq(Pkts) /\ r[k] = p
        /\ \A i \in DOMAIN r \ {k} : Old(i, k) \in DOMAIN q /\ r[i] = q[Old(i, k)]
    BY <1>3, Zenon DEF Put
  <2>. QED  BY <2>1, Zenon
<1>6. Shown(r, aoff, voff)
  <2>1. ASSUME NEW i \in DOMAIN r PROVE r[i] = InStream(r[i].enc, r[i].n, aoff, voff)
    <3>1. CASE r[i] = p
      BY <1>1, <3>1, Zenon
    <3>2. ASSUME NEW j \in DOMAIN q, r[i] = q[j]
          PROVE  r[i] = InStream(r[i].enc, r[i].n, aoff, voff)
      <4>1. q[j] = InStream(q[j].enc, q[j].n, aoff, voff)
        BY <1>0, Zenon DEF Shown
      <4>. QED  BY <3>2, <4>1, Zenon
    <3>. QED  BY <1>5, <3>1, <3>2, Zenon
  <2>. QED  BY <2>1, Zenon DEF Shown
<1>7. Ordered(r)
  BY <1>4, <1>5, <1>6, ShownTimely, SortedIsOrdered, Zenon
<1> DEFINE u == s \o q
<1>8. /\ DOMAIN q = 1..Len(q) /\ Len(q) \in Nat /\ Len(s) \in Nat /\ Joined(u, s, q)
      /\ Slid(s \o r, u, Len(s) + Len(q), p, Len(s) + k)
  BY <1>0, <1>2, JoinedIs, JoinInserted, Zenon
<1> HIDE DEF u
<1>9. \A i \in DOMAIN u : u[i].n < nx[u[i].enc]
  BY <1>0, Zenon DEF Unbroken, u
<1>10. ASSUME NEW i \in DOMAIN u, u[i].enc = p.enc PROVE i < Len(s) + k
  <2>0. PICK a \in Nat : a = Len(s)
    BY <1>8
  <2>1. i \in 1..a + Len(q) /\ (~(i <= a) => u[i] = q[i - a])
    BY <1>8, <2>0, Zenon DEF Joined
  <2>2. CASE i <= a
    BY <1>8, <2>0, <2>1, <2>2
  <2>3. CASE ~(i <= a)
    <3>1. PICK j \in 1..Len(q) : j = i - a
      BY <1>8, <2>1, <2>3
    <3>2. u[i] = q[j] /\ q[j].n < p.n /\ q[j].enc = p.enc
      BY <1>1, <1>9, <1>10, <2>1, <2>3, <3>1, Zenon
    <3>3. Len(r) = Len(q) + 1 /\ r[k] = p
          /\ \A x \in 1..Len(q) + 1 : r[x] = IF x < k THEN q[x] ELSE IF x = k THEN p ELSE q[x - 1]
      BY <1>2, <1>3, Zenon DEF InsertedAt, Put
    <3>4. j < k
      <4> SUFFICES ASSUME ~(j < k) PROVE FALSE
        OBVIOUS
      <4>1. PICK l : l = j + 1
        OBVIOUS
      <4>2. l \in DOMAIN r /\ k \in DOMAIN r /\ r[l] = q[j] /\ k < l
        BY <1>5, <1>8, <3>1, <3>3, <4>1
      <4>3. l < k
        BY <1>7, <3>2, <3>3, <4>2, Zenon DEF Ordered
      <4>. QED  BY <1>8, <4>1, <4>2, <4>3
    <3>. QED  BY <2>0, <2>1, <3>1, <3>4
  <2>. QED  BY <2>2, <2>3
<1>11. Unbroken(s \o r, [nx EXCEPT ![p.enc] = @ + 1])
  <2>1. PICK n : n = Len(s) + Len(q)
    OBVIOUS
  <2>2. PICK l : l = Len(s) + k
    OBVIOUS
  <2>3. Slid(s \o r, u, n, p, l) /\ \A i \in DOMAIN u : u[i].enc = p.enc => i < l
    BY <1>8, <1>10, <2>1, <2>2, Zenon
  <2>4. Unbroken(u, nx) /\ p.n = nx[p.enc]
    BY <1>0, <1>1, Zenon DEF u
  <2>. QED  BY <1>1, <2>3, <2>4, UnbrokenSlid, Zenon
<1>12. Flow(s, r, [nx EXCEPT ![e] = @ + 1], aoff, voff)
  BY <1>0, <1>1, <1>4, <1>5, <1>6, <1>11, Zenon DEF Flow
<1>. QED  BY <1>12, Zenon DEF r

\* What send_interleaved sends.
SentOff(x, p) ==
    x \in Sents /\ x.enc = p.enc /\ x.n = p.n /\ x.ts = p.ts /\ x.key = p.key

LEMMA SentIs ==
    ASSUME NEW c, c.q \in Seq(Pkts), c.q # <<>>
    PROVE  /\ Sent(c).q = Tail(c.q)
           /\ \E x : SentOff(x, c.q[1]) /\ Sent(c).sent = Append(c.sent, x)
<1> DEFINE p == Head(c.q)
<1> DEFINE k == IF IsVideo(p) THEN SelectInSeq(c.times[p.enc], LAMBDA t : t = p.pts) ELSE 0
<1> DEFINE timed == IsVideo(p) => k # 0
<1> DEFINE new == [enc |-> p.enc, n |-> p.n, ts |-> p.ts, key |-> p.key, timed |-> timed]
<1>1. Sent(c) = [q |-> Tail(c.q),
                 times |-> IF k = 0 THEN c.times ELSE [c.times EXCEPT ![p.enc] = RemoveAt(@, k)],
                 sent |-> Append(c.sent, new)]
  BY Zenon DEF Sent
<1>2. timed \in BOOLEAN
  <2>. QED  BY Zenon
<1>3. p = c.q[1] /\ p \in Pkts
  OBVIOUS
<1> HIDE DEF timed, k, p
<1>4. p.enc \in Encoders /\ p.n \in Nat /\ p.ts \in Int /\ p.key \in BOOLEAN
  BY <1>3 DEF Pkts
<1>5. new \in Sents /\ new.enc = p.enc /\ new.n = p.n /\ new.ts = p.ts /\ new.key = p.key
  BY <1>2, <1>4 DEF Sents
<1> HIDE DEF new
<1>6. Sent(c).q = Tail(c.q) /\ Sent(c).sent = Append(c.sent, new)
  BY <1>1
<1>7. SentOff(new, c.q[1])
  BY <1>3, <1>5, Zenon DEF SentOff
<1>. QED  BY <1>6, <1>7

LEMMA SentFlow ==
    ASSUME NEW c, NEW nx, NEW aoff, NEW voff, Flow(c.sent, c.q, nx, aoff, voff), c.q # <<>>
    PROVE  Flow(Sent(c).sent, Sent(c).q, nx, aoff, voff) /\ Sent(c).sent # <<>>
<1>0. /\ c.sent \in Seq(Sents) /\ c.q \in Seq(Pkts)
      /\ Shown(c.q, aoff, voff) /\ Sorted(c.q) /\ Unbroken(c.sent \o c.q, nx)
  BY Zenon DEF Flow
<1>1. PICK x : SentOff(x, c.q[1]) /\ Sent(c).sent = Append(c.sent, x)
  BY <1>0, SentIs, Zenon
<1>2. Sent(c).q = Tail(c.q) /\ x \in Sents /\ x.enc = c.q[1].enc /\ x.n = c.q[1].n
  BY <1>0, <1>1, SentIs, Zenon DEF SentOff
<1> DEFINE q == c.q
<1> DEFINE s == c.sent
<1>3. SamePlaces(Append(s, x) \o Tail(q), s \o q)
  BY <1>0, <1>2, JoinSent, Zenon
<1>4. Unbroken(Append(s, x) \o Tail(q), nx)
  BY <1>0, <1>3, UnbrokenSame, Zenon
<1>5. Append(s, x) \in Seq(Sents) /\ Append(s, x) # <<>>
  BY <1>0, <1>2
<1>6. Rest(Tail(q), q)
  BY <1>0, RestIs, Zenon
<1> DEFINE r == Tail(q)
<1> HIDE DEF r
<1>7. r \in Seq(Pkts) /\ DOMAIN r = 1..Len(q) - 1 /\ \A i \in DOMAIN r : r[i] = q[i + 1]
  BY <1>6, Zenon DEF Rest, r
<1>8. \A i \in DOMAIN r : i + 1 \in DOMAIN q
  BY <1>0, <1>7
<1>9. Shown(r, aoff, voff)
  <2>1. \A i \in DOMAIN q : q[i] = InStream(q[i].enc, q[i].n, aoff, voff)
    BY <1>0, Zenon DEF Shown
  <2>2. \A i \in DOMAIN r : r[i] = InStream(r[i].enc, r[i].n, aoff, voff)
    BY <1>7, <1>8, <2>1, Zenon
  <2>. QED  BY <2>2, Zenon DEF Shown
<1>10. Sorted(r)
  <2>1. \A i, j \in DOMAIN r : i < j => i + 1 < j + 1
    BY <1>7
  <2>2. \A i, j \in DOMAIN r : i < j => r[i].ts <= r[j].ts
    BY <1>0, <1>7, <1>8, <2>1, Zenon DEF Sorted
  <2>. QED  BY <2>2, Zenon DEF Sorted
<1>. QED  BY <1>1, <1>2, <1>4, <1>5, <1>7, <1>9, <1>10, Zenon DEF Flow, r

\* The queue of the stream, before anything was sent.
LEMMA SortedFlow ==
    ASSUME NEW nx \in [Encoders -> Nat],
           NEW aoff \in [Audios -> Int], NEW voff \in [Videos -> Int],
           NEW r, Queue(r, nx, voff), Shown(r, aoff, voff), Sorted(r), UpToDate(r, nx)
    PROVE  Flow(<<>>, r, nx, aoff, voff)
<1>0. /\ r \in Seq(Pkts) /\ \A i \in DOMAIN r : r[i].n < nx[r[i].enc]
      /\ \A i, j \in DOMAIN r : r[i].enc = r[j].enc /\ r[i].n = r[j].n => i = j
  BY Zenon DEF Queue
<1>1. Ordered(r)
  BY <1>0, ShownTimely, SortedIsOrdered, Zenon
<1>2. \A i \in DOMAIN r : r[i].enc \in Encoders /\ r[i].n \in Nat /\ i \in Int
  <2>1. \A i \in DOMAIN r : r[i] \in Pkts /\ i \in Int
    BY <1>0
  <2>. QED  BY <2>1 DEF Pkts
<1>3. ASSUME NEW i \in DOMAIN r, NEW j \in DOMAIN r, i < j, r[i].enc = r[j].enc
      PROVE  r[i].n < r[j].n
  <2>1. r[i].n # r[j].n
    <3>1. i # j
      BY <1>2, <1>3
    <3>. QED  BY <1>0, <1>3, <3>1, Zenon
  <2>2. ~(r[j].n < r[i].n)
    <3> SUFFICES ASSUME r[j].n < r[i].n PROVE FALSE
      OBVIOUS
    <3>1. j < i
      BY <1>1, <1>3, Zenon DEF Ordered
    <3>. QED  BY <1>2, <1>3, <3>1
  <2>3. r[i].n \in Nat /\ r[j].n \in Nat
    BY <1>2, Zenon
  <2>. QED  BY <2>1, <2>2, <2>3
<1>4. InTurn(r)
  BY <1>3, Zenon DEF InTurn
<1>5. Unbroken(r, nx)
  BY <1>0, <1>2, <1>4, Zenon DEF Unbroken
<1>6. <<>> \o r = r /\ <<>> \in Seq(Sents)
  BY <1>0
<1>. QED  BY <1>0, <1>5, <1>6, Zenon DEF Flow

\* apply_interleaved_packet_offset and resort_interleaved_packets
LEMMA BeginsFlow ==
    ASSUME NEW q, NEW nx \in [Encoders -> Nat], Queue(q, nx, Zero), Encoded(q), UpToDate(q, nx),
           NEW aoff \in [Audios -> Int], NEW voff \in [Videos -> Int],
           NEW r, r = [i \in DOMAIN q |-> Shifted(q[i], aoff, voff)]
    PROVE  /\ Flow(<<>>, Resorted(r), nx, aoff, voff)
           /\ r \in Seq(Pkts) /\ Shown(r, aoff, voff) /\ SamePlaces(r, q)
<1>0. q \in Seq(Pkts) /\ \A i \in DOMAIN q : q[i] \in Pkts
  <2>1. q \in Seq(Pkts)
    BY Zenon DEF Queue
  <2>. QED  BY <2>1
<1>1. Queue(r, nx, voff)
  BY ShiftedQueue, Zenon
<1>2. r \in Seq(Pkts) /\ \A i, j \in DOMAIN r : r[i] = r[j] => i = j
  BY <1>1, Zenon DEF Queue
<1>3. DOMAIN r = DOMAIN q /\ \A i \in DOMAIN q : r[i] = Shifted(q[i], aoff, voff)
  OBVIOUS
<1>4. \A i \in DOMAIN q : r[i].enc = q[i].enc /\ r[i].n = q[i].n
  BY <1>0, <1>3, ShiftedIs, ZenonT(30)
<1>5. SamePlaces(r, q)
  BY <1>3, <1>4, Zenon DEF SamePlaces
<1>6. Shown(r, aoff, voff)
  <2>1. ASSUME NEW i \in DOMAIN r PROVE r[i] = InStream(r[i].enc, r[i].n, aoff, voff)
    <3>1. q[i] = Packet(q[i].enc, q[i].n)
      BY <1>3, <2>1, Zenon DEF Encoded
    <3>2. PICK e, n : e = q[i].enc /\ n = q[i].n
      OBVIOUS
    <3>3. r[i] = Shifted(Packet(e, n), aoff, voff) /\ r[i].enc = e /\ r[i].n = n
      BY <1>3, <1>4, <3>1, <3>2, Zenon
    <3>. QED  BY <3>3, Zenon DEF InStream
  <2>. QED  BY <2>1, Zenon DEF Shown
<1> DEFINE z == Resorted(r)
<1>7. Queue(z, nx, voff)
  BY <1>1, ResortedQueue, Zenon
<1>8. SamePackets(z, r, Len(r)) /\ DOMAIN r = 1..Len(r)
  <2>1. SamePackets(z, r, Len(r))
    BY <1>2, ResortedKeeps, Zenon
  <2>. QED  BY <1>2, <2>1
<1>9. Sorted(z)
  BY <1>2, ResortedSorted, Zenon
<1> HIDE DEF z
<1>10. /\ \A j \in DOMAIN z : \E k \in DOMAIN r : z[j] = r[k]
       /\ \A k \in DOMAIN r : \E j \in DOMAIN z : z[j] = r[k]
  BY <1>8, Zenon DEF SamePackets
<1>11. Shown(z, aoff, voff)
  <2>1. \A k \in DOMAIN r : r[k] = InStream(r[k].enc, r[k].n, aoff, voff)
    BY <1>6, Zenon DEF Shown
  <2>2. ASSUME NEW j \in DOMAIN z PROVE z[j] = InStream(z[j].enc, z[j].n, aoff, voff)
    <3>1. PICK k \in DOMAIN r : z[j] = r[k]
      BY <1>10, Zenon
    <3>2. r[k] = InStream(r[k].enc, r[k].n, aoff, voff)
      BY <2>1, Zenon
    <3>. QED  BY <3>1, <3>2, Zenon
  <2>. QED  BY <2>2, Zenon DEF Shown
<1>12. ASSUME NEW i \in DOMAIN z, NEW m \in Nat, z[i].n <= m, m < nx[z[i].enc]
       PROVE  \E j \in DOMAIN z : z[j].enc = z[i].enc /\ z[j].n = m
  <2>1. PICK k \in DOMAIN r : z[i] = r[k]
    BY <1>10, Zenon
  <2>2. k \in DOMAIN q /\ z[i].enc = q[k].enc /\ z[i].n = q[k].n
    BY <1>3, <1>4, <2>1, Zenon
  <2>3. q[k].n <= m /\ m < nx[q[k].enc]
    BY <1>12, <2>2, Zenon
  <2>4. PICK l \in DOMAIN q : q[l].enc = q[k].enc /\ q[l].n = m
    BY <2>2, <2>3, Zenon DEF UpToDate
  <2>5. l \in DOMAIN r /\ r[l].enc = q[k].enc /\ r[l].n = m
    BY <1>3, <1>4, <2>4, Zenon
  <2>6. PICK j \in DOMAIN z : z[j] = r[l]
    BY <1>10, <2>5, Zenon
  <2>. QED  BY <2>2, <2>5, <2>6, Zenon
<1>13. UpToDate(z, nx)
  BY <1>12, Zenon DEF UpToDate
<1>14. Flow(<<>>, z, nx, aoff, voff)
  BY <1>7, <1>9, <1>11, <1>13, SortedFlow, Zenon
<1>. QED  BY <1>2, <1>5, <1>6, <1>14, Zenon DEF z

-----------------------------------------------------------------------------
(* What is known of the queue and of the stream, step by step               *)

\* The stream starts with its first packet.
BegunBySending == Started => sent # <<>>

\* While packets are collected.
Gathered ==
    sent = <<>> /\ ~Started =>
        /\ Encoded(interleaved_packets) /\ UpToDate(interleaved_packets, next)
        /\ \A v \in Videos : ~received_video[v] => ~Has(interleaved_packets, v)

\* Once the stream has started.
Streaming ==
    sent # <<>> =>
        Started /\ Flow(sent, interleaved_packets, next, audio_offsets, video_offsets)

\* Nothing was collected before the output is active.
Idle ==
    ~active /\ hooked # {} => interleaved_packets = <<>> /\ sent = <<>> /\ ~received_audio

SInv == IInv /\ Gathered /\ Streaming /\ Idle

LEMMA NothingThere ==
    /\ Encoded(<<>>) /\ (\A nx : UpToDate(<<>>, nx)) /\ \A e : ~Has(<<>>, e)
<1>1. DOMAIN <<>> = {} /\ <<>> \in Seq(Pkts)
  OBVIOUS
<1>2. Encoded(<<>>) /\ \A nx : UpToDate(<<>>, nx)
  BY <1>1, Zenon DEF Encoded, UpToDate
<1>3. \A e : ~Has(<<>>, e)
  BY <1>1, HasIs, Zenon
<1>. QED  BY <1>2, <1>3

LEMMA InitStream ==
    ASSUME Init
    PROVE  Gathered /\ Streaming /\ Idle
<1>1. interleaved_packets = <<>> /\ sent = <<>> /\ hooked = {}
  BY Zenon DEF Init
<1>2. Gathered
  BY <1>1, NothingThere, Zenon DEF Gathered
<1>. QED  BY <1>1, <1>2, Zenon DEF Streaming, Idle

\* Neither the queue nor what was sent changes.
LEMMA SameStream ==
    ASSUME SInv, UNCHANGED <<received, offsets, packets, next, sent>>
    PROVE  Gathered' /\ Streaming'
<1>1. /\ received_audio' = received_audio /\ received_video' = received_video
      /\ audio_offsets' = audio_offsets /\ video_offsets' = video_offsets
      /\ interleaved_packets' = interleaved_packets /\ next' = next /\ sent' = sent
  BY DEF received, offsets, packets
<1>2. Started' <=> Started
  BY <1>1, Zenon DEF Started, Complete
<1>3. Gathered'
  BY <1>1, <1>2, Zenon DEF SInv, Gathered
<1>4. Streaming'
  BY <1>1, <1>2, Zenon DEF SInv, Streaming
<1>. QED  BY <1>3, <1>4

LEMMA HookStream ==
    ASSUME SInv, Hook
    PROVE  Gathered' /\ Streaming' /\ Idle'
<1>1. interleaved_packets' = <<>> /\ sent' = <<>> /\ received_audio' = FALSE
  BY Zenon DEF Hook
<1>2. Gathered'
  BY <1>1, NothingThere, Zenon DEF Gathered
<1>. QED  BY <1>1, <1>2, Zenon DEF Streaming, Idle

LEMMA ActivateStream ==
    ASSUME SInv, Activate
    PROVE  Gathered' /\ Streaming' /\ Idle'
<1>1. active' /\ UNCHANGED <<received, offsets, packets, next, sent>>
  BY Zenon DEF Activate
<1>. QED  BY <1>1, SameStream, Zenon DEF Idle

LEMMA EndCaptureStream ==
    ASSUME SInv, EndCapture
    PROVE  Gathered' /\ Streaming' /\ Idle'
<1>1. hooked = {} /\ hooked' = hooked /\ UNCHANGED <<received, offsets, packets, next, sent>>
  BY Zenon DEF EndCapture
<1>. QED  BY <1>1, SameStream, Zenon DEF Idle

LEMMA StopEncoderStream ==
    ASSUME SInv, NEW e \in Encoders, StopEncoder(e)
    PROVE  Gathered' /\ Streaming' /\ Idle'
<1>1. active /\ active' = active /\ UNCHANGED <<received, offsets, packets, next, sent>>
  BY Zenon DEF StopEncoder
<1>. QED  BY <1>1, SameStream, Zenon DEF Idle

LEMMA DeliverEarlyStream ==
    ASSUME SInv, NEW e \in Encoders, DeliverEarly(e)
    PROVE  Gathered' /\ Streaming' /\ Idle'
<1>1. /\ ~active /\ e \in hooked /\ hooked' = hooked /\ sent' = sent
      /\ interleaved_packets' = interleaved_packets /\ received_audio' = received_audio
  BY DEF DeliverEarly, Arrives, Ready, packets, received
<1>2. interleaved_packets = <<>> /\ sent = <<>> /\ ~received_audio
  BY <1>1, Zenon DEF SInv, Idle
<1>3. Gathered'
  BY <1>1, <1>2, NothingThere, Zenon DEF Gathered
<1>. QED  BY <1>1, <1>2, <1>3, Zenon DEF Streaming, Idle

\* DeliverUnwanted throws away what is in front.
LEMMA UnwantedDrops ==
    ASSUME IInv, NEW e \in Encoders, DeliverUnwanted(e)
    PROVE  \E n \in 0..Len(interleaved_packets) :
              interleaved_packets' = Discarded(interleaved_packets, n)
<1> DEFINE p == Packet(e, next[e])
<1> DEFINE q == interleaved_packets
<1> DEFINE newer == SelectInSeq(q, LAMBDA c : c.ts >= p.ts)
<1> DEFINE n == IF newer = 0 THEN Len(q) ELSE newer - 1
<1>1. interleaved_packets' = Discarded(q, n)
  BY Zenon DEF DeliverUnwanted
<1>2. n \in 0..Len(q)
  <2> DEFINE I == {i \in 1..Len(q) : q[i].ts >= p.ts}
  <2>1. newer = IF I # {} THEN Min(I) ELSE 0
    BY Zenon DEF SelectInSeq
  <2>2. Len(q) \in Nat
    <3>1. q \in Seq(Pkts)
      BY Zenon DEF IInv, Consistent, Queue
    <3>. QED  BY <3>1
  <2>3. Ends(newer, Len(q), I)
    <3>1. I \in SUBSET (1..Len(q))
      OBVIOUS
    <3>. QED  BY <2>1, <2>2, <3>1, SearchEnds, Zenon
  <2> HIDE DEF newer
  <2>. QED  BY <2>2, <2>3 DEF Ends
<1>. QED  BY <1>1, <1>2, Zenon

\* What the queue is while packets are collected.
LEMMA GatheredIs ==
    ASSUME SInv, ~Started
    PROVE  /\ sent = <<>> /\ IInv /\ TypeOK
           /\ Collecting(interleaved_packets, encoder_packet_times, next)
           /\ interleaved_packets \in Seq(Pkts) /\ Sorted(interleaved_packets)
           /\ Encoded(interleaved_packets) /\ UpToDate(interleaved_packets, next)
           /\ \A v \in Videos : ~received_video[v] => ~Has(interleaved_packets, v)
<1>1. sent = <<>>
  BY Zenon DEF SInv, Streaming
<1>2. IInv /\ TypeOK /\ Collecting(interleaved_packets, encoder_packet_times, next)
  BY Zenon DEF SInv, IInv, Consistent, Collecting
<1>3. interleaved_packets \in Seq(Pkts) /\ Sorted(interleaved_packets)
  BY <1>2, Zenon DEF Collecting, Queue, InSystemTime, Sorted
<1>. QED  BY <1>1, <1>2, <1>3, Zenon DEF SInv, Gathered

LEMMA DeliverUnwantedStream ==
    ASSUME SInv, NEW e \in Encoders, DeliverUnwanted(e)
    PROVE  /\ ~Started /\ sent = <<>> /\ sent' = <<>>
           /\ received_audio' = received_audio /\ received_video' = received_video
           /\ e \in Videos /\ ~received_video[e]
           /\ Gathered' /\ Streaming' /\ Idle'
<1> DEFINE q == interleaved_packets
<1> DEFINE r == interleaved_packets'
<1>1. /\ active /\ active' = active /\ Arrives(e) /\ Unwanted(Packet(e, next[e]))
      /\ received_audio' = received_audio /\ received_video' = received_video /\ sent' = sent
  BY DEF DeliverUnwanted, received
<1>2. IInv /\ TypeOK
  BY Zenon DEF SInv, IInv
<1>3. /\ next \in [Encoders -> Nat] /\ next[e] \in Nat /\ next' = [next EXCEPT ![e] = @ + 1]
  BY <1>1, <1>2, OneMore, Zenon
<1>4. e \in Videos /\ ~received_video[e]
  <2>1. Packet(e, next[e]).enc = e
    BY <1>3, PacketIs, Zenon
  <2>. QED  BY <1>1, <2>1, Zenon DEF Unwanted, IsVideo
<1>5. ~Started
  BY <1>4, Zenon DEF Started, Complete
<1>6. /\ sent = <<>> /\ q \in Seq(Pkts) /\ Sorted(q) /\ Encoded(q) /\ UpToDate(q, next)
      /\ \A v \in Videos : ~received_video[v] => ~Has(q, v)
  BY <1>5, GatheredIs, Zenon
<1>7. PICK n \in 0..Len(q) : r = Discarded(q, n)
  BY <1>2, UnwantedDrops, Zenon
<1>8. Encoded(r) /\ UpToDate(r, next) /\ \A f : Has(r, f) => Has(q, f)
  BY <1>6, <1>7, LeftEncoded, Zenon
<1>9. r \in Seq(Pkts)
  BY <1>6, <1>7, DiscardedIs, Zenon DEF Behind
<1>10. UpToDate(r, next')
  <2>1. \A i \in DOMAIN r : r[i].enc # e
    BY <1>4, <1>6, <1>8, <1>9, HasIs, Zenon
  <2>2. \A i \in DOMAIN r : r[i].enc \in Encoders
    <3>1. \A i \in DOMAIN r : r[i] \in Pkts
      BY <1>9
    <3>. QED  BY <3>1 DEF Pkts
  <2>3. \A f \in Encoders : f # e => next'[f] = next[f]
    BY <1>3
  <2>4. \A i \in DOMAIN r : next'[r[i].enc] = next[r[i].enc]
    BY <2>1, <2>2, <2>3, Zenon
  <2>. QED  BY <1>8, <2>4, Zenon DEF UpToDate
<1>11. Gathered'
  BY <1>1, <1>6, <1>8, <1>10, Zenon DEF Gathered
<1>12. Streaming' /\ Idle'
  BY <1>1, <1>6, Zenon DEF Streaming, Idle
<1>. QED  BY <1>1, <1>4, <1>5, <1>6, <1>11, <1>12, Zenon

\* The packet is collected.
LEMMA CollectedGood ==
    ASSUME IInv, ~Started, NEW e \in Encoders, Arrives(e), NEW c, c = Collected(e, Packet(e, next[e]))
    PROVE  /\ Good(c, next') /\ c.ok /\ c.q = Insert(interleaved_packets, Packet(e, next[e]))
           /\ e \notin Videos => c.rv = received_video
           /\ e \in Videos => c.rv = [received_video EXCEPT ![e] = TRUE]
<1> DEFINE p == Packet(e, next[e])
<1> DEFINE q == interleaved_packets
<1>1. TypeOK /\ Collecting(q, encoder_packet_times, next)
  BY Zenon DEF IInv, Consistent, Collecting
<1>3. /\ next \in [Encoders -> Nat] /\ next[e] \in Nat /\ next' = [next EXCEPT ![e] = @ + 1]
  BY <1>1, OneMore, Zenon
<1>5. Collecting(Insert(q, p), WithTimes(encoder_packet_times, p), next')
  BY <1>1, <1>3, CollectInsert, Zenon
<1>6. p.enc = e
  BY <1>3, PacketIs, Zenon
<1> DEFINE ra == received_audio \/ ~IsVideo(p)
<1> DEFINE rv == IF IsVideo(p) THEN [received_video EXCEPT ![e] = TRUE] ELSE received_video
<1> DEFINE t == IF IsVideo(p)
                THEN [encoder_packet_times EXCEPT ![e] = Append(@, p.pts)]
                ELSE encoder_packet_times
<1>7. c = [q |-> Insert(q, p), times |-> t, ra |-> ra, rv |-> rv, ok |-> TRUE]
  BY Zenon DEF Collected
<1>8. t = WithTimes(encoder_packet_times, p)
  BY <1>6, Zenon DEF WithTimes, IsVideo
<1>9. Insert(q, p) \in Seq(Pkts) /\ t \in Times
  BY <1>5, <1>8, Zenon DEF Collecting, Queue
<1>10. ra \in BOOLEAN
  BY Zenon
<1>11. rv \in [Videos -> BOOLEAN]
  BY <1>1 DEF TypeOK
<1>12. /\ e \notin Videos => rv = received_video
       /\ e \in Videos => rv = [received_video EXCEPT ![e] = TRUE]
  BY <1>6, Zenon DEF IsVideo
<1> HIDE DEF ra, rv, t
<1> DEFINE w == Insert(q, p)
<1> HIDE DEF w
<1>13. w \in Seq(Pkts) /\ c = [q |-> w, times |-> t, ra |-> ra, rv |-> rv, ok |-> TRUE]
  BY <1>7, <1>9, Zenon DEF w
<1>14. c \in Colls /\ c.q = w /\ c.times = t /\ c.rv = rv /\ c.ok
  BY <1>9, <1>10, <1>11, <1>13 DEF Colls
<1>15. Good(c, next')
  BY <1>5, <1>8, <1>14, Zenon DEF Good, w
<1>. QED  BY <1>12, <1>14, <1>15, Zenon DEF w

\* What p is put into has p and what there was.
LEMMA InsertHas ==
    ASSUME NEW q \in Seq(Pkts), NEW p \in Pkts, NEW v
    PROVE  Has(Insert(q, p), v) <=> p.enc = v \/ Has(q, v)
<1>1. PICK k : Put(Insert(q, p), q, p, k)
  BY InsertPuts, Zenon
<1> DEFINE r == Insert(q, p)
<1>2. Put(r, q, p, k)
  BY <1>1
<1> HIDE DEF r
<1>3. /\ r \in Seq(Pkts) /\ k \in DOMAIN r /\ r[k] = p
      /\ \A i \in DOMAIN r \ {k} : Old(i, k) \in DOMAIN q /\ r[i] = q[Old(i, k)]
      /\ \A j \in DOMAIN q : \E i \in DOMAIN r \ {k} : r[i] = q[j]
  BY <1>2, Zenon DEF Put
<1>4. /\ Has(r, v) <=> \E i \in DOMAIN r : r[i].enc = v
      /\ Has(q, v) <=> \E i \in DOMAIN q : q[i].enc = v
  BY <1>3, HasIs, Zenon
<1>5. (\E i \in DOMAIN r : r[i].enc = v) => p.enc = v \/ \E j \in DOMAIN q : q[j].enc = v
  <2>1. \A i \in DOMAIN r : r[i] = p \/ \E j \in DOMAIN q : r[i] = q[j]
    BY <1>3, Zenon
  <2>. QED  BY <2>1, Zenon
<1>6. (p.enc = v \/ \E j \in DOMAIN q : q[j].enc = v) => \E i \in DOMAIN r : r[i].enc = v
  BY <1>3, Zenon
<1>. QED  BY <1>4, <1>5, <1>6, Zenon DEF r

LEMMA CollectedFit ==
    ASSUME SInv, ~Started, NEW e \in Encoders, Arrives(e), NEW c, c = Collected(e, Packet(e, next[e]))
    PROVE  /\ Fit(c, next') /\ c.ok
           /\ (received_video[Video(0)] => Has(interleaved_packets, Video(0))) => Told(c)
<1> DEFINE p == Packet(e, next[e])
<1> DEFINE q == interleaved_packets
<1>1. /\ sent = <<>> /\ IInv /\ TypeOK /\ q \in Seq(Pkts) /\ Encoded(q) /\ UpToDate(q, next)
      /\ \A v \in Videos : ~received_video[v] => ~Has(q, v)
  BY GatheredIs, Zenon
<1>2. /\ Good(c, next') /\ c.ok /\ c.q = Insert(q, p)
      /\ e \notin Videos => c.rv = received_video
      /\ e \in Videos => c.rv = [received_video EXCEPT ![e] = TRUE]
  BY <1>1, CollectedGood, Zenon
<1>3. /\ next \in [Encoders -> Nat] /\ next[e] \in Nat /\ next' = [next EXCEPT ![e] = @ + 1]
  BY <1>1, OneMore, Zenon
<1>4. p \in Pkts /\ p.enc = e /\ p.n = next[e]
  BY <1>3, PacketIs, Zenon
<1>5. p = Packet(p.enc, p.n)
  <2>1. PICK n : n = next[e]
    OBVIOUS
  <2>2. p = Packet(e, n) /\ p.enc = e /\ p.n = n
    BY <1>4, <2>1, Zenon
  <2> HIDE DEF p
  <2>. QED  BY <2>2, Zenon
<1> HIDE DEF p
<1>6. PICK k : Put(Insert(q, p), q, p, k)
  BY <1>1, <1>4, InsertPuts, Zenon
<1>7. UpToDate(Insert(q, p), next')
  <2>1. UpToDate(Insert(q, p), [next EXCEPT ![p.enc] = @ + 1])
    BY <1>1, <1>3, <1>4, <1>6, PutUpToDate, Zenon
  <2>. QED  BY <1>3, <1>4, <2>1, Zenon
<1>8. Encoded(Insert(q, p))
  <2> DEFINE r == Insert(q, p)
  <2>1. Put(r, q, p, k)
    BY <1>6
  <2> HIDE DEF r
  <2>2. \A i \in DOMAIN r : r[i] = p \/ \E j \in DOMAIN q : r[i] = q[j]
    BY <2>1, Zenon DEF Put
  <2>3. \A j \in DOMAIN q : q[j] = Packet(q[j].enc, q[j].n)
    BY <1>1, Zenon DEF Encoded
  <2>4. ASSUME NEW i \in DOMAIN r PROVE r[i] = Packet(r[i].enc, r[i].n)
    <3>1. PICK x : x = r[i] /\ x = Packet(x.enc, x.n)
      BY <1>5, <2>2, <2>3, Zenon
    <3>. QED  BY <3>1, Zenon
  <2>. QED  BY <2>4, Zenon DEF Encoded, r
<1>9. \A v : Has(c.q, v) <=> e = v \/ Has(q, v)
  <2>1. \A v : Has(Insert(q, p), v) <=> p.enc = v \/ Has(q, v)
    BY <1>1, <1>4, InsertHas, Zenon
  <2>. QED  BY <1>2, <1>4, <2>1, Zenon
<1>10. \A v \in Videos : v # e => (c.rv[v] <=> received_video[v])
  <2>1. received_video \in [Videos -> BOOLEAN]
    BY <1>1 DEF TypeOK
  <2>. QED  BY <1>2, <2>1
<1>11. e \in Videos => c.rv[e]
  <2>1. received_video \in [Videos -> BOOLEAN]
    BY <1>1 DEF TypeOK
  <2>. QED  BY <1>2, <2>1
<1>12. \A v \in Videos : ~c.rv[v] => ~Has(c.q, v)
  BY <1>1, <1>9, <1>10, <1>11, Zenon
<1>13. Fit(c, next')
  BY <1>2, <1>7, <1>8, <1>12, Zenon DEF Fit
<1>14. (received_video[Video(0)] => Has(q, Video(0))) => Told(c)
  BY <1>9, <1>10, EncodersAreFinite, Zenon DEF Told
<1>. QED  BY <1>2, <1>13, <1>14

\* With one video track, its flag tells whether it is there.
ToldOf == received_video[Video(0)] => Has(interleaved_packets, Video(0))

\* What interleave_packets comes to before the stream has started: d is what
\* is left of what was collected.
LEMMA FirstCases ==
    ASSUME SInv, NEW e \in Encoders, DeliverFirst(e)
    PROVE  /\ sent = <<>> /\ active /\ active' = active /\ ~Started /\ Arrives(e)
           /\ \E d : /\ Fit(d, next')
                     /\ \/ /\ Begins(d) /\ Complete(d.ra, d.rv) /\ \A f \in Encoders : Has(d.q, f)
                        \/ /\ Waits(d)
                           /\ VideoTracks = {0} /\ ToldOf => Told(d) /\ ~Complete(d.ra, d.rv)
<1> DEFINE c == Collected(e, Packet(e, next[e]))
<1>1. /\ active /\ active' = active /\ ~Started /\ Arrives(e)
      /\ IF ~Complete(c.ra, c.rv) THEN Waits(c)
         ELSE IF Attempt(c).ok THEN Begins(Attempt(c))
         ELSE Waits(Attempt(c))
  BY DEF DeliverFirst
<1>2. sent = <<>>
  BY <1>1, GatheredIs, Zenon
<1>3. Fit(c, next') /\ c.ok /\ (ToldOf => Told(c))
  BY <1>1, CollectedFit, Zenon DEF ToldOf
<1> HIDE DEF c
<1>4. CASE ~Complete(c.ra, c.rv)
  <2>1. Waits(c)
    BY <1>1, <1>4, Zenon
  <2>. QED  BY <1>1, <1>2, <1>3, <1>4, <2>1, Zenon
<1>5. CASE Complete(c.ra, c.rv)
  <2> DEFINE d == Attempt(c)
  <2>1. Fit(d, next') /\ (VideoTracks = {0} /\ Has(c.q, Video(0)) => Retries(d))
    BY <1>3, AttemptFit, Zenon
  <2>2. Begun(d, c)
    BY <1>3, FitQueue, AttemptGood, Zenon
  <2>3. IF d.ok THEN Begins(d) ELSE Waits(d)
    BY <1>1, <1>5, Zenon
  <2>4. ToldOf => Has(c.q, Video(0))
    BY <1>3, <1>5, EncodersAreFinite, Zenon DEF Told, Complete
  <2> HIDE DEF d
  <2>5. CASE d.ok
    <3>1. Begins(d) /\ Complete(d.ra, d.rv) /\ \A f \in Encoders : Has(d.q, f)
      BY <1>5, <2>2, <2>3, <2>5, Zenon DEF Begun
    <3>. QED  BY <1>1, <1>2, <2>1, <3>1, Zenon
  <2>6. CASE ~d.ok
    <3>1. Waits(d) /\ (VideoTracks = {0} /\ ToldOf => Told(d) /\ ~Complete(d.ra, d.rv))
      BY <2>1, <2>3, <2>4, <2>6, Zenon DEF Retries
    <3>. QED  BY <1>1, <1>2, <2>1, <3>1, Zenon
  <2>. QED  BY <2>5, <2>6
<1>. QED  BY <1>4, <1>5

\* Nothing but the queue, its times and the flags changes.
LEMMA WaitsStream ==
    ASSUME sent = <<>>, NEW c, Fit(c, next'), Waits(c), active'
    PROVE  Gathered' /\ Streaming' /\ Idle' /\ sent' = <<>>
<1>1. /\ interleaved_packets' = c.q /\ received_video' = c.rv /\ sent' = <<>>
  BY Zenon DEF Waits
<1>2. Gathered'
  BY <1>1, FitQueue, Zenon DEF Gathered
<1>. QED  BY <1>1, <1>2, Zenon DEF Streaming, Idle

LEMMA BeginsStream ==
    ASSUME SInv, sent = <<>>, NEW e \in Encoders, Arrives(e), NEW c, Fit(c, next'), Complete(c.ra, c.rv),
           \A f \in Encoders : Has(c.q, f), Begins(c), active'
    PROVE  Gathered' /\ Streaming' /\ Idle' /\ sent' # <<>>
<1> DEFINE q == c.q
<1> DEFINE voff == [v \in Videos |-> First(q, v).pts]
<1> DEFINE aoff == [a \in Audios |-> AudioOffset(First(q, a))]
<1> DEFINE shifted == [i \in DOMAIN q |-> Shifted(q[i], aoff, voff)]
<1> DEFINE in == [q |-> Resorted(shifted), sent |-> sent,
                  times |-> [v \in Videos |-> [k \in DOMAIN c.times[v] |-> c.times[v][k] - voff[v]]]]
<1> DEFINE out == Sent(in)
<1>1. /\ received_audio' = c.ra /\ received_video' = c.rv
      /\ video_offsets' = voff /\ audio_offsets' = aoff
      /\ interleaved_packets' = out.q /\ sent' = out.sent
  BY Zenon DEF Begins
<1>2. Queue(q, next', Zero) /\ q \in Seq(Pkts) /\ Encoded(q) /\ UpToDate(q, next')
  BY FitQueue, Zenon DEF Good, Collecting
<1>3. next' \in [Encoders -> Nat]
  <2>1. TypeOK /\ MaxPackets \in Nat
    BY BoundsAssumption, Zenon DEF SInv, IInv
  <2>2. next' \in [Encoders -> 0..MaxPackets + 1]
    BY <2>1, OneMore, Zenon
  <2>. QED  BY <2>1, <2>2
<1>4. voff \in [Videos -> Int] /\ aoff \in [Audios -> Int]
  <2>0. \A f \in Encoders : First(q, f) \in Pkts
    BY <1>2, IdxIs, Zenon
  <2>1. \A x \in Pkts : x.pts \in Int /\ AudioOffset(x) \in Int
    BY DEF Pkts, AudioOffset
  <2>2. \A v \in Videos : First(q, v).pts \in Int
    BY <2>0, <2>1, Zenon DEF Encoders
  <2>3. \A a \in Audios : AudioOffset(First(q, a)) \in Int
    BY <2>0, <2>1 DEF Encoders
  <2>. QED  BY <2>2, <2>3
<1> HIDE DEF voff, aoff
<1>5. Flow(<<>>, Resorted(shifted), next', aoff, voff)
  BY <1>2, <1>3, <1>4, BeginsFlow, Zenon
<1>6. Resorted(shifted) # <<>>
  <2>1. q # <<>>
    <3>1. Has(q, Video(0))
      BY EncodersAreFinite, Zenon DEF Encoders
    <3>2. \E i : i \in DOMAIN q
      BY <1>2, <3>1, HasIs, Zenon
    <3>. QED  BY <3>2
  <2>2. Queue(shifted, next', voff) /\ shifted # <<>>
    BY <1>2, <1>4, <2>1, ShiftedQueue, ZenonT(30)
  <2>. QED  BY <2>2, ResortedQueue, Zenon
<1>7. in.q = Resorted(shifted) /\ in.sent = <<>>
  OBVIOUS
<1> HIDE DEF in, shifted
<1>8. Flow(in.sent, in.q, next', aoff, voff) /\ in.q # <<>>
  BY <1>5, <1>6, <1>7, Zenon
<1>9. Flow(out.sent, out.q, next', aoff, voff) /\ out.sent # <<>>
  BY <1>8, SentFlow, Zenon
<1> HIDE DEF out
<1>10. Started'
  BY <1>1, Zenon DEF Started, Complete
<1>11. Streaming'
  BY <1>1, <1>9, <1>10, Zenon DEF Streaming
<1>12. Gathered' /\ Idle'
  BY <1>1, <1>9, Zenon DEF Gathered, Idle
<1>. QED  BY <1>1, <1>9, <1>11, <1>12, Zenon

LEMMA DeliverFirstStream ==
    ASSUME SInv, NEW e \in Encoders, DeliverFirst(e)
    PROVE  Gathered' /\ Streaming' /\ Idle'
<1>1. sent = <<>> /\ active' /\ Arrives(e)
  <2>1. sent = <<>> /\ active /\ active' = active /\ Arrives(e)
    BY FirstCases
  <2>. QED  BY <2>1, Zenon
<1>2. PICK d : /\ Fit(d, next')
               /\ \/ Begins(d) /\ Complete(d.ra, d.rv) /\ \A f \in Encoders : Has(d.q, f)
                  \/ Waits(d)
  BY FirstCases, Zenon
<1>3. CASE Waits(d)
  BY <1>1, <1>2, <1>3, WaitsStream, Zenon
<1>4. CASE Begins(d) /\ Complete(d.ra, d.rv) /\ \A f \in Encoders : Has(d.q, f)
  BY <1>1, <1>2, <1>4, BeginsStream, Zenon
<1>. QED  BY <1>2, <1>3, <1>4

\* What is sent while p arrives: nothing, or the first packet or two that may
\* go according to the highest times ha and hv.
Sends(c, r, ha, hv) ==
    LET may(i) == i \in DOMAIN c.q /\ HigherOpposing(c.q[i], ha, hv)
    IN \/ r = c
       \/ may(1) /\ r = Sent(c)
       \/ may(1) /\ may(2) /\ r = Sent(Sent(c))

LEMMA NextSends ==
    ASSUME IInv, NEW e \in Encoders, DeliverNext(e)
    PROVE  \E c, r :
              /\ c.q = Insert(interleaved_packets, InStream(e, next[e], audio_offsets, video_offsets))
              /\ c.sent = sent
              /\ interleaved_packets' = r.q /\ sent' = r.sent
              /\ Sends(c, r, highest_audio_ts', highest_video_ts')
<1> DEFINE out == Shifted(Packet(e, next[e]), audio_offsets, video_offsets)
<1> DEFINE ha == IF IsVideo(out) THEN highest_audio_ts ELSE Greatest({highest_audio_ts, out.ts})
<1> DEFINE hv == IF IsVideo(out) THEN [highest_video_ts EXCEPT ![e] = Greatest({@, out.ts})]
                 ELSE highest_video_ts
<1> DEFINE q == interleaved_packets
<1> DEFINE in == Collected(e, out)
<1> DEFINE c == [q |-> in.q, times |-> in.times, sent |-> sent]
<1> DEFINE n == Streamable(c.q, ha, hv)
<1> DEFINE res == IF n = 0 THEN c
                  ELSE IF n - 1 > interleaver_max_batch_size THEN Sent(Sent(c)) ELSE Sent(c)
<1>1. /\ highest_audio_ts' = ha /\ highest_video_ts' = hv
      /\ interleaved_packets' = res.q /\ sent' = res.sent /\ Arrives(e)
  BY Zenon DEF DeliverNext
<1>2. TypeOK /\ q \in Seq(Pkts)
  BY Zenon DEF IInv, Consistent, Queue
<1>3. out = InStream(e, next[e], audio_offsets, video_offsets)
  BY Zenon DEF InStream
<1>4. out \in Pkts
  <2>1. next[e] \in Nat
    BY <1>1, <1>2, OneMore, Zenon
  <2>2. audio_offsets \in [Audios -> Int] /\ video_offsets \in [Videos -> Int]
    BY <1>2 DEF TypeOK
  <2>3. PICK m \in Nat : m = next[e]
    BY <2>1
  <2>4. InStream(e, m, audio_offsets, video_offsets) \in Pkts
    BY <2>2, InStreamIs
  <2>. QED  BY <1>3, <2>3, <2>4, Zenon
<1> HIDE DEF out
<1>5. in.q = Insert(q, out)
  BY Zenon DEF Collected
<1> HIDE DEF in
<1>6. c.q = Insert(q, out) /\ c.sent = sent
  BY <1>5
<1> HIDE DEF c, ha, hv
<1>7. c.q \in Seq(Pkts) /\ Len(c.q) \in Nat /\ DOMAIN c.q = 1..Len(c.q)
  <2>1. c.q \in Seq(Pkts)
    <3>1. PICK k : Put(Insert(q, out), q, out, k)
      BY <1>2, <1>4, InsertPuts, Zenon
    <3>. QED  BY <1>6, <3>1, Zenon DEF Put
  <2>. QED  BY <2>1
<1>8. n \in 0..Len(c.q) /\ \A i \in 1..n : HigherOpposing(c.q[i], ha, hv)
  <2> DEFINE I == {i \in 1..Len(c.q) : ~HigherOpposing(c.q[i], ha, hv)}
  <2> DEFINE held == IF I # {} THEN Min(I) ELSE 0
  <2>1. n = IF held = 0 THEN Len(c.q) ELSE held - 1
    BY Zenon DEF Streamable, SelectInSeq
  <2>2. I \in SUBSET (1..Len(c.q)) /\ \A i \in 1..Len(c.q) : i \in I \/ HigherOpposing(c.q[i], ha, hv)
    OBVIOUS
  <2> HIDE DEF I
  <2>3. Ends(held, Len(c.q), I)
    BY <1>7, <2>2, SearchEnds, Zenon
  <2>4. I # {} => Min(I) \in I /\ \A i \in I : Min(I) <= i
    <3>1. I \in SUBSET Nat
      BY <2>2
    <3>. QED  BY <3>1, <1>7, <2>2, MinInSet, Zenon
  <2>5. I # {} => \A i \in I : held <= i
    BY <2>4, Zenon
  <2> HIDE DEF held, n
  <2>6. CASE held = 0
    <3>1. I = {} /\ n = Len(c.q)
      BY <2>1, <2>3, <2>6, Zenon DEF Ends
    <3>2. Len(c.q) \in 0..Len(c.q)
      BY <1>7
    <3>. QED  BY <2>2, <3>1, <3>2, Zenon
  <2>7. CASE held # 0
    <3>1. held \in 0..Len(c.q) /\ n = held - 1 /\ \A i \in I : held <= i
      BY <2>1, <2>3, <2>5, <2>7, Zenon DEF Ends
    <3>2. n \in 0..Len(c.q) /\ \A i \in 1..n : i \in 1..Len(c.q) /\ ~(held <= i)
      BY <1>7, <2>7, <3>1
    <3>. QED  BY <2>2, <3>1, <3>2, Zenon
  <2>. QED  BY <2>6, <2>7
<1> HIDE DEF n
<1>9. Sends(c, res, ha, hv)
  <2>0. interleaver_max_batch_size \in Nat
    BY <1>2, Zenon DEF TypeOK
  <2>1. CASE n = 0
    <3>1. res = c
      BY <2>1, Zenon
    <3>. QED  BY <3>1, Zenon DEF Sends
  <2>2. CASE n # 0
    <3>1. 1 \in 1..n /\ 1 \in DOMAIN c.q
      BY <1>7, <1>8, <2>2
    <3>2. CASE ~(n - 1 > interleaver_max_batch_size)
      <4>1. res = Sent(c)
        BY <2>2, <3>2, Zenon
      <4>. QED  BY <1>8, <3>1, <4>1, Zenon DEF Sends
    <3>3. CASE n - 1 > interleaver_max_batch_size
      <4>1. res = Sent(Sent(c))
        BY <2>2, <3>3, Zenon
      <4>2. 2 \in 1..n /\ 2 \in DOMAIN c.q
        BY <1>7, <1>8, <2>0, <2>2, <3>3
      <4>. QED  BY <1>8, <3>1, <4>1, <4>2, Zenon DEF Sends
    <3>. QED  BY <3>2, <3>3
  <2>. QED  BY <2>1, <2>2
<1> HIDE DEF res
<1>. QED  BY <1>1, <1>3, <1>6, <1>9, Zenon

LEMMA DeliverNextStream ==
    ASSUME SInv, BegunBySending, NEW e \in Encoders, DeliverNext(e)
    PROVE  Gathered' /\ Streaming' /\ Idle' /\ sent' # <<>>
<1> DEFINE aoff == audio_offsets
<1> DEFINE voff == video_offsets
<1>1. /\ active' /\ Started /\ Arrives(e)
      /\ received_audio' = received_audio /\ received_video' = received_video
      /\ audio_offsets' = audio_offsets /\ video_offsets' = video_offsets
  BY DEF DeliverNext, received, offsets
<1>2. IInv /\ TypeOK /\ sent # <<>> /\ Flow(sent, interleaved_packets, next, aoff, voff)
  BY <1>1, Zenon DEF SInv, IInv, Streaming, BegunBySending
<1>3. /\ next \in [Encoders -> Nat] /\ next[e] \in Nat /\ next' = [next EXCEPT ![e] = @ + 1]
      /\ aoff \in [Audios -> Int] /\ voff \in [Videos -> Int]
  <2>1. aoff \in [Audios -> Int] /\ voff \in [Videos -> Int]
    BY <1>2 DEF TypeOK
  <2>. QED  BY <1>1, <1>2, <2>1, OneMore, Zenon
<1>4. PICK c, r :
              /\ c.q = Insert(interleaved_packets, InStream(e, next[e], aoff, voff))
              /\ c.sent = sent
              /\ interleaved_packets' = r.q /\ sent' = r.sent
              /\ Sends(c, r, highest_audio_ts', highest_video_ts')
  BY <1>2, NextSends, Zenon
<1>5. Flow(c.sent, c.q, next', aoff, voff)
  <2>1. Flow(sent, Insert(interleaved_packets, InStream(e, next[e], aoff, voff)),
             [next EXCEPT ![e] = @ + 1], aoff, voff)
    BY <1>2, <1>3, InsertFlow, Zenon
  <2>. QED  BY <1>3, <1>4, <2>1, Zenon
<1>6. c.q \in Seq(Pkts)
  BY <1>5, Zenon DEF Flow
<1>7. 1 \in DOMAIN c.q => Flow(Sent(c).sent, Sent(c).q, next', aoff, voff) /\ Sent(c).sent # <<>>
  <2>1. 1 \in DOMAIN c.q => c.q # <<>>
    BY <1>6
  <2>. QED  BY <1>5, <2>1, SentFlow, Zenon
<1>8. 1 \in DOMAIN c.q /\ 2 \in DOMAIN c.q =>
        Flow(Sent(Sent(c)).sent, Sent(Sent(c)).q, next', aoff, voff) /\ Sent(Sent(c)).sent # <<>>
  <2> SUFFICES ASSUME 1 \in DOMAIN c.q, 2 \in DOMAIN c.q
               PROVE  Flow(Sent(Sent(c)).sent, Sent(Sent(c)).q, next', aoff, voff)
                      /\ Sent(Sent(c)).sent # <<>>
    OBVIOUS
  <2>1. Sent(c).q = Tail(c.q)
    <3>1. c.q # <<>>
      BY <1>6
    <3>. QED  BY <1>6, <3>1, SentIs, Zenon
  <2>2. Tail(c.q) # <<>>
    <3>1. c.q # <<>> /\ Len(c.q) \in Nat /\ 1 \in 1..Len(c.q) - 1
      BY <1>6
    <3>2. DOMAIN Tail(c.q) = 1..Len(c.q) - 1
      BY <1>6, <3>1, RestIs, Zenon DEF Rest
    <3>3. DOMAIN <<>> = {}
      OBVIOUS
    <3>. QED  BY <3>1, <3>2, <3>3, Zenon
  <2>. QED  BY <1>7, <2>1, <2>2, SentFlow, Zenon
<1>9. Flow(r.sent, r.q, next', aoff, voff) /\ r.sent # <<>>
  BY <1>2, <1>4, <1>5, <1>7, <1>8, Zenon DEF Sends
<1>10. Started'
  BY <1>1, Zenon DEF Started, Complete
<1>11. Streaming' /\ sent' # <<>>
  BY <1>1, <1>4, <1>9, <1>10, Zenon DEF Streaming
<1>12. Gathered' /\ Idle'
  BY <1>1, <1>11, Zenon DEF Gathered, Idle
<1>. QED  BY <1>11, <1>12

\* As long as the stream starts with its first packet, every step keeps what
\* is known of it.
LEMMA NextStream ==
    ASSUME SInv, BegunBySending, [Next]_vars
    PROVE  SInv'
<1>0. IInv'
  BY NextInv, Zenon DEF SInv
<1>1. CASE Hook
  BY <1>0, <1>1, HookStream, Zenon DEF SInv
<1>2. CASE Activate
  BY <1>0, <1>2, ActivateStream, Zenon DEF SInv
<1>3. CASE EndCapture
  BY <1>0, <1>3, EndCaptureStream, Zenon DEF SInv
<1>4. ASSUME NEW e \in Encoders, StopEncoder(e) PROVE SInv'
  BY <1>0, <1>4, StopEncoderStream, Zenon DEF SInv
<1>5. ASSUME NEW e \in Encoders, DeliverEarly(e) PROVE SInv'
  BY <1>0, <1>5, DeliverEarlyStream, Zenon DEF SInv
<1>6. ASSUME NEW e \in Encoders, DeliverUnwanted(e) PROVE SInv'
  BY <1>0, <1>6, DeliverUnwantedStream, Zenon DEF SInv
<1>7. ASSUME NEW e \in Encoders, DeliverFirst(e) PROVE SInv'
  BY <1>0, <1>7, DeliverFirstStream, Zenon DEF SInv
<1>8. ASSUME NEW e \in Encoders, DeliverNext(e) PROVE SInv'
  BY <1>0, <1>8, DeliverNextStream, Zenon DEF SInv
<1>9. CASE UNCHANGED vars
  <2>1. /\ UNCHANGED <<received, offsets, packets, next, sent>>
        /\ active' = active /\ hooked' = hooked /\ received_audio' = received_audio
        /\ interleaved_packets' = interleaved_packets /\ sent' = sent
    BY <1>9 DEF vars, received, packets
  <2>2. Gathered' /\ Streaming'
    BY <2>1, SameStream, Zenon
  <2>3. Idle'
    BY <2>1, Zenon DEF SInv, Idle
  <2>. QED  BY <1>0, <2>2, <2>3, Zenon DEF SInv
<1>. QED  BY <1>1, <1>2, <1>3, <1>4, <1>5, <1>6, <1>7, <1>8, <1>9, Zenon DEF Next

LEMMA InitSInv == Init => SInv
BY InitInv, InitStream, Zenon DEF SInv

(* NoGaps is what Flow says of the packets that were sent and that wait.   *)
LEMMA StreamNoGaps == SInv => NoGaps
<1> SUFFICES ASSUME SInv, sent # <<>>, NEW e \in Encoders,
                    NEW w, w = sent \o interleaved_packets, NEW i \in Waiting(w, e)
             PROVE  /\ \A j \in Waiting(w, e) : i < j => w[i].n < w[j].n
                    /\ {w[j].n : j \in {j \in Waiting(w, e) : i <= j}} = w[i].n..next[e] - 1
  BY Zenon DEF NoGaps
<1>1. /\ TypeOK /\ sent \in Seq(Sents) /\ interleaved_packets \in Seq(Pkts)
      /\ Unbroken(w, next)
  BY Zenon DEF SInv, IInv, Streaming, Flow
<1>2. DOMAIN w \in SUBSET Int
  <2>1. DOMAIN w = 1..Len(sent) + Len(interleaved_packets)
    BY <1>1, JoinedIs, Zenon DEF Joined
  <2>. QED  BY <2>1
<1>3. next \in [Encoders -> Nat]
  <2>1. next \in [Encoders -> 0..MaxPackets + 1] /\ MaxPackets \in Nat
    BY <1>1, BoundsAssumption DEF TypeOK
  <2>. QED  BY <2>1
<1>4. \A j \in Waiting(w, e) : i < j => w[i].n < w[j].n
  BY <1>1, <1>3, UnbrokenIs, Zenon
<1>5. AllFrom(w, e, i, next[e])
  BY <1>1, <1>2, <1>3, UnbrokenIs, Zenon
<1>. QED  BY <1>4, <1>5, Zenon DEF AllFrom

\* With one video track.
ToldAlways == sent = <<>> /\ ~Started => ToldOf

LEMMA SameTold ==
    ASSUME BegunBySending, ToldAlways, UNCHANGED <<received, packets, sent>>
    PROVE  BegunBySending' /\ ToldAlways'
<1>1. /\ received_audio' = received_audio /\ received_video' = received_video
      /\ interleaved_packets' = interleaved_packets /\ sent' = sent
  BY DEF received, packets
<1>2. Started' <=> Started
  BY <1>1, Zenon DEF Started, Complete
<1>. QED  BY <1>1, <1>2, Zenon DEF BegunBySending, ToldAlways, ToldOf

LEMMA NextTold ==
    ASSUME VideoTracks = {0}, SInv, BegunBySending, ToldAlways, [Next]_vars
    PROVE  BegunBySending' /\ ToldAlways'
<1>1. CASE Hook
  <2>1. received_audio' = FALSE /\ received_video' = [e \in Videos |-> FALSE]
    BY <1>1, Zenon DEF Hook
  <2>2. ~received_video'[Video(0)] /\ ~Started'
    BY <2>1, EncodersAreFinite, Zenon DEF Started, Complete
  <2>. QED  BY <2>2, Zenon DEF BegunBySending, ToldAlways, ToldOf
<1>2. ASSUME NEW e \in Encoders, DeliverUnwanted(e) PROVE BegunBySending' /\ ToldAlways'
  <2>1. /\ ~Started /\ sent = <<>> /\ received_audio' = received_audio
        /\ received_video' = received_video /\ e \in Videos /\ ~received_video[e]
    BY <1>2, DeliverUnwantedStream, Zenon
  <2>2. e = Video(0)
    BY <2>1, OneVideoFirst
  <2>. QED  BY <2>1, <2>2, Zenon DEF BegunBySending, ToldAlways, ToldOf, Started, Complete
<1>3. ASSUME NEW e \in Encoders, DeliverFirst(e) PROVE BegunBySending' /\ ToldAlways'
  <2>1. sent = <<>> /\ ~Started /\ Arrives(e) /\ active'
    <3>1. sent = <<>> /\ active /\ active' = active /\ ~Started /\ Arrives(e)
      BY <1>3, FirstCases
    <3>. QED  BY <3>1, Zenon
  <2>2. ToldOf
    BY <2>1, Zenon DEF ToldAlways
  <2>3. PICK d : /\ Fit(d, next')
                 /\ \/ Begins(d) /\ Complete(d.ra, d.rv) /\ \A f \in Encoders : Has(d.q, f)
                    \/ Waits(d) /\ Told(d) /\ ~Complete(d.ra, d.rv)
    BY <1>3, <2>2, FirstCases, Zenon
  <2>4. CASE Waits(d) /\ Told(d) /\ ~Complete(d.ra, d.rv)
    <3>1. interleaved_packets' = d.q /\ received_audio' = d.ra /\ received_video' = d.rv
      BY <2>4, Zenon DEF Waits
    <3>. QED  BY <2>4, <3>1, Zenon DEF Told, ToldOf, ToldAlways, BegunBySending, Started, Complete
  <2>5. CASE Begins(d) /\ Complete(d.ra, d.rv) /\ \A f \in Encoders : Has(d.q, f)
    <3>1. sent' # <<>>
      BY <2>1, <2>3, <2>5, BeginsStream, Zenon
    <3>. QED  BY <3>1, Zenon DEF ToldAlways, BegunBySending
  <2>. QED  BY <2>3, <2>4, <2>5
<1>4. ASSUME NEW e \in Encoders, DeliverNext(e) PROVE BegunBySending' /\ ToldAlways'
  <2>1. sent' # <<>>
    BY <1>4, DeliverNextStream, Zenon
  <2>. QED  BY <2>1, Zenon DEF ToldAlways, BegunBySending
<1>5. CASE Activate
  <2>1. UNCHANGED <<received, packets, sent>>
    BY <1>5, Zenon DEF Activate
  <2>. QED  BY <2>1, SameTold
<1>6. CASE EndCapture
  <2>1. UNCHANGED <<received, packets, sent>>
    BY <1>6, Zenon DEF EndCapture
  <2>. QED  BY <2>1, SameTold
<1>7. ASSUME NEW e \in Encoders, StopEncoder(e) PROVE BegunBySending' /\ ToldAlways'
  <2>1. UNCHANGED <<received, packets, sent>>
    BY <1>7, Zenon DEF StopEncoder
  <2>. QED  BY <2>1, SameTold
<1>8. ASSUME NEW e \in Encoders, DeliverEarly(e) PROVE BegunBySending' /\ ToldAlways'
  <2>1. UNCHANGED <<received, packets, sent>>
    BY <1>8, Zenon DEF DeliverEarly
  <2>. QED  BY <2>1, SameTold
<1>9. CASE UNCHANGED vars
  <2>1. UNCHANGED <<received, packets, sent>>
    BY <1>9, Zenon DEF vars
  <2>. QED  BY <2>1, SameTold
<1>. QED  BY <1>1, <1>2, <1>3, <1>4, <1>5, <1>6, <1>7, <1>8, <1>9, Zenon DEF Next

(* interleave_packets, with video track 0 only: get_audio_and_video_packets *)
(* finds a track of every kind that is marked as received, so that once     *)
(* all are marked the offsets have been taken and the first packet sent.    *)
THEOREM OneVideoBegins == VideoTracks = {0} /\ Spec => []BegunBySending
<1> SUFFICES ASSUME VideoTracks = {0} PROVE Spec => []BegunBySending
  OBVIOUS
<1> DEFINE I == SInv /\ BegunBySending /\ ToldAlways
<1>1. Init => I
  <2>1. Init => received_audio = FALSE /\ received_video = [e \in Videos |-> FALSE]
    BY Zenon DEF Init
  <2>2. Init => ~received_video[Video(0)] /\ ~Started
    BY <2>1, EncodersAreFinite, Zenon DEF Started, Complete
  <2>. QED  BY <2>2, InitSInv, Zenon DEF BegunBySending, ToldAlways, ToldOf
<1>2. I /\ [Next]_vars => I'
  BY NextStream, NextTold, Zenon
<1>. QED  BY <1>1, <1>2, PTL DEF Spec

(* interleave_packets: while it starts a stream with its first packet, no   *)
(* packet is lost after the first one of its track that is in the stream,   *)
(* none is sent twice, and those of a track keep their order, through       *)
(* discard_to_idx, resort_interleaved_packets and send_interleaved.         *)
THEOREM PacketsKept == Spec /\ []BegunBySending => []NoGaps
<1>1. SInv /\ BegunBySending /\ [Next]_vars => SInv'
  BY NextStream
<1>. QED  BY <1>1, InitSInv, StreamNoGaps, PTL DEF Spec

-----------------------------------------------------------------------------
(* The order of the stream                                                 *)

\* The highest timestamp of the tracks of a kind, and of a video track.
TrackHigh(e, ha, hv) == IF e \in Videos THEN hv[e] ELSE ha

\* What was sent is in order, behind what waits, and no track has yet to get
\* there; the highest timestamps are at least those of what waits.
Ranked(s, q, ha, hv) ==
    /\ \A i, j \in DOMAIN s : i < j => s[i].ts <= s[j].ts
    /\ \A i \in DOMAIN s : \A j \in DOMAIN q : s[i].ts <= q[j].ts
    /\ \A i \in DOMAIN s : \A e \in Encoders : s[i].ts <= TrackHigh(e, ha, hv)
    /\ \A j \in DOMAIN q : q[j].ts <= TrackHigh(q[j].enc, ha, hv)

\* The next packet of every track is above the highest timestamp.
Above(ha, hv, nx, aoff, voff) ==
    \A e \in Encoders : TrackHigh(e, ha, hv) < Due(e, nx[e], aoff, voff)

LEMMA RankedSent ==
    ASSUME NEW c, c.sent \in Seq(Sents), c.q \in Seq(Pkts), c.q # <<>>, Sorted(c.q),
           NEW ha \in Int, NEW hv \in [Videos -> Int], Ranked(c.sent, c.q, ha, hv),
           \A e \in Encoders : c.q[1].ts <= TrackHigh(e, ha, hv)
    PROVE  Ranked(Sent(c).sent, Sent(c).q, ha, hv)
<1> DEFINE q == c.q
<1> DEFINE s == c.sent
<1>1. PICK x : SentOff(x, q[1]) /\ Sent(c).sent = Append(s, x)
  BY SentIs, Zenon
<1>2. Sent(c).q = Tail(q) /\ x \in Sents /\ x.ts = q[1].ts
  BY <1>1, SentIs, Zenon DEF SentOff
<1> DEFINE t == Append(s, x)
<1> DEFINE r == Tail(q)
<1>3. /\ DOMAIN s = 1..Len(s) /\ Len(s) \in Nat /\ DOMAIN t = 1..Len(s) + 1
      /\ t[Len(s) + 1] = x /\ \A i \in 1..Len(s) : t[i] = s[i]
  BY <1>2
<1>4. DOMAIN r = 1..Len(q) - 1 /\ \A i \in 1..Len(q) - 1 : r[i] = q[i + 1]
  BY RestIs, Zenon DEF Rest
<1>5. DOMAIN q = 1..Len(q) /\ Len(q) \in Nat /\ 1 \in DOMAIN q
      /\ \A i \in 1..Len(q) - 1 : i + 1 \in DOMAIN q /\ 1 < i + 1
  OBVIOUS
<1> HIDE DEF t, r
<1>6. \A i \in DOMAIN t : i = Len(s) + 1 \/ i \in DOMAIN s
  BY <1>3
<1>7. \A i \in DOMAIN t : t[i] = x \/ \E k \in DOMAIN s : t[i] = s[k]
  BY <1>3, <1>6, Zenon
<1>8. \A j \in DOMAIN r : \E k \in DOMAIN q : 1 < k /\ r[j] = q[k]
  BY <1>4, <1>5, Zenon
<1>9. \A k \in DOMAIN q : 1 < k => x.ts <= q[k].ts
  BY <1>2, <1>5, Zenon DEF Sorted
<1>10. \A i \in DOMAIN t : \A j \in DOMAIN r : t[i].ts <= r[j].ts
  <2>1. \A i \in DOMAIN s : \A j \in DOMAIN q : s[i].ts <= q[j].ts
    BY Zenon DEF Ranked
  <2>. QED  BY <1>7, <1>8, <1>9, <2>1, Zenon
<1>11. \A i \in DOMAIN t : \A e \in Encoders : t[i].ts <= TrackHigh(e, ha, hv)
  <2>1. \A i \in DOMAIN s : \A e \in Encoders : s[i].ts <= TrackHigh(e, ha, hv)
    BY Zenon DEF Ranked
  <2>. QED  BY <1>2, <1>7, <2>1, Zenon
<1>12. \A j \in DOMAIN r : r[j].ts <= TrackHigh(r[j].enc, ha, hv)
  <2>1. \A j \in DOMAIN q : q[j].ts <= TrackHigh(q[j].enc, ha, hv)
    BY Zenon DEF Ranked
  <2>. QED  BY <1>8, <2>1, Zenon
<1>13. ASSUME NEW i \in DOMAIN t, NEW j \in DOMAIN t, i < j PROVE t[i].ts <= t[j].ts
  <2>1. i \in DOMAIN s /\ t[i] = s[i]
    BY <1>3, <1>13
  <2>2. CASE j = Len(s) + 1
    <3>1. t[j].ts = q[1].ts
      BY <1>2, <1>3, <2>2, Zenon
    <3>2. s[i].ts <= q[1].ts
      BY <1>5, <2>1, Zenon DEF Ranked
    <3>. QED  BY <2>1, <3>1, <3>2, Zenon
  <2>3. CASE j \in DOMAIN s
    <3>1. t[j] = s[j]
      BY <1>3, <2>3, Zenon
    <3>2. s[i].ts <= s[j].ts
      BY <1>13, <2>1, <2>3, Zenon DEF Ranked
    <3>. QED  BY <2>1, <3>1, <3>2, Zenon
  <2>. QED  BY <1>6, <2>2, <2>3
<1>14. Ranked(t, r, ha, hv)
  BY <1>10, <1>11, <1>12, <1>13, Zenon DEF Ranked
<1>. QED  BY <1>1, <1>2, <1>14, Zenon DEF t, r

\* has_higher_opposing_ts: what may go is below every track.
LEMMA OpposingBelow ==
    ASSUME NEW p \in Pkts, NEW ha \in Int, NEW hv \in [Videos -> Int], HigherOpposing(p, ha, hv),
           p.ts <= TrackHigh(p.enc, ha, hv)
    PROVE  \A e \in Encoders : p.ts <= TrackHigh(e, ha, hv)
<1> SUFFICES ASSUME NEW e \in Encoders PROVE p.ts <= TrackHigh(e, ha, hv)
  OBVIOUS
<1>1. PICK t \in Int : t = p.ts
  BY DEF Pkts
<1>2. /\ \A v \in Videos : v # p.enc => hv[v] > t
      /\ p.enc \in Videos => ha > t
  BY <1>1 DEF HigherOpposing, IsVideo
<1>3. CASE e \in Videos
  <2>1. CASE e = p.enc
    BY <2>1, Zenon
  <2>2. CASE e # p.enc
    <3>1. hv[e] > t /\ hv[e] \in Int
      BY <1>2, <1>3, <2>2
    <3>2. t <= hv[e]
      BY <3>1
    <3>. QED  BY <1>1, <1>3, <3>2, Zenon DEF TrackHigh
  <2>. QED  BY <2>1, <2>2
<1>4. CASE e \notin Videos
  <2>1. CASE p.enc \in Videos
    <3>1. t <= ha
      BY <1>2, <2>1
    <3>. QED  BY <1>1, <1>4, <3>1, Zenon DEF TrackHigh
  <2>2. CASE p.enc \notin Videos
    BY <1>4, <2>2, Zenon DEF TrackHigh
  <2>. QED  BY <2>1, <2>2
<1>. QED  BY <1>3, <1>4

\* There are no two audio tracks.
OneAudio == \A a, b \in AudioTracks : a = b

LEMMA OneAudioIs ==
    ASSUME OneAudio
    PROVE  \A e, f \in Encoders : e \notin Videos /\ f \notin Videos => e = f
BY Zenon DEF OneAudio, Encoders, Audios

\* A packet of the stream arrives.
LEMMA RankedInsert ==
    ASSUME NEW s, NEW q \in Seq(Pkts), NEW p \in Pkts,
           NEW ha \in Int, NEW hv \in [Videos -> Int], Ranked(s, q, ha, hv),
           NEW hb \in Int, NEW hw \in [Videos -> Int],
           \A e \in Encoders : TrackHigh(e, ha, hv) <= TrackHigh(e, hb, hw),
           TrackHigh(p.enc, ha, hv) <= p.ts, p.ts <= TrackHigh(p.enc, hb, hw),
           \A i \in DOMAIN s : s[i].ts \in Int
    PROVE  Ranked(s, Insert(q, p), hb, hw)
<1> DEFINE r == Insert(q, p)
<1>1. PICK k : Put(r, q, p, k)
  BY InsertPuts, Zenon
<1> HIDE DEF r
<1>2. \A i \in DOMAIN r : r[i] = p \/ \E j \in DOMAIN q : r[i] = q[j]
  BY <1>1, Zenon DEF Put
<1>3. p.enc \in Encoders /\ p.ts \in Int /\ \A j \in DOMAIN q : q[j].ts \in Int /\ q[j].enc \in Encoders
  <2>1. \A x \in Pkts : x.enc \in Encoders /\ x.ts \in Int
    BY DEF Pkts
  <2>2. \A j \in DOMAIN q : q[j] \in Pkts
    OBVIOUS
  <2>. QED  BY <2>1, <2>2, Zenon
<1>4. \A e \in Encoders : TrackHigh(e, ha, hv) \in Int /\ TrackHigh(e, hb, hw) \in Int
  BY DEF TrackHigh
<1>5. \A x, y, z \in Int : x <= y /\ y <= z => x <= z
  OBVIOUS
<1>6. \A i \in DOMAIN s : \A e \in Encoders : s[i].ts <= TrackHigh(e, ha, hv)
  BY Zenon DEF Ranked
<1>7. \A i \in DOMAIN s : \A e \in Encoders : s[i].ts <= TrackHigh(e, hb, hw)
  BY <1>4, <1>5, <1>6, Zenon
<1>8. \A i \in DOMAIN s : s[i].ts <= p.ts
  BY <1>3, <1>4, <1>5, <1>6, Zenon
<1>9. \A i \in DOMAIN s : \A j \in DOMAIN r : s[i].ts <= r[j].ts
  <2>1. \A i \in DOMAIN s : \A j \in DOMAIN q : s[i].ts <= q[j].ts
    BY Zenon DEF Ranked
  <2>. QED  BY <1>2, <1>8, <2>1, Zenon
<1>10. \A j \in DOMAIN q : q[j].ts <= TrackHigh(q[j].enc, hb, hw)
  <2>1. \A j \in DOMAIN q : q[j].ts <= TrackHigh(q[j].enc, ha, hv)
    BY Zenon DEF Ranked
  <2>. QED  BY <1>3, <1>4, <1>5, <2>1, Zenon
<1>11. \A j \in DOMAIN r : r[j].ts <= TrackHigh(r[j].enc, hb, hw)
  BY <1>2, <1>10, Zenon
<1>12. \A i, j \in DOMAIN s : i < j => s[i].ts <= s[j].ts
  BY Zenon DEF Ranked
<1>13. Ranked(s, r, hb, hw)
  BY <1>7, <1>9, <1>11, <1>12, Zenon DEF Ranked
<1>. QED  BY <1>13, Zenon DEF r

-----------------------------------------------------------------------------
(* The highest timestamps                                                  *)

\* h is the greatest of x and the timestamps of a track.
Tops(h, x, r, e) ==
    /\ h \in Int /\ \A i \in DOMAIN r : r[i].enc = e => r[i].ts <= h
    /\ h = x \/ \E i \in DOMAIN r : r[i].enc = e /\ r[i].ts = h

LEMMA LatestIs ==
    ASSUME NEW r \in Seq(Pkts), NEW x \in Int, NEW e
    PROVE  Tops(Greatest({x} \cup LatestOf(r, e)), x, r, e)
<1> DEFINE S == LatestOf(r, e)
<1> DEFINE h == Greatest({x} \cup S)
<1>1. S \in SUBSET Int /\ IsFiniteSet(S)
  BY LatestFinite, Zenon
<1>2. \A t : t \in S <=> \E i \in DOMAIN r : r[i].enc = e /\ r[i].ts = t
  BY DEF LatestOf
<1> HIDE DEF S
<1>3. {x} \cup S \in SUBSET Int /\ {x} \cup S # {} /\ IsFiniteSet({x} \cup S)
  <2>1. IsFiniteSet({x} \cup S)
    BY <1>1, FS_Singleton, FS_Union, Zenon
  <2>2. {x} \cup S \in SUBSET Int
    BY <1>1
  <2>. QED  BY <2>1, <2>2
<1>4. h \in {x} \cup S /\ \A y \in {x} \cup S : h >= y
  BY <1>3, GreatestInSet, Zenon
<1> HIDE DEF h
<1>5. h \in Int /\ \A y \in S : y <= h
  BY <1>1, <1>3, <1>4
<1>6. \A i \in DOMAIN r : r[i].enc = e => r[i].ts <= h
  BY <1>2, <1>5, Zenon
<1>7. h = x \/ \E i \in DOMAIN r : r[i].enc = e /\ r[i].ts = h
  BY <1>2, <1>4, Zenon
<1>8. Tops(h, x, r, e)
  BY <1>5, <1>6, <1>7, Zenon DEF Tops
<1>. QED  BY <1>8, Zenon DEF h, S

\* What the highest timestamps are when the stream starts.
LEMMA BeginsHigh ==
    ASSUME OneAudio, NEW nx \in [Encoders -> Nat],
           NEW aoff \in [Audios -> Int], NEW voff \in [Videos -> Int],
           NEW r \in Seq(Pkts), Shown(r, aoff, voff), \A i \in DOMAIN r : r[i].n < nx[r[i].enc],
           NEW x \in Int, \A e \in Encoders : e \notin Videos => x < Due(e, nx[e], aoff, voff),
           NEW y \in Int, \A e \in Videos : y < Due(e, nx[e], aoff, voff),
           NEW ha, ha = Greatest({x} \cup UNION {LatestOf(r, a) : a \in Audios}),
           NEW hv, hv = [v \in Videos |-> Greatest({y} \cup LatestOf(r, v))]
    PROVE  /\ ha \in Int /\ hv \in [Videos -> Int]
           /\ \A i \in DOMAIN r : r[i].ts <= TrackHigh(r[i].enc, ha, hv)
           /\ Above(ha, hv, nx, aoff, voff)
<1> DEFINE t(e) == IF e \in Videos THEN y ELSE x
<1> DEFINE h(e) == TrackHigh(e, ha, hv)
<1>1. ASSUME NEW e \in Encoders PROVE h(e) = Greatest({t(e)} \cup LatestOf(r, e))
  <2>1. CASE e \in Videos
    BY <2>1 DEF TrackHigh
  <2>2. CASE e \notin Videos
    <3>1. Audios = {e}
      <4>1. e \in Audios
        BY <2>2 DEF Encoders
      <4>2. \A a \in Audios : a = e
        BY <2>2, <4>1, OneAudioIs, EncodersAreFinite, Zenon DEF Encoders
      <4>. QED  BY <4>1, <4>2
    <3>2. UNION {LatestOf(r, a) : a \in Audios} = LatestOf(r, e)
      BY <3>1
    <3>. QED  BY <2>2, <3>2, Zenon DEF TrackHigh
  <2>. QED  BY <2>1, <2>2
<1>2. ASSUME NEW e \in Encoders
      PROVE  /\ h(e) \in Int /\ \A i \in DOMAIN r : r[i].enc = e => r[i].ts <= h(e)
             /\ h(e) = t(e) \/ \E i \in DOMAIN r : r[i].enc = e /\ r[i].ts = h(e)
  <2>1. t(e) \in Int
    BY Zenon
  <2> HIDE DEF t, h
  <2>2. h(e) = Greatest({t(e)} \cup LatestOf(r, e))
    BY <1>1
  <2>3. PICK z \in Int : z = t(e)
    BY <2>1
  <2>4. Tops(Greatest({z} \cup LatestOf(r, e)), z, r, e)
    BY LatestIs, Zenon
  <2>5. Tops(h(e), t(e), r, e)
    BY <2>2, <2>3, <2>4, Zenon
  <2>. QED  BY <2>5, Zenon DEF Tops
<1>3. ha \in Int
  <2>1. PICK a \in Audios : TRUE
    BY EncodersAreFinite, Zenon
  <2>2. a \in Encoders /\ a \notin Videos
    BY EncodersAreFinite DEF Encoders
  <2>3. h(a) = ha
    BY <2>2, Zenon DEF TrackHigh
  <2>. QED  BY <1>2, <2>2, <2>3, Zenon
<1>4. hv \in [Videos -> Int]
  <2>1. ASSUME NEW v \in Videos PROVE hv[v] \in Int
    <3>1. v \in Encoders /\ h(v) = hv[v]
      BY DEF Encoders, TrackHigh
    <3>. QED  BY <1>2, <3>1, Zenon
  <2>. QED  BY <2>1
<1>5. \A i \in DOMAIN r : r[i].enc \in Encoders /\ r[i].n \in Nat
  <2>1. \A i \in DOMAIN r : r[i] \in Pkts
    OBVIOUS
  <2>. QED  BY <2>1 DEF Pkts
<1>6. \A i \in DOMAIN r : r[i].ts <= h(r[i].enc)
  BY <1>2, <1>5, Zenon
<1>7. ASSUME NEW e \in Encoders PROVE h(e) < Due(e, nx[e], aoff, voff)
  <2>1. CASE h(e) = t(e)
    <3>1. t(e) < Due(e, nx[e], aoff, voff)
      BY Zenon
    <3>. QED  BY <2>1, <3>1, Zenon
  <2>2. ASSUME NEW i \in DOMAIN r, r[i].enc = e, r[i].ts = h(e)
        PROVE  h(e) < Due(e, nx[e], aoff, voff)
    <3>1. PICK m \in Nat, n \in Nat : m = r[i].n /\ n = nx[e]
      BY <1>5
    <3>2. m < n
      BY <2>2, <3>1, Zenon
    <3>3. r[i].ts = Due(e, m, aoff, voff)
      <4>1. r[i].ts = Due(r[i].enc, r[i].n, aoff, voff)
        BY ShownTimely, Zenon
      <4>. QED  BY <2>2, <3>1, <4>1, Zenon
    <3>4. Due(e, m, aoff, voff) < Due(e, n, aoff, voff)
      BY <3>2, LaterIsDueLater
    <3>. QED  BY <2>2, <3>1, <3>3, <3>4, Zenon
  <2>. QED  BY <1>2, <2>1, <2>2, Zenon
<1>8. Above(ha, hv, nx, aoff, voff)
  BY <1>7, Zenon DEF Above
<1>. QED  BY <1>3, <1>4, <1>6, <1>8, Zenon

\* The timestamps start over at the first packets of the tracks: none is due
\* before INT64_MIN or before the system time of the first audio packet.
LEMMA FirstsBelow ==
    ASSUME NEW q, q \in Seq(Pkts), Encoded(q), NEW nx \in [Encoders -> Nat],
           \A i \in DOMAIN q : q[i].n < nx[q[i].enc], NEW e \in Encoders, Has(q, e),
           NEW aoff \in [Audios -> Int], NEW voff \in [Videos -> Int],
           e \in Videos => voff[e] = First(q, e).pts,
           e \in Audios => aoff[e] = AudioOffset(First(q, e))
    PROVE  /\ e \in Videos => Never < Due(e, nx[e], aoff, voff)
           /\ e \in Audios => 0 - First(q, e).ts < Due(e, nx[e], aoff, voff)
<1>1. PICK k \in DOMAIN q : First(q, e) = q[k] /\ q[k].enc = e
  <2>1. FirstIdx(q, e) \in DOMAIN q /\ First(q, e) = q[FirstIdx(q, e)]
    BY HasIs, Zenon
  <2>2. First(q, e).enc = e
    BY IdxIs, Zenon
  <2>. QED  BY <2>1, <2>2, Zenon
<1>2. q[k] \in Pkts /\ q[k].n \in Nat /\ q[k].n < nx[e] /\ q[k] = Packet(q[k].enc, q[k].n)
  <2>1. q[k] \in Pkts
    OBVIOUS
  <2>2. q[k].n \in Nat
    BY <2>1 DEF Pkts
  <2>3. q[k].n < nx[e] /\ q[k] = Packet(q[k].enc, q[k].n)
    BY <1>1, Zenon DEF Encoded
  <2>. QED  BY <2>1, <2>2, <2>3
<1>3. PICK m \in Nat, n \in Nat : m = q[k].n /\ n = nx[e]
  BY <1>2
<1>4. First(q, e) = Packet(e, m) /\ m < n
  BY <1>1, <1>2, <1>3, Zenon
<1>5. Step[e] \in Nat \ {0} /\ StartTs[e] \in Nat /\ Lead[e] \in Nat /\ StartTs[e] > Lead[e]
  BY StepAssumption, TimeAssumption
<1>6. PICK a \in Nat, b \in Nat : a = m * Step[e] /\ b = n * Step[e]
  BY <1>5
<1>7. a < b
  BY <1>4, <1>5, <1>6, StepsOrdered
<1>8. /\ Packet(e, m).ts = StartTs[e] + a /\ Packet(e, m).dts = a - Lead[e]
      /\ e \in Videos => Packet(e, m).pts = a
  BY <1>6, PacketIs DEF Packet
<1>9. Due(e, nx[e], aoff, voff) = (b - Lead[e]) - OffsetOf(e, aoff, voff)
  BY <1>3, <1>6, Zenon DEF Due
<1>10. e \in Videos => Never < Due(e, nx[e], aoff, voff)
  <2> SUFFICES ASSUME e \in Videos PROVE Never < Due(e, nx[e], aoff, voff)
    OBVIOUS
  <2>1. OffsetOf(e, aoff, voff) = a
    BY <1>4, <1>8, Zenon DEF OffsetOf
  <2>2. Lead[e] < -Never /\ Never \in Int
    BY NeverAssumption DEF Never
  <2>3. Never < (b - Lead[e]) - a
    BY <1>5, <1>7, <2>2
  <2>. QED  BY <1>9, <2>1, <2>3, Zenon
<1>11. e \in Audios => 0 - First(q, e).ts < Due(e, nx[e], aoff, voff)
  <2> SUFFICES ASSUME e \in Audios PROVE 0 - First(q, e).ts < Due(e, nx[e], aoff, voff)
    OBVIOUS
  <2>1. OffsetOf(e, aoff, voff) = AudioOffset(Packet(e, m))
    BY <1>4, EncodersAreFinite DEF OffsetOf
  <2>2. PICK o \in Int : o = AudioOffset(Packet(e, m)) /\ (o = a - Lead[e] \/ o = 0)
    BY <1>5, <1>8 DEF AudioOffset
  <2>3. 0 - (StartTs[e] + a) < (b - Lead[e]) - o
    BY <1>5, <1>7, <2>2, SMTT(30)
  <2>4. 0 - First(q, e).ts = 0 - (StartTs[e] + a)
    BY <1>4, <1>8, Zenon
  <2>. QED  BY <1>9, <2>1, <2>2, <2>3, <2>4, Zenon
<1>. QED  BY <1>10, <1>11

\* Nothing has come in since the capture began.
Fresh ==
    sent = <<>> /\ ~Started =>
        highest_audio_ts = 0 /\ highest_video_ts = [e \in Videos |-> Never]

\* Once the stream has started.
Ranking ==
    sent # <<>> =>
        /\ Ranked(sent, interleaved_packets, highest_audio_ts, highest_video_ts)
        /\ Above(highest_audio_ts, highest_video_ts, next, audio_offsets, video_offsets)

LEMMA BeginsRanked ==
    ASSUME SInv, OneAudio, sent = <<>>, ~Started, Fresh, NEW e \in Encoders, Arrives(e),
           NEW c, Fit(c, next'), \A f \in Encoders : Has(c.q, f), Begins(c)
    PROVE  Ranking'
<1> DEFINE q == c.q
<1> DEFINE voff == [v \in Videos |-> First(q, v).pts]
<1> DEFINE aoff == [a \in Audios |-> AudioOffset(First(q, a))]
<1> DEFINE shifted == [i \in DOMAIN q |-> Shifted(q[i], aoff, voff)]
<1> DEFINE in == [q |-> Resorted(shifted), sent |-> sent,
                  times |-> [v \in Videos |-> [k \in DOMAIN c.times[v] |-> c.times[v][k] - voff[v]]]]
<1> DEFINE out == Sent(in)
<1> DEFINE x == highest_audio_ts - First(q, Audio(Least(AudioTracks))).ts
<1> DEFINE ha == Greatest({x} \cup UNION {LatestOf(shifted, a) : a \in Audios})
<1> DEFINE hv == [v \in Videos |-> Greatest({highest_video_ts[v]} \cup LatestOf(shifted, v))]
<1> DEFINE hw == [v \in Videos |-> Greatest({Never} \cup LatestOf(shifted, v))]
<1>1. /\ video_offsets' = voff /\ audio_offsets' = aoff
      /\ interleaved_packets' = out.q /\ sent' = out.sent
  BY Zenon DEF Begins
<1>2. highest_audio_ts' = ha /\ highest_video_ts' = hv
  BY Zenon DEF Begins, LatestOf
<1>3. highest_audio_ts = 0 /\ hv = hw
  <2>1. highest_audio_ts = 0 /\ highest_video_ts = [v \in Videos |-> Never]
    BY Zenon DEF Fresh
  <2>. QED  BY <2>1
<1>4. Queue(q, next', Zero) /\ q \in Seq(Pkts) /\ Encoded(q) /\ UpToDate(q, next')
  BY FitQueue, Zenon DEF Good, Collecting
<1>5. next' \in [Encoders -> Nat]
  <2>1. TypeOK /\ MaxPackets \in Nat
    BY BoundsAssumption, Zenon DEF SInv, IInv
  <2>2. next' \in [Encoders -> 0..MaxPackets + 1]
    BY <2>1, OneMore, Zenon
  <2>. QED  BY <2>1, <2>2
<1>6. \A f \in Encoders : First(q, f) \in Pkts
  BY <1>4, IdxIs, Zenon
<1>7. voff \in [Videos -> Int] /\ aoff \in [Audios -> Int]
  <2>1. \A p \in Pkts : p.pts \in Int /\ AudioOffset(p) \in Int
    BY DEF Pkts, AudioOffset
  <2>2. \A v \in Videos : First(q, v).pts \in Int
    BY <1>6, <2>1, Zenon DEF Encoders
  <2>3. \A a \in Audios : AudioOffset(First(q, a)) \in Int
    BY <1>6, <2>1 DEF Encoders
  <2>. QED  BY <2>2, <2>3
<1>8. /\ \A v \in Videos : voff[v] = First(q, v).pts
      /\ \A a \in Audios : aoff[a] = AudioOffset(First(q, a))
  OBVIOUS
<1> HIDE DEF voff, aoff
<1>9. /\ Flow(<<>>, Resorted(shifted), next', aoff, voff)
      /\ shifted \in Seq(Pkts) /\ Shown(shifted, aoff, voff) /\ SamePlaces(shifted, q)
  BY <1>4, <1>5, <1>7, BeginsFlow, Zenon
<1> HIDE DEF shifted
<1>10. \A i \in DOMAIN q : q[i].n < next'[q[i].enc]
  BY <1>4, Zenon DEF Queue
<1>11. \A i \in DOMAIN shifted : shifted[i].n < next'[shifted[i].enc]
  BY <1>9, <1>10, Zenon DEF SamePlaces
<1>12. \A f \in Encoders : /\ f \in Videos => Never < Due(f, next'[f], aoff, voff)
                           /\ f \in Audios => 0 - First(q, f).ts < Due(f, next'[f], aoff, voff)
  <2>1. PICK nx \in [Encoders -> Nat] : nx = next'
    BY <1>5
  <2>2. \A i \in DOMAIN q : q[i].n < nx[q[i].enc]
    BY <1>10, <2>1, Zenon
  <2>3. ASSUME NEW f \in Encoders
        PROVE  /\ f \in Videos => Never < Due(f, nx[f], aoff, voff)
               /\ f \in Audios => 0 - First(q, f).ts < Due(f, nx[f], aoff, voff)
    BY <1>4, <1>7, <1>8, <2>2, FirstsBelow, Zenon
  <2>. QED  BY <2>1, <2>3, Zenon
<1>13. x \in Int /\ \A f \in Encoders : f \notin Videos => x < Due(f, next'[f], aoff, voff)
  <2> DEFINE a == Audio(Least(AudioTracks))
  <2>1. a \in Encoders /\ a \in Audios
    <3>1. Least(AudioTracks) \in AudioTracks
      <4>1. AudioTracks \in SUBSET Int /\ IsFiniteSet(AudioTracks) /\ AudioTracks # {}
        BY TracksAssumption
      <4>. QED  BY <4>1, LeastInSet, Zenon
    <3>. QED  BY <3>1, Zenon DEF Encoders, Audios
  <2> HIDE DEF a
  <2>2. First(q, a).ts \in Int
    <3>1. First(q, a) \in Pkts
      BY <1>6, <2>1, Zenon
    <3>. QED  BY <3>1 DEF Pkts
  <2>3. x = 0 - First(q, a).ts
    BY <1>3, Zenon DEF a
  <2>4. \A f \in Encoders : f \notin Videos => f = a
    BY <2>1, OneAudioIs, EncodersAreFinite
  <2>5. x < Due(a, next'[a], aoff, voff)
    BY <1>12, <2>1, <2>3, Zenon
  <2>6. x \in Int
    BY <2>2, <2>3
  <2>. QED  BY <2>4, <2>5, <2>6, Zenon
<1> HIDE DEF x
<1>14. /\ ha \in Int /\ hw \in [Videos -> Int]
       /\ \A i \in DOMAIN shifted : shifted[i].ts <= TrackHigh(shifted[i].enc, ha, hw)
       /\ Above(ha, hw, next', aoff, voff)
  <2>1. PICK nx \in [Encoders -> Nat] : nx = next'
    BY <1>5
  <2>2. /\ \A i \in DOMAIN shifted : shifted[i].n < nx[shifted[i].enc]
        /\ \A f \in Encoders : f \notin Videos => x < Due(f, nx[f], aoff, voff)
        /\ \A f \in Videos : Never < Due(f, nx[f], aoff, voff)
    BY <1>11, <1>12, <1>13, <2>1, Zenon DEF Encoders
  <2>3. Never \in Int
    BY DEF Never
  <2>4. /\ ha \in Int /\ hw \in [Videos -> Int]
        /\ \A i \in DOMAIN shifted : shifted[i].ts <= TrackHigh(shifted[i].enc, ha, hw)
        /\ Above(ha, hw, nx, aoff, voff)
    BY <1>7, <1>9, <1>13, <2>2, <2>3, BeginsHigh, Zenon
  <2>. QED  BY <2>1, <2>4, Zenon
<1> HIDE DEF ha, hv, hw
<1> DEFINE z == Resorted(shifted)
<1>15. z \in Seq(Pkts) /\ Sorted(z) /\ SamePackets(z, shifted, Len(shifted))
       /\ DOMAIN shifted = 1..Len(shifted)
  <2>1. SamePackets(z, shifted, Len(shifted))
    <3>1. \A i, j \in DOMAIN shifted : shifted[i] = shifted[j] => i = j
      <4>1. Queue(shifted, next', voff)
        BY <1>4, <1>7, ShiftedQueue, Zenon DEF shifted
      <4>. QED  BY <4>1, Zenon DEF Queue
    <3>. QED  BY <1>9, <3>1, ResortedKeeps, Zenon
  <2>2. DOMAIN shifted = 1..Len(shifted)
    BY <1>9
  <2>. QED  BY <1>9, <2>1, <2>2, Zenon DEF Flow
<1>16. in.q = z /\ in.sent = <<>>
  OBVIOUS
<1> HIDE DEF z, in
<1>17. /\ \A j \in DOMAIN z : \E k \in DOMAIN shifted : z[j] = shifted[k]
       /\ \A k \in DOMAIN shifted : \E j \in DOMAIN z : z[j] = shifted[k]
  BY <1>15, Zenon DEF SamePackets
<1>18. \A j \in DOMAIN z : z[j].ts <= TrackHigh(z[j].enc, ha, hw)
  BY <1>14, <1>17, Zenon
<1>19. \A f \in Encoders : \E j \in DOMAIN z : z[j].enc = f
  <2>1. \A f \in Encoders : \E i \in DOMAIN q : q[i].enc = f
    BY <1>4, HasIs, Zenon
  <2>2. \A i \in DOMAIN q : i \in DOMAIN shifted /\ shifted[i].enc = q[i].enc
    BY <1>9, Zenon DEF SamePlaces
  <2>3. ASSUME NEW f \in Encoders PROVE \E j \in DOMAIN z : z[j].enc = f
    <3>1. PICK i \in DOMAIN q : q[i].enc = f
      BY <2>1
    <3>2. i \in DOMAIN shifted /\ shifted[i].enc = f
      BY <2>2, <3>1, Zenon
    <3>3. PICK j \in DOMAIN z : z[j] = shifted[i]
      BY <1>17, <3>2, Zenon
    <3>. QED  BY <3>2, <3>3, Zenon
  <2>. QED  BY <2>3
<1>20. z # <<>> /\ 1 \in DOMAIN z /\ \A j \in DOMAIN z : j = 1 \/ 1 < j
  <2>1. \E j : j \in DOMAIN z
    BY <1>19, EncodersAreFinite, Zenon DEF Encoders
  <2>. QED  BY <1>15, <2>1
<1>21. \A f \in Encoders : z[1].ts <= TrackHigh(f, ha, hw)
  <2> SUFFICES ASSUME NEW f \in Encoders PROVE z[1].ts <= TrackHigh(f, ha, hw)
    OBVIOUS
  <2>1. PICK j \in DOMAIN z : z[j].enc = f
    BY <1>19, Zenon
  <2>2. z[1].ts <= z[j].ts
    <3>1. CASE j = 1
      <4>1. z[1] \in Pkts
        BY <1>15, <1>20
      <4>2. z[1].ts \in Int
        BY <4>1 DEF Pkts
      <4>3. z[1].ts <= z[1].ts
        BY <4>2
      <4>. QED  BY <3>1, <4>3, Zenon
    <3>2. CASE 1 < j
      BY <1>15, <1>20, <3>2, Zenon DEF Sorted
    <3>. QED  BY <1>20, <3>1, <3>2, Zenon
  <2>3. z[j].ts <= TrackHigh(f, ha, hw)
    BY <1>18, <2>1, Zenon
  <2>4. z[1] \in Pkts /\ z[j] \in Pkts
    BY <1>15, <1>20
  <2>5. z[1].ts \in Int /\ z[j].ts \in Int
    BY <2>4 DEF Pkts
  <2>6. TrackHigh(f, ha, hw) \in Int
    BY <1>14 DEF TrackHigh
  <2>. QED  BY <2>2, <2>3, <2>5, <2>6
<1>22. Ranked(in.sent, in.q, ha, hw)
  <2>1. DOMAIN <<>> = {}
    OBVIOUS
  <2>2. Ranked(<<>>, z, ha, hw)
    BY <1>18, <2>1, Zenon DEF Ranked
  <2>. QED  BY <1>16, <2>2, Zenon
<1>23. Ranked(out.sent, out.q, ha, hw)
  <2>1. in.sent \in Seq(Sents) /\ in.q \in Seq(Pkts) /\ in.q # <<>> /\ Sorted(in.q)
    BY <1>15, <1>16, <1>20
  <2>2. \A f \in Encoders : in.q[1].ts <= TrackHigh(f, ha, hw)
    BY <1>16, <1>21, Zenon
  <2>. QED  BY <1>14, <1>22, <2>1, <2>2, RankedSent, Zenon
<1> HIDE DEF out
<1>. QED  BY <1>1, <1>2, <1>3, <1>14, <1>23, Zenon DEF Ranking

\* hb and hw are the highest timestamps once a packet of encoder e is there.
Raised(hb, hw, ha, hv, e, t) ==
    /\ hb = IF e \in Videos THEN ha ELSE Greatest({ha, t})
    /\ hw = IF e \in Videos THEN [hv EXCEPT ![e] = Greatest({@, t})] ELSE hv

\* The highest timestamps are no lower, and t is that of e.
Risen(hb, hw, ha, hv, e, t) ==
    /\ t \in Int /\ hb \in Int /\ hw \in [Videos -> Int]
    /\ TrackHigh(e, ha, hv) <= t /\ TrackHigh(e, hb, hw) = t
    /\ \A f \in Encoders : TrackHigh(f, ha, hv) <= TrackHigh(f, hb, hw)

\* The highest timestamps once packet n of encoder e is there, which is above
\* all of its track.
LEMMA NextHigh ==
    ASSUME OneAudio, NEW nx \in [Encoders -> Nat], NEW e \in Encoders,
           NEW aoff \in [Audios -> Int], NEW voff \in [Videos -> Int],
           NEW ha \in Int, NEW hv \in [Videos -> Int], Above(ha, hv, nx, aoff, voff),
           NEW t, t = Due(e, nx[e], aoff, voff),
           NEW hb, NEW hw, Raised(hb, hw, ha, hv, e, t)
    PROVE  /\ Risen(hb, hw, ha, hv, e, t)
           /\ Above(hb, hw, [nx EXCEPT ![e] = @ + 1], aoff, voff)
<1>1. PICK n \in Nat, m \in Nat : n = nx[e] /\ m = n + 1
  <2>1. nx[e] \in Nat
    OBVIOUS
  <2>. QED  BY <2>1
<1>2. t = Due(e, n, aoff, voff) /\ t \in Int /\ t < Due(e, m, aoff, voff)
  <2>1. n < m
    BY <1>1
  <2>2. Due(e, n, aoff, voff) \in Int /\ Due(e, n, aoff, voff) < Due(e, m, aoff, voff)
    BY <2>1, LaterIsDueLater
  <2>. QED  BY <1>1, <2>2, Zenon
<1>3. PICK h \in Int : h = TrackHigh(e, ha, hv)
  BY DEF TrackHigh
<1>4. h < t
  BY <1>3, Zenon DEF Above
<1>5. Greatest({h, t}) = t
  <2>1. {h, t} \in SUBSET Int /\ {h, t} # {} /\ IsFiniteSet({h, t})
    <3>1. IsFiniteSet({h, t})
      <4>1. IsFiniteSet({h}) /\ IsFiniteSet({t})
        BY FS_Singleton, Zenon
      <4>2. IsFiniteSet({h} \cup {t})
        BY <4>1, FS_Union, Zenon
      <4>3. {h} \cup {t} = {h, t}
        OBVIOUS
      <4>. QED  BY <4>2, <4>3, Zenon
    <3>2. {h, t} \in SUBSET Int /\ {h, t} # {}
      BY <1>2
    <3>. QED  BY <3>1, <3>2
  <2>2. Greatest({h, t}) \in {h, t} /\ \A y \in {h, t} : Greatest({h, t}) >= y
    BY <2>1, GreatestInSet, Zenon
  <2>. QED  BY <1>2, <1>4, <2>2
<1>6. /\ hb \in Int /\ hw \in [Videos -> Int] /\ TrackHigh(e, hb, hw) = t
      /\ \A f \in Encoders : f # e => TrackHigh(f, hb, hw) = TrackHigh(f, ha, hv)
  <2>1. CASE e \in Videos
    <3>1. hb = ha /\ h = hv[e]
      BY <1>3, <2>1, Zenon DEF TrackHigh, Raised
    <3>2. hw = [hv EXCEPT ![e] = t]
      BY <1>5, <2>1, <3>1, Zenon DEF Raised
    <3>3. hw \in [Videos -> Int] /\ hw[e] = t /\ \A f \in Videos : f # e => hw[f] = hv[f]
      BY <1>2, <2>1, <3>2
    <3>4. TrackHigh(e, hb, hw) = t
      BY <2>1, <3>3, Zenon DEF TrackHigh
    <3>5. \A f \in Encoders : f # e => TrackHigh(f, hb, hw) = TrackHigh(f, ha, hv)
      BY <3>1, <3>3, Zenon DEF TrackHigh
    <3>. QED  BY <3>1, <3>3, <3>4, <3>5, Zenon
  <2>2. CASE e \notin Videos
    <3>1. hw = hv /\ h = ha
      BY <1>3, <2>2, Zenon DEF TrackHigh, Raised
    <3>2. hb = t
      BY <1>5, <2>2, <3>1, Zenon DEF Raised
    <3>3. TrackHigh(e, hb, hw) = t
      BY <2>2, <3>2, Zenon DEF TrackHigh
    <3>4. \A f \in Encoders : f # e => f \in Videos
      BY <2>2, OneAudioIs, Zenon
    <3>5. \A f \in Encoders : f # e => TrackHigh(f, hb, hw) = TrackHigh(f, ha, hv)
      BY <3>1, <3>4, Zenon DEF TrackHigh
    <3>. QED  BY <1>2, <3>1, <3>2, <3>3, <3>5, Zenon
  <2>. QED  BY <2>1, <2>2
<1>7. h <= t
  BY <1>2, <1>4
<1>8. ASSUME NEW f \in Encoders PROVE TrackHigh(f, ha, hv) <= TrackHigh(f, hb, hw)
  <2>1. CASE f = e
    BY <1>3, <1>6, <1>7, <2>1, Zenon
  <2>2. CASE f # e
    <3>1. PICK g \in Int : g = TrackHigh(f, ha, hv)
      BY DEF TrackHigh, Encoders
    <3>2. g <= g
      OBVIOUS
    <3>. QED  BY <1>6, <2>2, <3>1, <3>2, Zenon
  <2>. QED  BY <2>1, <2>2
<1> DEFINE more == [nx EXCEPT ![e] = @ + 1]
<1>9. more[e] = m /\ \A f \in Encoders : f # e => more[f] = nx[f]
  BY <1>1
<1> HIDE DEF more
<1>10. ASSUME NEW f \in Encoders PROVE TrackHigh(f, hb, hw) < Due(f, more[f], aoff, voff)
  <2>1. CASE f = e
    BY <1>2, <1>6, <1>9, <2>1, Zenon
  <2>2. CASE f # e
    <3>1. TrackHigh(f, ha, hv) < Due(f, nx[f], aoff, voff)
      BY Zenon DEF Above
    <3>. QED  BY <1>6, <1>9, <2>2, <3>1, Zenon
  <2>. QED  BY <2>1, <2>2
<1>11. Above(hb, hw, more, aoff, voff)
  BY <1>10, Zenon DEF Above
<1>. QED  BY <1>2, <1>3, <1>6, <1>7, <1>8, <1>11, Zenon DEF more, Risen

-----------------------------------------------------------------------------
(* The steps keep the order                                                *)

\* Any packet whose track is past it, and that has_higher_opposing_ts lets go,
\* can be sent in order.
LEMMA SendsRanked ==
    ASSUME NEW c, c.sent \in Seq(Sents), c.q \in Seq(Pkts), Sorted(c.q),
           NEW ha \in Int, NEW hv \in [Videos -> Int], Ranked(c.sent, c.q, ha, hv),
           NEW r, Sends(c, r, ha, hv)
    PROVE  Ranked(r.sent, r.q, ha, hv)
<1>0. \A i \in DOMAIN c.q : c.q[i] \in Pkts
  OBVIOUS
<1>1. ASSUME NEW i \in DOMAIN c.q, HigherOpposing(c.q[i], ha, hv)
      PROVE  \A e \in Encoders : c.q[i].ts <= TrackHigh(e, ha, hv)
  <2>1. PICK p : p = c.q[i]
    OBVIOUS
  <2>2. p \in Pkts /\ p.ts <= TrackHigh(p.enc, ha, hv) /\ HigherOpposing(p, ha, hv)
    BY <1>0, <1>1, <2>1, Zenon DEF Ranked
  <2>3. \A e \in Encoders : p.ts <= TrackHigh(e, ha, hv)
    BY <2>2, OpposingBelow, Zenon
  <2>. QED  BY <2>1, <2>3, Zenon
<1>2. ASSUME 1 \in DOMAIN c.q, HigherOpposing(c.q[1], ha, hv)
      PROVE  Ranked(Sent(c).sent, Sent(c).q, ha, hv)
  <2>1. c.q # <<>>
    BY <1>2
  <2>2. \A e \in Encoders : c.q[1].ts <= TrackHigh(e, ha, hv)
    BY <1>1, <1>2, Zenon
  <2>. QED  BY <2>1, <2>2, RankedSent, Zenon
<1>3. ASSUME 1 \in DOMAIN c.q, 2 \in DOMAIN c.q,
             HigherOpposing(c.q[1], ha, hv), HigherOpposing(c.q[2], ha, hv)
      PROVE  Ranked(Sent(Sent(c)).sent, Sent(Sent(c)).q, ha, hv)
  <2> DEFINE d == Sent(c)
  <2>1. c.q # <<>> /\ Len(c.q) \in Nat /\ 1 \in 1..Len(c.q) - 1
    BY <1>3
  <2>2. PICK x : SentOff(x, c.q[1]) /\ d.sent = Append(c.sent, x)
    BY <2>1, SentIs, Zenon
  <2>3. d.q = Tail(c.q) /\ x \in Sents
    BY <2>1, <2>2, SentIs, Zenon DEF SentOff
  <2>4. Rest(Tail(c.q), c.q)
    BY <2>1, RestIs, Zenon
  <2>5. Ranked(d.sent, d.q, ha, hv)
    BY <1>2, <1>3
  <2> HIDE DEF d
  <2>6. d.sent \in Seq(Sents)
    BY <2>2, <2>3
  <2>7. d.q \in Seq(Pkts) /\ DOMAIN d.q = 1..Len(c.q) - 1
        /\ \A i \in 1..Len(c.q) - 1 : d.q[i] = c.q[i + 1]
    BY <2>3, <2>4, Zenon DEF Rest
  <2>8. d.q # <<>> /\ d.q[1] = c.q[2]
    BY <2>1, <2>7
  <2>9. \A e \in Encoders : d.q[1].ts <= TrackHigh(e, ha, hv)
    BY <1>1, <1>3, <2>8, Zenon
  <2>10. Sorted(d.q)
    <3>1. \A i, j \in DOMAIN d.q : i < j =>
             i + 1 \in DOMAIN c.q /\ j + 1 \in DOMAIN c.q /\ i + 1 < j + 1
      BY <2>7
    <3>. QED  BY <2>7, <3>1, Zenon DEF Sorted
  <2>11. Ranked(Sent(d).sent, Sent(d).q, ha, hv)
    BY <2>5, <2>6, <2>7, <2>8, <2>9, <2>10, RankedSent, Zenon
  <2>. QED  BY <2>11, Zenon DEF d
<1>4. CASE r = c
  BY <1>4, Zenon
<1>. QED  BY <1>2, <1>3, <1>4, Zenon DEF Sends

LEMMA DeliverNextRanked ==
    ASSUME SInv, OneAudio, BegunBySending, Ranking, NEW e \in Encoders, DeliverNext(e)
    PROVE  Ranking'
<1> DEFINE aoff == audio_offsets
<1> DEFINE voff == video_offsets
<1> DEFINE ha == highest_audio_ts
<1> DEFINE hv == highest_video_ts
<1> DEFINE q == interleaved_packets
<1> DEFINE p == InStream(e, next[e], aoff, voff)
<1> DEFINE hb == IF e \in Videos THEN ha ELSE Greatest({ha, p.ts})
<1> DEFINE hw == IF e \in Videos THEN [hv EXCEPT ![e] = Greatest({@, p.ts})] ELSE hv
<1>1. /\ Started /\ Arrives(e) /\ audio_offsets' = aoff /\ video_offsets' = voff
  BY DEF DeliverNext, offsets
<1>2. IInv /\ TypeOK /\ sent # <<>> /\ Flow(sent, q, next, aoff, voff)
  BY <1>1, Zenon DEF SInv, IInv, Streaming, BegunBySending
<1>3. Ranked(sent, q, ha, hv) /\ Above(ha, hv, next, aoff, voff)
  BY <1>2, Zenon DEF Ranking
<1>4. /\ next \in [Encoders -> Nat] /\ next[e] \in Nat /\ next' = [next EXCEPT ![e] = @ + 1]
      /\ aoff \in [Audios -> Int] /\ voff \in [Videos -> Int]
      /\ ha \in Int /\ hv \in [Videos -> Int]
  <2>1. /\ aoff \in [Audios -> Int] /\ voff \in [Videos -> Int]
        /\ ha \in Int /\ hv \in [Videos -> Int]
    BY <1>2 DEF TypeOK
  <2>. QED  BY <1>1, <1>2, <2>1, OneMore, Zenon
<1>5. p \in Pkts /\ p.enc = e /\ p.ts = Due(e, next[e], aoff, voff)
  <2>1. PICK n \in Nat : n = next[e]
    BY <1>4
  <2>2. /\ InStream(e, n, aoff, voff) \in Pkts /\ InStream(e, n, aoff, voff).enc = e
        /\ InStream(e, n, aoff, voff).ts = Due(e, n, aoff, voff)
    BY <1>4, InStreamIs
  <2>. QED  BY <2>1, <2>2, Zenon
<1>6. highest_audio_ts' = hb /\ highest_video_ts' = hw
  <2> DEFINE out == Shifted(Packet(e, next[e]), aoff, voff)
  <2>1. out = p
    BY Zenon DEF InStream
  <2>2. IsVideo(out) <=> e \in Videos
    BY <1>5, <2>1, Zenon DEF IsVideo
  <2>3. /\ highest_audio_ts' = IF IsVideo(out) THEN ha ELSE Greatest({ha, out.ts})
        /\ highest_video_ts' = IF IsVideo(out) THEN [hv EXCEPT ![e] = Greatest({@, out.ts})]
                               ELSE hv
    BY Zenon DEF DeliverNext
  <2> HIDE DEF out, p
  <2>. QED  BY <2>1, <2>2, <2>3, Zenon
<1>7. PICK c, r :
              /\ c.q = Insert(q, p) /\ c.sent = sent
              /\ interleaved_packets' = r.q /\ sent' = r.sent
              /\ Sends(c, r, highest_audio_ts', highest_video_ts')
  BY <1>2, NextSends, Zenon
<1>8. Flow(sent, Insert(q, p), next', aoff, voff)
  BY <1>2, <1>4, InsertFlow, Zenon
<1> HIDE DEF p
<1>9. /\ p.ts \in Int /\ hb \in Int /\ hw \in [Videos -> Int]
      /\ TrackHigh(e, ha, hv) <= p.ts /\ TrackHigh(e, hb, hw) = p.ts
      /\ \A f \in Encoders : TrackHigh(f, ha, hv) <= TrackHigh(f, hb, hw)
      /\ Above(hb, hw, [next EXCEPT ![e] = @ + 1], aoff, voff)
  <2>1. PICK t : t = p.ts
    OBVIOUS
  <2>2. Raised(hb, hw, ha, hv, e, t)
    BY <2>1, Zenon DEF Raised
  <2> HIDE DEF hb, hw
  <2>3. t = Due(e, next[e], aoff, voff)
    BY <1>5, <2>1, Zenon
  <2>4. /\ Risen(hb, hw, ha, hv, e, t)
        /\ Above(hb, hw, [next EXCEPT ![e] = @ + 1], aoff, voff)
    BY <1>3, <1>4, <2>2, <2>3, NextHigh, Zenon
  <2>. QED  BY <2>1, <2>4, Zenon DEF Risen
<1> HIDE DEF hb, hw
<1>10. Ranked(sent, Insert(q, p), hb, hw)
  <2>1. \A i \in DOMAIN sent : sent[i].ts \in Int
    <3>1. sent \in Seq(Sents)
      BY <1>2, Zenon DEF Flow
    <3>2. \A i \in DOMAIN sent : sent[i] \in Sents
      BY <3>1
    <3>. QED  BY <3>2 DEF Sents
  <2>2. q \in Seq(Pkts)
    BY <1>2, Zenon DEF Flow
  <2>3. p.ts <= p.ts
    BY <1>9
  <2>4. TrackHigh(p.enc, ha, hv) <= p.ts /\ p.ts <= TrackHigh(p.enc, hb, hw)
    BY <1>5, <1>9, <2>3, Zenon
  <2>. QED  BY <1>3, <1>4, <1>5, <1>9, <2>1, <2>2, <2>4, RankedInsert, Zenon
<1>11. Ranked(c.sent, c.q, hb, hw) /\ c.sent \in Seq(Sents) /\ c.q \in Seq(Pkts) /\ Sorted(c.q)
  BY <1>7, <1>8, <1>10, Zenon DEF Flow
<1>12. Ranked(r.sent, r.q, hb, hw)
  <2>1. Sends(c, r, hb, hw)
    BY <1>6, <1>7, Zenon
  <2>. QED  BY <1>9, <1>11, <2>1, SendsRanked, Zenon
<1>. QED  BY <1>1, <1>4, <1>6, <1>7, <1>9, <1>12, Zenon DEF Ranking

RInv == SInv /\ Fresh /\ Ranking

\* Neither the queue nor the highest timestamps change.
LEMMA SameRanked ==
    ASSUME RInv, UNCHANGED <<received, highest, offsets, packets, next, sent>>
    PROVE  Fresh' /\ Ranking'
<1>1. /\ received_audio' = received_audio /\ received_video' = received_video
      /\ highest_audio_ts' = highest_audio_ts /\ highest_video_ts' = highest_video_ts
      /\ audio_offsets' = audio_offsets /\ video_offsets' = video_offsets
      /\ interleaved_packets' = interleaved_packets /\ next' = next /\ sent' = sent
  BY DEF received, highest, offsets, packets
<1>2. Started' <=> Started
  BY <1>1, Zenon DEF Started, Complete
<1>3. Fresh'
  BY <1>1, <1>2, Zenon DEF RInv, Fresh
<1>4. Ranking'
  BY <1>1, Zenon DEF RInv, Ranking
<1>. QED  BY <1>3, <1>4

\* Nothing was sent, and the highest timestamps do not change.
LEMMA IdleRanked ==
    ASSUME RInv, sent = <<>>, sent' = <<>>, UNCHANGED <<received, highest>>
    PROVE  Fresh' /\ Ranking'
<1>1. /\ received_audio' = received_audio /\ received_video' = received_video
      /\ highest_audio_ts' = highest_audio_ts /\ highest_video_ts' = highest_video_ts
  BY DEF received, highest
<1>2. Started' <=> Started
  BY <1>1, Zenon DEF Started, Complete
<1>3. Fresh'
  BY <1>1, <1>2, Zenon DEF RInv, Fresh
<1>. QED  BY <1>3, Zenon DEF Ranking

LEMMA DeliverFirstRanked ==
    ASSUME RInv, OneAudio, NEW e \in Encoders, DeliverFirst(e)
    PROVE  Fresh' /\ Ranking'
<1>1. sent = <<>> /\ ~Started /\ Arrives(e)
  BY FirstCases DEF RInv
<1>2. PICK d : /\ Fit(d, next')
               /\ \/ Begins(d) /\ Complete(d.ra, d.rv) /\ \A f \in Encoders : Has(d.q, f)
                  \/ Waits(d)
  BY FirstCases, Zenon DEF RInv
<1>3. CASE Waits(d)
  <2>1. /\ highest_audio_ts' = highest_audio_ts /\ highest_video_ts' = highest_video_ts
        /\ sent' = <<>>
    BY <1>1, <1>3 DEF Waits, highest
  <2>2. Fresh'
    BY <1>1, <2>1, Zenon DEF RInv, Fresh
  <2>. QED  BY <2>1, <2>2, Zenon DEF Ranking
<1>4. CASE Begins(d) /\ Complete(d.ra, d.rv) /\ \A f \in Encoders : Has(d.q, f)
  <2>1. Ranking'
    BY <1>1, <1>2, <1>4, BeginsRanked, Zenon DEF RInv
  <2>2. Started'
    BY <1>4, Zenon DEF Begins, Started, Complete
  <2>. QED  BY <2>1, <2>2, Zenon DEF Fresh
<1>. QED  BY <1>2, <1>3, <1>4

LEMMA NextRanked ==
    ASSUME RInv, OneAudio, BegunBySending, [Next]_vars
    PROVE  RInv'
<1>0. SInv'
  BY NextStream, Zenon DEF RInv
<1>1. CASE Hook
  <2>1. sent' = <<>> /\ highest_audio_ts' = 0 /\ highest_video_ts' = [e \in Videos |-> Never]
    BY <1>1, Zenon DEF Hook
  <2>2. Fresh' /\ Ranking'
    BY <2>1, Zenon DEF Fresh, Ranking
  <2>. QED  BY <1>0, <2>2, Zenon DEF RInv
<1>2. CASE Activate
  BY <1>0, <1>2, SameRanked, Zenon DEF RInv, Activate
<1>3. CASE EndCapture
  BY <1>0, <1>3, SameRanked, Zenon DEF RInv, EndCapture
<1>4. ASSUME NEW e \in Encoders, StopEncoder(e) PROVE RInv'
  BY <1>0, <1>4, SameRanked, Zenon DEF RInv, StopEncoder
<1>5. ASSUME NEW e \in Encoders, DeliverEarly(e) PROVE RInv'
  <2>1. ~active /\ e \in hooked /\ sent' = sent /\ UNCHANGED <<received, highest>>
    BY <1>5 DEF DeliverEarly, Arrives, Ready
  <2>2. sent = <<>>
    BY <2>1, Zenon DEF RInv, SInv, Idle
  <2>3. Fresh' /\ Ranking'
    BY <2>1, <2>2, IdleRanked, Zenon
  <2>. QED  BY <1>0, <2>3, Zenon DEF RInv
<1>6. ASSUME NEW e \in Encoders, DeliverUnwanted(e) PROVE RInv'
  <2>1. sent = <<>> /\ sent' = <<>>
    BY <1>6, DeliverUnwantedStream, Zenon DEF RInv
  <2>2. UNCHANGED <<received, highest>>
    BY <1>6 DEF DeliverUnwanted
  <2>3. Fresh' /\ Ranking'
    BY <2>1, <2>2, IdleRanked, Zenon
  <2>. QED  BY <1>0, <2>3, Zenon DEF RInv
<1>7. ASSUME NEW e \in Encoders, DeliverFirst(e) PROVE RInv'
  BY <1>0, <1>7, DeliverFirstRanked, Zenon DEF RInv
<1>8. ASSUME NEW e \in Encoders, DeliverNext(e) PROVE RInv'
  <2>1. Ranking'
    BY <1>8, DeliverNextRanked, Zenon DEF RInv
  <2>2. sent' # <<>>
    BY <1>8, DeliverNextStream, Zenon DEF RInv
  <2>. QED  BY <1>0, <2>1, <2>2, Zenon DEF RInv, Fresh
<1>9. CASE UNCHANGED vars
  <2>1. UNCHANGED <<received, highest, offsets, packets, next, sent>>
    BY <1>9, Zenon DEF vars
  <2>. QED  BY <1>0, <2>1, SameRanked, Zenon DEF RInv
<1>. QED  BY <1>1, <1>2, <1>3, <1>4, <1>5, <1>6, <1>7, <1>8, <1>9, Zenon DEF Next

LEMMA InitRanked == Init => RInv
<1>1. Init => /\ sent = <<>> /\ highest_audio_ts = 0
              /\ highest_video_ts = [e \in Videos |-> Never]
  BY Zenon DEF Init
<1>. QED  BY <1>1, InitSInv, Zenon DEF RInv, Fresh, Ranking

LEMMA RankedInOrder == RInv => InOrder
<1> SUFFICES ASSUME RInv, NEW i \in 2..Len(sent) PROVE sent[i - 1].ts <= sent[i].ts
  BY Zenon DEF InOrder
<1>0. sent \in Seq(Sents)
  BY Zenon DEF RInv, SInv, IInv, Timed
<1>1. sent # <<>> /\ i - 1 \in DOMAIN sent /\ i \in DOMAIN sent /\ i - 1 < i
  BY <1>0
<1>. QED  BY <1>1, Zenon DEF RInv, Ranking, Ranked

(* count_streamable_frames, with one audio track: while a stream starts     *)
(* with its first packet, what send_interleaved hands to the output has     *)
(* rising timestamps over all tracks.  highest_audio_ts, which several      *)
(* audio tracks share, tells nothing of the one that is behind.             *)
THEOREM SentInOrder == OneAudio /\ Spec /\ []BegunBySending => []InOrder
<1> SUFFICES ASSUME OneAudio PROVE Spec /\ []BegunBySending => []InOrder
  OBVIOUS
<1>1. RInv /\ BegunBySending /\ [Next]_vars => RInv'
  BY NextRanked
<1>. QED  BY <1>1, InitRanked, RankedInOrder, PTL DEF Spec

(* count_streamable_frames: the same for one video track and one audio     *)
(* track, where every stream starts with its first packet.                  *)
THEOREM OneVideoOneAudioInOrder == VideoTracks = {0} /\ OneAudio /\ Spec => []InOrder
BY OneVideoBegins, SentInOrder, PTL

(* interleave_packets: with video track 0 only, and any audio tracks, no    *)
(* packet of the stream is lost, sent twice or out of the order of its track. *)
THEOREM OneVideoNoGaps == VideoTracks = {0} /\ Spec => []NoGaps
BY OneVideoBegins, PacketsKept, PTL

-----------------------------------------------------------------------------
(* The first packet of the video                                           *)

\* A decoder can begin with the first packet of video track 0.
Led(w) ==
    \E k \in DOMAIN w :
        /\ w[k].enc = Video(0) /\ Packet(Video(0), w[k].n).key
        /\ \A i \in DOMAIN w : w[i].enc = Video(0) => w[k].n <= w[i].n

\* The packets of u are among those of w.
Within(u, w) == \A j \in DOMAIN u : \E i \in DOMAIN w : w[i].enc = u[j].enc /\ w[i].n = u[j].n

LEMMA LedAlike ==
    ASSUME NEW u, NEW w, Led(u), Within(u, w), Within(w, u)
    PROVE  Led(w)
<1>1. PICK k \in DOMAIN u :
          /\ u[k].enc = Video(0) /\ Packet(Video(0), u[k].n).key
          /\ \A i \in DOMAIN u : u[i].enc = Video(0) => u[k].n <= u[i].n
  BY Zenon DEF Led
<1>2. PICK l \in DOMAIN w : w[l].enc = u[k].enc /\ w[l].n = u[k].n
  BY Zenon DEF Within
<1>3. ASSUME NEW i \in DOMAIN w, w[i].enc = Video(0) PROVE w[l].n <= w[i].n
  <2>1. PICK j \in DOMAIN u : u[j].enc = w[i].enc /\ u[j].n = w[i].n
    BY Zenon DEF Within
  <2>2. u[k].n <= u[j].n
    BY <1>1, <1>3, <2>1, Zenon
  <2>. QED  BY <1>2, <2>1, <2>2, Zenon
<1>. QED  BY <1>1, <1>2, <1>3, Zenon DEF Led

\* A packet comes that is not before those of its track.
LEMMA LedMore ==
    ASSUME NEW u, NEW w, NEW p, Within(u, w), \E i \in DOMAIN w : w[i] = p,
           \A i \in DOMAIN w : w[i] = p \/ \E j \in DOMAIN u : w[i] = u[j],
           \A j \in DOMAIN u : u[j].enc = p.enc => u[j].n <= p.n, p.n \in Nat,
           Led(u) \/ (/\ p.enc = Video(0) /\ Packet(Video(0), p.n).key
                      /\ \A j \in DOMAIN u : u[j].enc # Video(0))
    PROVE  Led(w)
<1>1. CASE Led(u)
  <2>1. PICK k \in DOMAIN u :
            /\ u[k].enc = Video(0) /\ Packet(Video(0), u[k].n).key
            /\ \A i \in DOMAIN u : u[i].enc = Video(0) => u[k].n <= u[i].n
    BY <1>1, Zenon DEF Led
  <2>2. PICK l \in DOMAIN w : w[l].enc = u[k].enc /\ w[l].n = u[k].n
    BY Zenon DEF Within
  <2>3. ASSUME NEW i \in DOMAIN w, w[i].enc = Video(0) PROVE w[l].n <= w[i].n
    <3>1. u[k].n <= w[i].n
      BY <2>1, <2>3, Zenon
    <3>. QED  BY <2>2, <3>1, Zenon
  <2>. QED  BY <2>1, <2>2, <2>3, Zenon DEF Led
<1>2. CASE /\ p.enc = Video(0) /\ Packet(Video(0), p.n).key
           /\ \A j \in DOMAIN u : u[j].enc # Video(0)
  <2>1. PICK l \in DOMAIN w : w[l] = p
    OBVIOUS
  <2>2. p.n <= p.n
    OBVIOUS
  <2>3. \A i \in DOMAIN w : w[i].enc = Video(0) => w[l].n <= w[i].n
    BY <1>2, <2>1, <2>2, Zenon
  <2>4. w[l].enc = Video(0) /\ Packet(Video(0), w[l].n).key
    BY <1>2, <2>1, Zenon
  <2>. QED  BY <2>3, <2>4, Zenon DEF Led
<1>. QED  BY <1>1, <1>2

\* No packet of the video is thrown away.
LEMMA LedBehind ==
    ASSUME NEW q \in Seq(Pkts), NEW n \in 0..Len(q), Led(q),
           \A i \in DOMAIN q : q[i].enc = Video(0) => n < i
    PROVE  Led(Discarded(q, n))
<1> DEFINE r == Discarded(q, n)
<1>1. DOMAIN r = 1..Len(q) - n /\ \A i \in DOMAIN r : i + n \in DOMAIN q /\ r[i] = q[i + n]
  BY DiscardedIs, Zenon DEF Behind
<1> HIDE DEF r
<1>2. PICK k \in DOMAIN q :
          /\ q[k].enc = Video(0) /\ Packet(Video(0), q[k].n).key
          /\ \A i \in DOMAIN q : q[i].enc = Video(0) => q[k].n <= q[i].n
  BY Zenon DEF Led
<1>3. n < k
  BY <1>2
<1>4. PICK l : l = k - n /\ l \in DOMAIN r /\ l + n = k
  BY <1>1, <1>3
<1>5. r[l] = q[k]
  BY <1>1, <1>4, Zenon
<1>6. \A i \in DOMAIN r : r[i].enc = Video(0) => q[k].n <= r[i].n
  BY <1>1, <1>2, Zenon
<1>7. \A i \in DOMAIN r : r[i].enc = Video(0) => r[l].n <= r[i].n
  BY <1>5, <1>6, Zenon
<1>8. r[l].enc = Video(0) /\ Packet(Video(0), r[l].n).key
  BY <1>2, <1>5, Zenon
<1>. QED  BY <1>4, <1>7, <1>8, Zenon DEF Led, r

-----------------------------------------------------------------------------
(* What is left in front keeps the keyframe                                *)

\* What there is of the video begins with a keyframe.
KeyFirst(q) == Has(q, Video(0)) => Led(q)

\* prune_premature_packets leaves a keyframe at the front of the video.
PrunedWell(q) == Premature(q) # 0 => KeyFirst(Discarded(q, Premature(q)))

LEMMA AllThereQueue ==
    ASSUME NEW c \in Colls
    PROVE  AllThere(c).q = c.q
<1>1. \A v : [c EXCEPT !.rv[v] = FALSE, !.ok = FALSE].q = c.q
  <2> TAKE v
  <2> DEFINE rv == [c.rv EXCEPT ![v] = FALSE]
  <2>1. [c EXCEPT !.rv[v] = FALSE, !.ok = FALSE] = [c EXCEPT !.rv = rv, !.ok = FALSE]
    OBVIOUS
  <2> HIDE DEF rv
  <2>2. [c EXCEPT !.rv = rv, !.ok = FALSE].q = c.q
    BY DEF Colls
  <2>. QED  BY <2>1, <2>2, Zenon
<1>2. NoAudio(c).q = c.q
  BY DEF NoAudio, Colls
<1> DEFINE missing == {i \in VideoTracks : ~Has(c.q, Video(i))}
<1>3. \/ AllThere(c) = [c EXCEPT !.rv[Video(Least(missing))] = FALSE, !.ok = FALSE]
      \/ AllThere(c) = c
      \/ AllThere(c) = NoAudio(c)
  BY Zenon DEF AllThere
<1> HIDE DEF missing
<1>. QED  BY <1>1, <1>2, <1>3, Zenon

LEMMA StartKeyFirst ==
    ASSUME NEW c, c \in Colls, Has(c.q, Video(0)), \A a \in Audios : Has(c.q, a), Led(c.q)
    PROVE  Led(Without(c, StartIdx(c.q) - 1).q)
<1>0. c.q \in Seq(Pkts) /\ DOMAIN c.q = 1..Len(c.q)
  <2>1. c.q \in Seq(Pkts)
    BY DEF Colls
  <2>. QED  BY <2>1
<1>1. StartIdx(c.q) \in 1..Len(c.q) /\ StartIdx(c.q) <= FirstIdx(c.q, Video(0))
  BY <1>0, StartIdxIn, Zenon
<1>2. /\ FirstIdx(c.q, Video(0)) \in DOMAIN c.q
      /\ \A i \in DOMAIN c.q : c.q[i].enc = Video(0) => FirstIdx(c.q, Video(0)) <= i
  BY <1>0, HasIs, Zenon
<1>3. PICK s \in 1..Len(c.q), f \in 1..Len(c.q) : s = StartIdx(c.q) /\ f = FirstIdx(c.q, Video(0))
  BY <1>0, <1>1, <1>2
<1>4. s <= f /\ \A i \in DOMAIN c.q : c.q[i].enc = Video(0) => f <= i
  BY <1>1, <1>2, <1>3, Zenon
<1>5. s - 1 \in 0..Len(c.q) /\ \A i \in DOMAIN c.q : f <= i => s - 1 < i
  BY <1>0, <1>3, <1>4
<1>6. Led(Discarded(c.q, s - 1))
  BY <1>0, <1>4, <1>5, LedBehind, Zenon
<1>7. Without(c, s - 1).q = Discarded(c.q, s - 1)
  BY DEF Without, Colls
<1>. QED  BY <1>3, <1>6, <1>7, Zenon

LEMMA InitializedKeyFirst ==
    ASSUME NEW c, NEW nx, Fit(c, nx), c.ok, KeyFirst(c.q)
    PROVE  KeyFirst(Initialized(c).q)
<1>0. Good(c, nx) /\ c \in Colls /\ c.q \in Seq(Pkts)
  BY FitQueue, Zenon
<1>1. CASE ~AllThere(c).ok
  <2>1. Initialized(c).q = c.q
    BY <1>0, <1>1, AllThereQueue, Zenon DEF Initialized
  <2>. QED  BY <2>1, Zenon
<1>2. CASE AllThere(c).ok
  <2>1. \A e \in Encoders : Has(c.q, e)
    BY <1>0, <1>2, AllThereGood, Zenon DEF Begun
  <2>2. Has(c.q, Video(0)) /\ \A a \in Audios : Has(c.q, a)
    BY <2>1, EncodersAreFinite, Zenon DEF Encoders
  <2> DEFINE d == Without(c, StartIdx(c.q) - 1)
  <2>3. Led(d.q)
    BY <1>0, <2>2, StartKeyFirst, Zenon DEF KeyFirst
  <2>4. d \in Colls
    <3>1. Fit(d, nx)
      BY <2>2, StartFit, Zenon
    <3>. QED  BY <3>1, FitQueue, Zenon
  <2>5. Initialized(c) = NoAudio(c) \/ Initialized(c) = AllThere(d)
    BY <1>2, Zenon DEF Initialized
  <2> HIDE DEF d
  <2>6. Initialized(c).q = c.q \/ Initialized(c).q = d.q
    <3>1. NoAudio(c).q = c.q
      BY NotYetFit, Zenon
    <3>2. AllThere(d).q = d.q
      BY <2>4, AllThereQueue, Zenon
    <3>. QED  BY <2>5, <3>1, <3>2, Zenon
  <2>. QED  BY <2>3, <2>6, Zenon DEF KeyFirst
<1>. QED  BY <1>1, <1>2

LEMMA AttemptKeyFirst ==
    ASSUME NEW c, NEW nx, Fit(c, nx), c.ok, KeyFirst(c.q),
           Has(c.q, Video(0)) /\ (\A a \in Audios : Has(c.q, a)) => PrunedWell(c.q)
    PROVE  KeyFirst(Attempt(c).q)
<1>0. Good(c, nx) /\ c.q \in Seq(Pkts) /\ c \in Colls
  BY FitQueue, Zenon
<1>1. CASE ~Has(c.q, Video(0))
  <2>1. Attempt(c) = [c EXCEPT !.ok = FALSE]
    BY <1>1, Zenon DEF Attempt
  <2>2. [c EXCEPT !.ok = FALSE].q = c.q
    BY <1>0 DEF Colls
  <2>. QED  BY <2>1, <2>2, Zenon
<1>2. CASE Has(c.q, Video(0)) /\ \E a \in Audios : ~Has(c.q, a)
  <2>1. Attempt(c) = NoAudio(c)
    BY <1>2, Zenon DEF Attempt
  <2>2. NoAudio(c).q = c.q
    BY NotYetFit, Zenon
  <2>. QED  BY <2>1, <2>2, Zenon
<1>3. CASE Has(c.q, Video(0)) /\ \A a \in Audios : Has(c.q, a)
  <2> DEFINE n == IF Premature(c.q) # 0 THEN Premature(c.q) ELSE StartIdx(c.q) - 1
  <2> DEFINE d == Without(c, n)
  <2>1. Attempt(c) = Initialized(d)
    BY <1>3, Zenon DEF Attempt
  <2>2. n \in 0..Len(c.q) /\ KeyFirst(Without(c, n).q)
    <3>1. CASE Premature(c.q) # 0
      <4>1. n = Premature(c.q)
        BY <3>1, Zenon
      <4>2. Without(c, n).q = Discarded(c.q, n)
        BY <1>0 DEF Without, Colls
      <4>3. KeyFirst(Discarded(c.q, Premature(c.q)))
        BY <1>3, <3>1, Zenon DEF PrunedWell
      <4> HIDE DEF n
      <4>4. n \in 0..Len(c.q)
        BY <1>0, <4>1, PrematureIn, Zenon
      <4>. QED  BY <4>1, <4>2, <4>3, <4>4, Zenon
    <3>2. CASE Premature(c.q) = 0
      <4>0. n = StartIdx(c.q) - 1
        BY <3>2, Zenon
      <4> HIDE DEF n
      <4>1. StartIdx(c.q) \in 1..Len(c.q)
        BY <1>0, <1>3, StartIdxIn, Zenon
      <4>2. StartIdx(c.q) - 1 \in 0..Len(c.q)
        BY <4>1
      <4>3. Led(Without(c, StartIdx(c.q) - 1).q)
        BY <1>0, <1>3, StartKeyFirst, Zenon DEF KeyFirst
      <4>. QED  BY <4>0, <4>2, <4>3, Zenon DEF KeyFirst
    <3>. QED  BY <3>1, <3>2
  <2> HIDE DEF n
  <2>3. Fit(d, nx)
    BY <2>2, WithoutFit, Zenon
  <2>4. d.ok
    BY <1>0 DEF Without, Good, Colls
  <2>5. KeyFirst(d.q)
    BY <2>2
  <2> HIDE DEF d
  <2>6. KeyFirst(Initialized(d).q)
    BY <2>3, <2>4, <2>5, InitializedKeyFirst, Zenon
  <2>. QED  BY <2>1, <2>6
<1>. QED  BY <1>1, <1>2, <1>3

\* What was sent is marked as its encoder marked it.
Marked(s) == \A i \in DOMAIN s : s[i].key <=> Packet(s[i].enc, s[i].n).key

LEMMA SentLed ==
    ASSUME NEW c, NEW nx, NEW aoff \in [Audios -> Int], NEW voff \in [Videos -> Int],
           Flow(c.sent, c.q, nx, aoff, voff), c.q # <<>>, Led(c.sent \o c.q), Marked(c.sent)
    PROVE  Led(Sent(c).sent \o Sent(c).q) /\ Marked(Sent(c).sent)
<1> DEFINE q == c.q
<1> DEFINE s == c.sent
<1>0. s \in Seq(Sents) /\ q \in Seq(Pkts) /\ Shown(q, aoff, voff)
  BY Zenon DEF Flow
<1>1. PICK x : SentOff(x, q[1]) /\ Sent(c).sent = Append(s, x)
  BY <1>0, SentIs, Zenon
<1>2. /\ Sent(c).q = Tail(q) /\ x \in Sents /\ x.enc = q[1].enc /\ x.n = q[1].n
      /\ x.key = q[1].key
  BY <1>0, <1>1, SentIs, Zenon DEF SentOff
<1>3. SamePlaces(Append(s, x) \o Tail(q), s \o q)
  BY <1>0, <1>2, JoinSent, Zenon
<1> DEFINE w == Append(s, x) \o Tail(q)
<1> DEFINE u == s \o q
<1>4. SamePlaces(w, u) /\ Led(u)
  BY <1>3
<1> HIDE DEF w, u
<1>5. Within(w, u) /\ Within(u, w)
  BY <1>4, Zenon DEF Within, SamePlaces
<1>6. Led(w)
  BY <1>4, <1>5, LedAlike, Zenon
<1>7. x.key <=> Packet(x.enc, x.n).key
  <2>1. q[1] \in Pkts /\ 1 \in DOMAIN q
    BY <1>0
  <2>2. PICK e \in Encoders, n \in Nat : e = q[1].enc /\ n = q[1].n
    BY <2>1 DEF Pkts
  <2>3. q[1] = InStream(e, n, aoff, voff)
    BY <1>0, <2>1, <2>2, Zenon DEF Shown
  <2>4. InStream(e, n, aoff, voff).key = Packet(e, n).key
    BY InStreamIs
  <2>. QED  BY <1>2, <2>2, <2>3, <2>4, Zenon
<1>8. Marked(Append(s, x))
  <2> DEFINE t == Append(s, x)
  <2>1. \A i \in DOMAIN t : t[i] = x \/ (i \in DOMAIN s /\ t[i] = s[i])
    BY <1>0, <1>2
  <2> HIDE DEF t
  <2>2. \A i \in DOMAIN t : t[i].key <=> Packet(t[i].enc, t[i].n).key
    <3> TAKE i \in DOMAIN t
    <3>1. CASE t[i] = x
      BY <1>7, <3>1, Zenon
    <3>2. CASE i \in DOMAIN s /\ t[i] = s[i]
      <4>1. s[i].key <=> Packet(s[i].enc, s[i].n).key
        BY <3>2, Zenon DEF Marked
      <4>. QED  BY <3>2, <4>1, Zenon
    <3>. QED  BY <2>1, <3>1, <3>2
  <2>. QED  BY <2>2, Zenon DEF Marked, t
<1>. QED  BY <1>1, <1>2, <1>6, <1>8, Zenon DEF w

LEMMA SendsLed ==
    ASSUME NEW c, NEW nx, NEW aoff \in [Audios -> Int], NEW voff \in [Videos -> Int],
           Flow(c.sent, c.q, nx, aoff, voff), Led(c.sent \o c.q), Marked(c.sent),
           NEW r, NEW ha, NEW hv, Sends(c, r, ha, hv)
    PROVE  Led(r.sent \o r.q) /\ Marked(r.sent)
<1>0. c.q \in Seq(Pkts)
  BY Zenon DEF Flow
<1>1. CASE r = c
  BY <1>1, Zenon
<1>2. ASSUME 1 \in DOMAIN c.q
      PROVE  /\ Led(Sent(c).sent \o Sent(c).q) /\ Marked(Sent(c).sent)
             /\ Flow(Sent(c).sent, Sent(c).q, nx, aoff, voff)
  <2>1. c.q # <<>>
    BY <1>2
  <2>. QED  BY <2>1, SentLed, SentFlow, Zenon
<1>3. ASSUME 1 \in DOMAIN c.q, 2 \in DOMAIN c.q
      PROVE  Led(Sent(Sent(c)).sent \o Sent(Sent(c)).q) /\ Marked(Sent(Sent(c)).sent)
  <2> DEFINE d == Sent(c)
  <2>1. /\ Led(d.sent \o d.q) /\ Marked(d.sent) /\ Flow(d.sent, d.q, nx, aoff, voff)
    BY <1>2, <1>3
  <2>2. d.q = Tail(c.q)
    <3>1. c.q # <<>>
      BY <1>3
    <3>. QED  BY <1>0, <3>1, SentIs, Zenon
  <2> HIDE DEF d
  <2>3. d.q # <<>>
    <3>1. Tail(c.q) # <<>>
      <4>1. c.q # <<>> /\ Len(c.q) \in Nat /\ 1 \in 1..Len(c.q) - 1
        BY <1>0, <1>3
      <4>2. DOMAIN Tail(c.q) = 1..Len(c.q) - 1
        BY <1>0, <4>1, RestIs, Zenon DEF Rest
      <4>3. DOMAIN <<>> = {}
        OBVIOUS
      <4>. QED  BY <4>1, <4>2, <4>3, Zenon
    <3>. QED  BY <2>2, <3>1, Zenon
  <2>4. Led(Sent(d).sent \o Sent(d).q) /\ Marked(Sent(d).sent)
    BY <2>1, <2>3, SentLed, Zenon
  <2>. QED  BY <2>4, Zenon DEF d
<1>. QED  BY <1>1, <1>2, <1>3, Zenon DEF Sends

\* The next packet of a track comes.
LEMMA InsertLed ==
    ASSUME NEW s, NEW q, NEW nx, NEW aoff, NEW voff, Flow(s, q, nx, aoff, voff), Led(s \o q),
           NEW p \in Pkts, p.n = nx[p.enc]
    PROVE  Led(s \o Insert(q, p))
<1>0. s \in Seq(Sents) /\ q \in Seq(Pkts) /\ Unbroken(s \o q, nx)
  BY Zenon DEF Flow
<1>1. PICK k \in 1..Len(q) + 1 : InsertedAt(Insert(q, p), q, p, k)
  BY <1>0, InsertIs, Zenon
<1> DEFINE w == s \o Insert(q, p)
<1> DEFINE u == s \o q
<1>2. Slid(w, u, Len(s) + Len(q), p, Len(s) + k)
  BY <1>0, <1>1, JoinInserted, Zenon
<1>3. Led(u) /\ \A i \in DOMAIN u : u[i].enc \in Encoders /\ u[i].n \in Nat /\ u[i].n < nx[u[i].enc]
  BY <1>0, Zenon DEF Unbroken
<1> HIDE DEF w, u
<1>4. PICK n, l :
          /\ n \in Nat /\ l \in 1..n + 1 /\ DOMAIN u = 1..n /\ DOMAIN w = 1..n + 1
          /\ \A i \in 1..n + 1 : w[i] = IF i < l THEN u[i] ELSE IF i = l THEN p ELSE u[i - 1]
  BY <1>2, Zenon DEF Slid
<1>5. l \in DOMAIN w /\ w[l] = p
  BY <1>4
<1>6. \A i \in DOMAIN w : w[i] = p \/ \E j \in DOMAIN u : w[i] = u[j]
  <2> TAKE i \in DOMAIN w
  <2>1. CASE i < l
    <3>1. i \in DOMAIN u /\ w[i] = u[i]
      BY <1>4, <2>1
    <3>. QED  BY <3>1
  <2>2. CASE i = l
    BY <1>5, <2>2, Zenon
  <2>3. CASE l < i
    <3>1. i - 1 \in DOMAIN u /\ w[i] = u[i - 1]
      BY <1>4, <2>3
    <3>. QED  BY <3>1
  <2>. QED  BY <1>4, <2>1, <2>2, <2>3
<1>7. \A j \in DOMAIN u : \E i \in DOMAIN w : w[i] = u[j]
  <2> TAKE j \in DOMAIN u
  <2>1. CASE j < l
    BY <1>4, <2>1
  <2>2. CASE ~(j < l)
    <3>1. j + 1 \in DOMAIN w /\ w[j + 1] = u[j]
      BY <1>4, <2>2
    <3>. QED  BY <3>1
  <2>. QED  BY <2>1, <2>2
<1>8. \A j \in DOMAIN u : u[j].enc = p.enc => u[j].n <= p.n
  <2>1. p.n \in Nat
    BY DEF Pkts
  <2>2. \A a, b \in Nat : a < b => a <= b
    OBVIOUS
  <2>. QED  BY <1>3, <2>1, <2>2, Zenon
<1>9. Within(u, w)
  BY <1>7, Zenon DEF Within
<1>10. p.n \in Nat
  BY DEF Pkts
<1>11. Led(w)
  BY <1>3, <1>5, <1>6, <1>8, <1>9, <1>10, LedMore, Zenon
<1>. QED  BY <1>11, Zenon DEF w

-----------------------------------------------------------------------------
(* The steps keep the keyframe                                             *)

Leading ==
    /\ Marked(sent)
    /\ sent = <<>> /\ ~Started => KeyFirst(interleaved_packets)
    /\ sent # <<>> => Led(sent \o interleaved_packets)

\* prune_premature_packets does not cut into what follows a keyframe.
KeyframesKept ==
    \A e \in Encoders : DeliverFirst(e) =>
        LET q == Collected(e, Packet(e, next[e])).q
        IN Has(q, Video(0)) /\ (\A a \in Audios : Has(q, a)) => PrunedWell(q)

LEMMA CollectedKeyFirst ==
    ASSUME SInv, ~Started, ToldOf, NEW e \in Encoders, Arrives(e),
           ~Unwanted(Packet(e, next[e])), KeyFirst(interleaved_packets)
    PROVE  KeyFirst(Collected(e, Packet(e, next[e])).q)
<1> DEFINE p == Packet(e, next[e])
<1> DEFINE q == interleaved_packets
<1> DEFINE r == Insert(q, p)
<1>1. /\ IInv /\ TypeOK /\ q \in Seq(Pkts) /\ Collecting(q, encoder_packet_times, next)
  BY GatheredIs, Zenon
<1>2. next \in [Encoders -> Nat] /\ next[e] \in Nat
  BY <1>1, OneMore, Zenon
<1>3. p \in Pkts /\ p.enc = e /\ p.n = next[e] /\ p.n \in Nat
  BY <1>2, PacketIs, Zenon
<1>4. p.key <=> Packet(e, p.n).key
  BY <1>3, Zenon
<1>5. Collected(e, p).q = r
  BY <1>1, CollectedGood, Zenon
<1>6. e = Video(0) => Has(q, Video(0)) \/ p.key
  <2>1. e = Video(0) => (IsVideo(p) <=> TRUE)
    BY <1>3, EncodersAreFinite, Zenon DEF IsVideo
  <2>. QED  BY <1>3, <2>1, Zenon DEF Unwanted, ToldOf
<1> HIDE DEF p
<1>7. PICK k : Put(r, q, p, k)
  BY <1>1, <1>3, InsertPuts, Zenon
<1>8. Has(r, Video(0)) <=> e = Video(0) \/ Has(q, Video(0))
  BY <1>1, <1>3, InsertHas, Zenon
<1> HIDE DEF r
<1>9. /\ k \in DOMAIN r /\ r[k] = p
      /\ \A i \in DOMAIN r : r[i] = p \/ \E j \in DOMAIN q : r[i] = q[j]
      /\ \A j \in DOMAIN q : \E i \in DOMAIN r : r[i] = q[j]
  BY <1>7, Zenon DEF Put
<1>10. Within(q, r)
  BY <1>9, Zenon DEF Within
<1>11. \A j \in DOMAIN q : q[j].enc = p.enc => q[j].n <= p.n
  <2>1. \A j \in DOMAIN q : q[j].n < next[q[j].enc]
    BY <1>1, Zenon DEF Collecting, Queue
  <2>2. \A j \in DOMAIN q : q[j].n \in Nat
    <3>1. \A j \in DOMAIN q : q[j] \in Pkts
      BY <1>1
    <3>. QED  BY <3>1 DEF Pkts
  <2>3. \A a, b \in Nat : a < b => a <= b
    OBVIOUS
  <2>. QED  BY <1>3, <2>1, <2>2, <2>3, Zenon
<1>12. ASSUME Has(r, Video(0)) PROVE Led(r)
  <2>1. Led(q) \/ (/\ p.enc = Video(0) /\ Packet(Video(0), p.n).key
                   /\ \A j \in DOMAIN q : q[j].enc # Video(0))
    <3>1. CASE Has(q, Video(0))
      BY <3>1, Zenon DEF KeyFirst
    <3>2. CASE ~Has(q, Video(0))
      <4>1. e = Video(0) /\ p.key
        BY <1>6, <1>8, <1>12, <3>2, Zenon
      <4>2. \A j \in DOMAIN q : q[j].enc # Video(0)
        BY <1>1, <3>2, HasIs, Zenon
      <4>. QED  BY <1>3, <1>4, <4>1, <4>2, Zenon
    <3>. QED  BY <3>1, <3>2
  <2>. QED  BY <1>3, <1>9, <1>10, <1>11, <2>1, LedMore, Zenon
<1>. QED  BY <1>5, <1>12, Zenon DEF KeyFirst, p

\* As FirstCases, and the keyframe is still there.
LEMMA FirstKeyFirst ==
    ASSUME SInv, ToldOf, KeyFirst(interleaved_packets), KeyframesKept,
           NEW e \in Encoders, DeliverFirst(e)
    PROVE  \E d : /\ Fit(d, next') /\ KeyFirst(d.q)
                  /\ \/ /\ Begins(d) /\ Complete(d.ra, d.rv) /\ \A f \in Encoders : Has(d.q, f)
                     \/ Waits(d)
<1> DEFINE c == Collected(e, Packet(e, next[e]))
<1>1. /\ ~Started /\ Arrives(e) /\ ~Unwanted(Packet(e, next[e]))
      /\ IF ~Complete(c.ra, c.rv) THEN Waits(c)
         ELSE IF Attempt(c).ok THEN Begins(Attempt(c))
         ELSE Waits(Attempt(c))
  BY DEF DeliverFirst
<1>2. Fit(c, next') /\ c.ok
  BY <1>1, CollectedFit, Zenon
<1>3. KeyFirst(c.q)
  BY <1>1, CollectedKeyFirst, Zenon
<1>4. Has(c.q, Video(0)) /\ (\A a \in Audios : Has(c.q, a)) => PrunedWell(c.q)
  BY Zenon DEF KeyframesKept
<1> HIDE DEF c
<1>5. CASE ~Complete(c.ra, c.rv)
  BY <1>1, <1>2, <1>3, <1>5, Zenon
<1>6. CASE Complete(c.ra, c.rv)
  <2> DEFINE d == Attempt(c)
  <2>1. Fit(d, next')
    BY <1>2, AttemptFit, Zenon
  <2>2. Begun(d, c)
    BY <1>2, FitQueue, AttemptGood, Zenon
  <2>3. IF d.ok THEN Begins(d) ELSE Waits(d)
    BY <1>1, <1>6, Zenon
  <2>4. KeyFirst(d.q)
    BY <1>2, <1>3, <1>4, AttemptKeyFirst, Zenon
  <2> HIDE DEF d
  <2>5. CASE d.ok
    <3>1. Begins(d) /\ Complete(d.ra, d.rv) /\ \A f \in Encoders : Has(d.q, f)
      BY <1>6, <2>2, <2>3, <2>5, Zenon DEF Begun
    <3>. QED  BY <2>1, <2>4, <3>1, Zenon
  <2>6. CASE ~d.ok
    BY <2>1, <2>3, <2>4, <2>6, Zenon
  <2>. QED  BY <2>5, <2>6
<1>. QED  BY <1>5, <1>6

LEMMA BeginsLed ==
    ASSUME SInv, sent = <<>>, NEW e \in Encoders, Arrives(e), NEW c, Fit(c, next'), KeyFirst(c.q),
           \A f \in Encoders : Has(c.q, f), Begins(c)
    PROVE  Led(sent' \o interleaved_packets') /\ Marked(sent')
<1> DEFINE q == c.q
<1> DEFINE voff == [v \in Videos |-> First(q, v).pts]
<1> DEFINE aoff == [a \in Audios |-> AudioOffset(First(q, a))]
<1> DEFINE shifted == [i \in DOMAIN q |-> Shifted(q[i], aoff, voff)]
<1> DEFINE in == [q |-> Resorted(shifted), sent |-> sent,
                  times |-> [v \in Videos |-> [k \in DOMAIN c.times[v] |-> c.times[v][k] - voff[v]]]]
<1> DEFINE out == Sent(in)
<1>1. interleaved_packets' = out.q /\ sent' = out.sent
  BY Zenon DEF Begins
<1>2. Queue(q, next', Zero) /\ q \in Seq(Pkts) /\ Encoded(q) /\ UpToDate(q, next')
  BY FitQueue, Zenon DEF Good, Collecting
<1>3. next' \in [Encoders -> Nat]
  <2>1. TypeOK /\ MaxPackets \in Nat
    BY BoundsAssumption, Zenon DEF SInv, IInv
  <2>2. next' \in [Encoders -> 0..MaxPackets + 1]
    BY <2>1, OneMore, Zenon
  <2>. QED  BY <2>1, <2>2
<1>4. voff \in [Videos -> Int] /\ aoff \in [Audios -> Int]
  <2>0. \A f \in Encoders : First(q, f) \in Pkts
    BY <1>2, IdxIs, Zenon
  <2>1. \A x \in Pkts : x.pts \in Int /\ AudioOffset(x) \in Int
    BY DEF Pkts, AudioOffset
  <2>2. \A v \in Videos : First(q, v).pts \in Int
    BY <2>0, <2>1, Zenon DEF Encoders
  <2>3. \A a \in Audios : AudioOffset(First(q, a)) \in Int
    BY <2>0, <2>1 DEF Encoders
  <2>. QED  BY <2>2, <2>3
<1> HIDE DEF voff, aoff
<1>5. /\ Flow(<<>>, Resorted(shifted), next', aoff, voff)
      /\ shifted \in Seq(Pkts) /\ SamePlaces(shifted, q)
  BY <1>2, <1>3, <1>4, BeginsFlow, Zenon
<1>6. Queue(shifted, next', voff)
  BY <1>2, <1>4, ShiftedQueue, Zenon
<1> HIDE DEF shifted
<1> DEFINE z == Resorted(shifted)
<1>7. SamePackets(z, shifted, Len(shifted)) /\ DOMAIN shifted = 1..Len(shifted)
  <2>1. SamePackets(z, shifted, Len(shifted))
    BY <1>5, <1>6, ResortedKeeps, Zenon DEF Queue
  <2>2. DOMAIN shifted = 1..Len(shifted)
    BY <1>5
  <2>. QED  BY <2>1, <2>2
<1>8. in.q = z /\ in.sent = <<>>
  OBVIOUS
<1> HIDE DEF z, in
<1>9. /\ \A j \in DOMAIN z : \E k \in DOMAIN shifted : z[j] = shifted[k]
      /\ \A k \in DOMAIN shifted : \E j \in DOMAIN z : z[j] = shifted[k]
  BY <1>7, Zenon DEF SamePackets
<1>10. Within(z, shifted) /\ Within(shifted, z) /\ Within(q, shifted) /\ Within(shifted, q)
  BY <1>5, <1>9, Zenon DEF Within, SamePlaces
<1>11. Led(z)
  <2>1. Has(q, Video(0))
    BY EncodersAreFinite, Zenon DEF Encoders
  <2>2. Led(q)
    BY <2>1, Zenon DEF KeyFirst
  <2>3. Led(shifted)
    BY <1>10, <2>2, LedAlike, Zenon
  <2>. QED  BY <1>10, <2>3, LedAlike, Zenon
<1>12. z \in Seq(Pkts) /\ z # <<>>
  <2>1. z \in Seq(Pkts)
    BY <1>5, Zenon DEF Flow, z
  <2>2. \E k : k \in DOMAIN z
    BY <1>11, Zenon DEF Led
  <2>. QED  BY <2>1, <2>2
<1>13. <<>> \o z = z /\ DOMAIN <<>> = {}
  BY <1>12
<1>14. Led(in.sent \o in.q) /\ Marked(in.sent) /\ in.q # <<>>
  BY <1>8, <1>11, <1>12, <1>13, Zenon DEF Marked
<1>15. Flow(in.sent, in.q, next', aoff, voff)
  BY <1>5, <1>8, Zenon DEF z
<1>16. Led(out.sent \o out.q) /\ Marked(out.sent)
  BY <1>4, <1>14, <1>15, SentLed, Zenon
<1>. QED  BY <1>1, <1>16, Zenon

LEMMA DeliverFirstLed ==
    ASSUME SInv, ToldAlways, Leading, KeyframesKept, NEW e \in Encoders, DeliverFirst(e)
    PROVE  Leading'
<1>1. sent = <<>> /\ ~Started /\ Arrives(e)
  BY FirstCases
<1>2. ToldOf /\ KeyFirst(interleaved_packets)
  BY <1>1, Zenon DEF ToldAlways, Leading
<1>3. PICK d : /\ Fit(d, next') /\ KeyFirst(d.q)
               /\ \/ Begins(d) /\ Complete(d.ra, d.rv) /\ \A f \in Encoders : Has(d.q, f)
                  \/ Waits(d)
  BY <1>2, FirstKeyFirst, Zenon
<1>4. CASE Waits(d)
  <2>1. interleaved_packets' = d.q /\ sent' = sent
    BY <1>4 DEF Waits
  <2>. QED  BY <1>1, <1>3, <2>1, Zenon DEF Leading
<1>5. CASE Begins(d) /\ Complete(d.ra, d.rv) /\ \A f \in Encoders : Has(d.q, f)
  <2>1. Led(sent' \o interleaved_packets') /\ Marked(sent')
    BY <1>1, <1>3, <1>5, BeginsLed, Zenon
  <2>2. Started'
    BY <1>5, Zenon DEF Begins, Started, Complete
  <2>. QED  BY <2>1, <2>2, Zenon DEF Leading
<1>. QED  BY <1>3, <1>4, <1>5

LEMMA DeliverNextLed ==
    ASSUME SInv, BegunBySending, Leading, NEW e \in Encoders, DeliverNext(e)
    PROVE  Leading'
<1> DEFINE aoff == audio_offsets
<1> DEFINE voff == video_offsets
<1> DEFINE q == interleaved_packets
<1> DEFINE p == InStream(e, next[e], aoff, voff)
<1>1. Started /\ Arrives(e)
  BY DEF DeliverNext
<1>2. /\ IInv /\ TypeOK /\ sent # <<>> /\ Flow(sent, q, next, aoff, voff)
      /\ Led(sent \o q) /\ Marked(sent)
  BY <1>1, Zenon DEF SInv, IInv, Streaming, BegunBySending, Leading
<1>3. /\ next \in [Encoders -> Nat] /\ next[e] \in Nat /\ next' = [next EXCEPT ![e] = @ + 1]
      /\ aoff \in [Audios -> Int] /\ voff \in [Videos -> Int]
  <2>1. aoff \in [Audios -> Int] /\ voff \in [Videos -> Int]
    BY <1>2 DEF TypeOK
  <2>. QED  BY <1>1, <1>2, <2>1, OneMore, Zenon
<1>4. p \in Pkts /\ p.enc = e /\ p.n = next[e]
  <2>1. PICK n \in Nat : n = next[e]
    BY <1>3
  <2>2. /\ InStream(e, n, aoff, voff) \in Pkts /\ InStream(e, n, aoff, voff).enc = e
        /\ InStream(e, n, aoff, voff).n = n
    BY <1>3, InStreamIs
  <2>. QED  BY <2>1, <2>2, Zenon
<1>5. PICK c, r :
              /\ c.q = Insert(q, p) /\ c.sent = sent
              /\ interleaved_packets' = r.q /\ sent' = r.sent
              /\ Sends(c, r, highest_audio_ts', highest_video_ts')
  BY <1>2, NextSends, Zenon
<1>6. Flow(sent, Insert(q, p), next', aoff, voff)
  BY <1>2, <1>3, InsertFlow, Zenon
<1> HIDE DEF p
<1>7. Led(sent \o Insert(q, p))
  BY <1>2, <1>4, InsertLed, Zenon
<1>8. Flow(c.sent, c.q, next', aoff, voff) /\ Led(c.sent \o c.q) /\ Marked(c.sent)
  BY <1>2, <1>5, <1>6, <1>7, Zenon
<1>9. Led(r.sent \o r.q) /\ Marked(r.sent)
  BY <1>3, <1>5, <1>8, SendsLed, Zenon
<1>10. sent' # <<>>
  BY DeliverNextStream, Zenon
<1>. QED  BY <1>5, <1>9, <1>10, Zenon DEF Leading

LEMMA SameLed ==
    ASSUME Leading, UNCHANGED <<received, packets, sent>>
    PROVE  Leading'
<1>1. /\ received_audio' = received_audio /\ received_video' = received_video
      /\ interleaved_packets' = interleaved_packets /\ sent' = sent
  BY DEF received, packets
<1>2. Started' <=> Started
  BY <1>1, Zenon DEF Started, Complete
<1>. QED  BY <1>1, <1>2, Zenon DEF Leading

LEMMA NextLed ==
    ASSUME VideoTracks = {0}, SInv, BegunBySending, ToldAlways, Leading, KeyframesKept, [Next]_vars
    PROVE  Leading'
<1>0. DOMAIN <<>> = {} /\ ~Has(<<>>, Video(0))
  BY NothingThere
<1>1. CASE Hook
  <2>1. interleaved_packets' = <<>> /\ sent' = <<>>
    BY <1>1, Zenon DEF Hook
  <2>. QED  BY <1>0, <2>1, Zenon DEF Leading, KeyFirst, Marked
<1>2. ASSUME NEW e \in Encoders, DeliverUnwanted(e) PROVE Leading'
  <2>1. /\ ~Started /\ sent = <<>> /\ sent' = <<>> /\ e \in Videos /\ ~received_video[e]
        /\ received_audio' = received_audio /\ received_video' = received_video /\ Gathered'
    BY <1>2, DeliverUnwantedStream, Zenon
  <2>2. e = Video(0)
    BY <2>1, OneVideoFirst
  <2>3. ~Started'
    BY <2>1, Zenon DEF Started, Complete
  <2>4. ~Has(interleaved_packets', Video(0))
    BY <2>1, <2>2, <2>3, EncodersAreFinite, Zenon DEF Gathered
  <2>. QED  BY <1>0, <2>1, <2>4, Zenon DEF Leading, KeyFirst, Marked
<1>3. ASSUME NEW e \in Encoders, DeliverFirst(e) PROVE Leading'
  BY <1>3, DeliverFirstLed
<1>4. ASSUME NEW e \in Encoders, DeliverNext(e) PROVE Leading'
  BY <1>4, DeliverNextLed
<1>5. CASE Activate
  BY <1>5, SameLed, Zenon DEF Activate
<1>6. CASE EndCapture
  BY <1>6, SameLed, Zenon DEF EndCapture
<1>7. ASSUME NEW e \in Encoders, StopEncoder(e) PROVE Leading'
  BY <1>7, SameLed, Zenon DEF StopEncoder
<1>8. ASSUME NEW e \in Encoders, DeliverEarly(e) PROVE Leading'
  BY <1>8, SameLed, Zenon DEF DeliverEarly
<1>9. CASE UNCHANGED vars
  <2>1. UNCHANGED <<received, packets, sent>>
    BY <1>9, Zenon DEF vars
  <2>. QED  BY <2>1, SameLed
<1>. QED  BY <1>1, <1>2, <1>3, <1>4, <1>5, <1>6, <1>7, <1>8, <1>9, Zenon DEF Next

LEMMA LedStarts == VideoTracks = {0} /\ SInv /\ Leading => StartsWithKey
<1> SUFFICES ASSUME VideoTracks = {0}, SInv, Leading, NEW v \in Videos, NEW i \in Waiting(sent, v)
             PROVE  sent[i].key \/ \E j \in Waiting(sent, v) : j < i
  BY Zenon DEF StartsWithKey
<1> DEFINE w == sent \o interleaved_packets
<1>0. v = Video(0) /\ v \in Encoders
  BY OneVideoFirst DEF Encoders
<1>1. sent \in Seq(Sents)
  BY Zenon DEF SInv, IInv, Timed
<1>2. /\ i \in DOMAIN sent /\ sent[i].enc = v
      /\ \A j : j \in Waiting(sent, v) <=> j \in DOMAIN sent /\ sent[j].enc = v
  BY Zenon DEF Waiting
<1>3. sent # <<>>
  BY <1>1, <1>2
<1>4. /\ Led(w) /\ Unbroken(w, next) /\ interleaved_packets \in Seq(Pkts)
      /\ sent[i].key <=> Packet(sent[i].enc, sent[i].n).key
  BY <1>2, <1>3, Zenon DEF SInv, Streaming, Flow, Leading, Marked
<1>5. /\ DOMAIN sent = 1..Len(sent) /\ Len(sent) \in Nat /\ Len(interleaved_packets) \in Nat
      /\ Joined(w, sent, interleaved_packets)
  BY <1>1, <1>4, JoinedIs, Zenon
<1> HIDE DEF w
<1>6. i \in DOMAIN w /\ \A j \in DOMAIN w : j <= i => j \in DOMAIN sent /\ w[j] = sent[j]
  <2>1. /\ DOMAIN w = 1..Len(sent) + Len(interleaved_packets)
        /\ \A j \in 1..Len(sent) + Len(interleaved_packets) :
              w[j] = IF j <= Len(sent) THEN sent[j] ELSE interleaved_packets[j - Len(sent)]
    BY <1>5, Zenon DEF Joined
  <2>. QED  BY <1>2, <1>5, <2>1
<1>7. i <= i /\ w[i] = sent[i]
  <2>1. i <= i
    BY <1>2, <1>5
  <2>. QED  BY <1>6, <2>1
<1>8. PICK k \in DOMAIN w :
          /\ w[k].enc = Video(0) /\ Packet(Video(0), w[k].n).key
          /\ \A j \in DOMAIN w : w[j].enc = Video(0) => w[k].n <= w[j].n
  BY <1>4, Zenon DEF Led
<1>9. w[k].n <= w[i].n /\ w[k].n \in Nat /\ w[i].n \in Nat /\ w[k].enc = w[i].enc
  BY <1>0, <1>2, <1>4, <1>6, <1>7, <1>8, Zenon DEF Unbroken
<1>10. k \in Int /\ i \in Int
  <2>1. DOMAIN w = 1..Len(sent) + Len(interleaved_packets)
    BY <1>5, Zenon DEF Joined
  <2>. QED  BY <1>6, <2>1
<1>11. ~(i < k)
  <2> SUFFICES ASSUME i < k PROVE FALSE
    OBVIOUS
  <2>1. w[i].n < w[k].n
    BY <1>4, <1>6, <1>9, Zenon DEF Unbroken, InTurn
  <2>. QED  BY <1>9, <2>1
<1>12. CASE k = i
  <2>1. Packet(Video(0), sent[i].n).key
    BY <1>7, <1>8, <1>12, Zenon
  <2>. QED  BY <1>0, <1>2, <1>4, <2>1, Zenon
<1>13. CASE k < i
  <2>1. k <= i
    BY <1>10, <1>13
  <2>2. k \in DOMAIN sent /\ w[k] = sent[k]
    BY <1>6, <2>1, Zenon
  <2>3. sent[k].enc = v
    BY <1>0, <1>8, <2>2, Zenon
  <2>. QED  BY <1>2, <1>13, <2>2, <2>3, Zenon
<1>. QED  BY <1>10, <1>11, <1>12, <1>13

(* interleave_packets, with video track 0 only and any audio tracks: where  *)
(* prune_premature_packets does not cut into what follows a keyframe, the   *)
(* stream begins with one and has no gap.                                   *)
THEOREM OneVideoPlayable ==
    VideoTracks = {0} /\ Spec /\ [][KeyframesKept]_vars => []Playable
<1> SUFFICES ASSUME VideoTracks = {0} PROVE Spec /\ [][KeyframesKept]_vars => []Playable
  OBVIOUS
<1> DEFINE I == SInv /\ BegunBySending /\ ToldAlways /\ Leading
<1>1. Init => I
  <2>1. Init => /\ received_audio = FALSE /\ received_video = [e \in Videos |-> FALSE]
                /\ sent = <<>> /\ interleaved_packets = <<>>
    BY Zenon DEF Init
  <2>2. Init => ~received_video[Video(0)] /\ ~Started
    BY <2>1, EncodersAreFinite, Zenon DEF Started, Complete
  <2>3. DOMAIN <<>> = {} /\ ~Has(<<>>, Video(0))
    BY NothingThere
  <2>4. Init => Leading
    BY <2>1, <2>3, Zenon DEF Leading, KeyFirst, Marked
  <2>. QED  BY <2>2, <2>4, InitSInv, Zenon DEF BegunBySending, ToldAlways, ToldOf
<1>2. I /\ [KeyframesKept]_vars /\ [Next]_vars => I'
  <2> SUFFICES ASSUME I, [KeyframesKept]_vars, [Next]_vars PROVE I'
    OBVIOUS
  <2>1. CASE KeyframesKept
    BY <2>1, NextStream, NextTold, NextLed, Zenon
  <2>2. CASE UNCHANGED vars
    <3>1. UNCHANGED <<received, packets, sent>>
      BY <2>2, Zenon DEF vars
    <3>2. Leading'
      BY <3>1, SameLed, Zenon
    <3>. QED  BY <3>2, NextStream, NextTold, Zenon
  <2>. QED  BY <2>1, <2>2
<1>3. I => Playable
  BY StreamNoGaps, LedStarts, Zenon DEF Playable
<1>. QED  BY <1>1, <1>2, <1>3, PTL DEF Spec

-----------------------------------------------------------------------------
(* Where audio and video meet                                              *)

LEMMA DistanceIs ==
    ASSUME NEW x \in Int, NEW y \in Int
    PROVE  /\ Distance(x, y) \in Int
           /\ \A m \in Int : Distance(x, y) <= m <=> x <= y + m /\ y <= x + m
BY DEF Distance

\* How long the longer of the packets of audio track a and of video track 0 lasts.
Span(a) == Greatest({Step[a], Step[Video(0)]})

LEMMA SpanIs ==
    ASSUME NEW a \in Audios
    PROVE  /\ Span(a) \in Nat /\ Step[a] \in Nat /\ Step[Video(0)] \in Nat
           /\ Step[a] <= Span(a) /\ Step[Video(0)] <= Span(a)
<1> DEFINE S == {Step[a], Step[Video(0)]}
<1>1. Step[a] \in Nat /\ Step[Video(0)] \in Nat
  BY StepAssumption, EncodersAreFinite DEF Encoders
<1>2. S \in SUBSET Int /\ S # {} /\ S \in SUBSET Nat
  BY <1>1
<1>3. IsFiniteSet(S)
  <2>1. S = {Step[a]} \cup {Step[Video(0)]}
    OBVIOUS
  <2>2. IsFiniteSet({Step[a]}) /\ IsFiniteSet({Step[Video(0)]})
    BY FS_Singleton, Zenon
  <2>3. IsFiniteSet({Step[a]} \cup {Step[Video(0)]})
    BY <2>2, FS_Union, Zenon
  <2>. QED  BY <2>1, <2>3, Zenon
<1>4. Step[a] \in S /\ Step[Video(0)] \in S
  OBVIOUS
<1> HIDE DEF S
<1>5. Greatest(S) \in S /\ \A y \in S : Greatest(S) >= y
  BY <1>2, <1>3, GreatestInSet, Zenon
<1>6. PICK g \in S : g = Greatest(S) /\ \A y \in S : g >= y
  BY <1>5, Zenon
<1>7. g = Span(a)
  BY <1>6, Zenon DEF Span, S
<1>8. g >= Step[a] /\ g >= Step[Video(0)] /\ g \in Nat
  BY <1>2, <1>4, <1>6, Zenon
<1>9. Step[a] <= g /\ Step[Video(0)] <= g
  BY <1>1, <1>8
<1>. QED  BY <1>1, <1>7, <1>8, <1>9, Zenon

\* The distance of the packet at i from the first video packet.
Off(q, i) == Distance(q[i].ts, First(q, Video(0)).ts)

\* Some audio packet is closest to the first video packet.
LEMMA ClosestThere ==
    ASSUME NEW q \in Seq(Pkts), Has(q, Video(0)), \A a \in Audios : Has(q, a)
    PROVE  \E i \in DOMAIN q :
              /\ ~IsVideo(q[i])
              /\ \A j \in DOMAIN q : ~IsVideo(q[j]) => Off(q, i) <= Off(q, j)
<1> DEFINE audios == {i \in DOMAIN q : ~IsVideo(q[i])}
<1>0. Len(q) \in Nat /\ DOMAIN q = 1..Len(q) /\ IsFiniteSet(1..Len(q))
  BY FS_Interval
<1>1. audios \in SUBSET (1..Len(q))
  BY <1>0
<1>2. audios # {}
  <2>1. PICK a \in Audios : Has(q, a)
    BY EncodersAreFinite
  <2>2. FirstIdx(q, a) \in 1..Len(q) /\ q[FirstIdx(q, a)].enc = a
    BY <2>1, IdxIs, Zenon DEF First
  <2>3. a \notin Videos
    BY EncodersAreFinite
  <2>4. FirstIdx(q, a) \in audios
    BY <1>0, <2>2, <2>3, Zenon DEF IsVideo
  <2>. QED  BY <2>4
<1> DEFINE f == [i \in audios |-> Off(q, i)]
<1> DEFINE D == {f[i] : i \in audios}
<1>3. IsFiniteSet(audios)
  BY <1>0, <1>1, FS_Subset, Zenon
<1>4. IsFiniteSet(D)
  BY <1>3, ImageIsFinite, Zenon
<1>5. \A i \in audios : f[i] = Off(q, i) /\ Off(q, i) \in Int
  <2>1. \A x \in Pkts : x.ts \in Int
    BY DEF Pkts
  <2>2. First(q, Video(0)) \in Pkts
    BY IdxIs, Zenon
  <2>3. \A i \in audios : q[i] \in Pkts
    BY <1>0
  <2>4. \A i \in audios : Off(q, i) \in Int
    BY <2>1, <2>2, <2>3, DistanceIs, Zenon DEF Off
  <2>. QED  BY <2>4
<1>6. \A i : i \in audios <=> i \in DOMAIN q /\ ~IsVideo(q[i])
  OBVIOUS
<1> HIDE DEF f, audios
<1>7. D # {} /\ D \in SUBSET Int
  BY <1>2, <1>5
<1>8. PICK d \in D : \A y \in D : d <= y
  BY <1>4, <1>7, LeastInSet, Zenon
<1>9. PICK i \in audios : d = f[i]
  BY <1>8
<1>10. \A j \in audios : f[j] \in D
  OBVIOUS
<1>11. \A j \in audios : Off(q, i) <= Off(q, j)
  BY <1>5, <1>8, <1>9, <1>10, Zenon
<1>. QED  BY <1>6, <1>9, <1>11, Zenon

\* b is the audio packet that get_interleaved_start_idx decides by: m is closest
\* to the video, f is the first video packet, s is what it returns.
Decides(q, s, f, m, b) ==
    /\ {s, f, m, b} \subseteq DOMAIN q /\ f = FirstIdx(q, Video(0))
    /\ ~IsVideo(q[m]) /\ \A j \in DOMAIN q : ~IsVideo(q[j]) => Off(q, m) <= Off(q, j)
    /\ ~IsVideo(q[b]) /\ b <= m /\ (b = m \/ f <= b)
    /\ s <= b /\ s <= f
    /\ \/ q[b].pts <= 0
       \/ \A i \in DOMAIN q : ~IsVideo(q[i]) /\ s <= i => b <= i

LEMMA StartDecides ==
    ASSUME NEW q \in Seq(Pkts), Has(q, Video(0)), \A a \in Audios : Has(q, a)
    PROVE  \E f, m, b : Decides(q, StartIdx(q), f, m, b)
<1> DEFINE audios == {i \in DOMAIN q : ~IsVideo(q[i])}
<1> DEFINE off(i) == Distance(q[i].ts, First(q, Video(0)).ts)
<1> DEFINE near == {i \in audios : \A j \in audios : off(i) <= off(j)}
<1> DEFINE closest == Least(near)
<1> DEFINE f == FirstIdx(q, Video(0))
<1> DEFINE two == {closest, f}
<1> DEFINE idx == Least(two)
<1> DEFINE after == {i \in audios : i >= idx}
<1> DEFINE b == Least(after)
<1> DEFINE more == {idx} \cup {FirstIdx(q, a) : a \in {a \in Audios : Has(q, a)}}
<1> DEFINE s == StartIdx(q)
<1>0. Len(q) \in Nat /\ DOMAIN q = 1..Len(q) /\ IsFiniteSet(1..Len(q)) /\ 1..Len(q) \in SUBSET Int
  BY FS_Interval
<1>1. \A S \in SUBSET (1..Len(q)) : S # {} =>
          Least(S) \in S /\ Least(S) \in 1..Len(q) /\ \A y \in S : Least(S) <= y
  <2> SUFFICES ASSUME NEW S \in SUBSET (1..Len(q)), S # {}
               PROVE  Least(S) \in S /\ \A y \in S : Least(S) <= y
    OBVIOUS
  <2>1. IsFiniteSet(S) /\ S \in SUBSET Int
    BY <1>0, FS_Subset
  <2>. QED  BY <2>1, LeastInSet
<1>2. audios \in SUBSET (1..Len(q))
  BY <1>0
<1>3. s = IF q[b].pts <= 0 THEN Least(more) ELSE idx
  BY Zenon DEF StartIdx
<1>4. near # {} /\ near \in SUBSET (1..Len(q)) /\ near \in SUBSET audios
  <2>1. PICK i \in DOMAIN q : ~IsVideo(q[i]) /\ \A j \in DOMAIN q : ~IsVideo(q[j]) => Off(q, i) <= Off(q, j)
    BY ClosestThere, Zenon
  <2>2. i \in audios
    BY <2>1
  <2>3. \A j \in audios : off(i) <= off(j)
    BY <2>1, Zenon DEF Off
  <2> HIDE DEF off, audios
  <2>. QED  BY <1>2, <2>2, <2>3
<1>5. closest \in near
  BY <1>1, <1>4, Zenon
<1>6. closest \in audios /\ (\A j \in audios : off(closest) <= off(j)) /\ closest \in 1..Len(q)
  BY <1>4, <1>5
<1> HIDE DEF near, closest, off
<1>7. f \in 1..Len(q)
  BY IdxIs, Zenon
<1> HIDE DEF f
<1>8. /\ idx \in 1..Len(q) /\ idx <= f /\ idx <= closest /\ idx \in two
      /\ \A y \in two : idx <= y
  <2>1. two \in SUBSET (1..Len(q)) /\ two # {}
    BY <1>6, <1>7
  <2>2. f \in two /\ closest \in two
    OBVIOUS
  <2>. QED  BY <1>1, <2>1, <2>2, Zenon
<1>9. idx = closest \/ idx = f
  BY <1>8
<1> HIDE DEF idx
<1>10. b \in after /\ \A y \in after : b <= y
  <2>1. after \in SUBSET (1..Len(q)) /\ closest \in after
    BY <1>0, <1>2, <1>6, <1>8
  <2>. QED  BY <1>1, <2>1, Zenon
<1>11. b \in audios /\ idx <= b /\ b <= closest /\ \A i \in audios : idx <= i => b <= i
  <2>1. closest \in after
    BY <1>0, <1>2, <1>6, <1>8
  <2>2. b \in audios /\ b >= idx /\ b <= closest
    BY <1>10, <2>1
  <2>3. \A i \in audios : idx <= i => i \in after
    BY <1>0, <1>2, <1>8
  <2>4. \A i \in audios : idx <= i => b <= i
    BY <1>10, <2>3, Zenon
  <2>5. b \in Int /\ idx \in Int
    BY <1>0, <1>2, <1>8, <2>2
  <2>. QED  BY <2>2, <2>4, <2>5
<1> HIDE DEF b
<1>12. b = closest \/ f <= b
  <2>1. CASE idx = closest
    BY <1>0, <1>2, <1>6, <1>11, <2>1
  <2>2. CASE idx = f
    BY <1>11, <2>2
  <2>. QED  BY <1>9, <2>1, <2>2
<1>13. Least(more) \in 1..Len(q) /\ Least(more) <= idx
  <2>1. \A a \in Audios : Has(q, a) => FirstIdx(q, a) \in 1..Len(q)
    BY IdxIs, Zenon
  <2>2. more \in SUBSET (1..Len(q)) /\ more # {} /\ idx \in more
    BY <1>8, <2>1
  <2> HIDE DEF more
  <2>. QED  BY <1>1, <2>2, Zenon
<1> HIDE DEF more
<1>14. /\ s \in 1..Len(q) /\ s <= idx
       /\ q[b].pts <= 0 \/ s = idx
  <2>1. CASE q[b].pts <= 0
    <3>1. s = Least(more)
      BY <1>3, <2>1, Zenon
    <3>. QED  BY <1>13, <2>1, <3>1, Zenon
  <2>2. CASE ~(q[b].pts <= 0)
    <3>1. s = idx
      BY <1>3, <2>2, Zenon
    <3>2. idx <= idx
      BY <1>0, <1>8
    <3>. QED  BY <1>8, <3>1, <3>2, Zenon
  <2>. QED  BY <2>1, <2>2
<1> HIDE DEF s
<1>15. s <= b /\ s <= f
  BY <1>0, <1>2, <1>7, <1>8, <1>11, <1>14
<1>16. q[b].pts <= 0 \/ \A i \in audios : s <= i => b <= i
  BY <1>11, <1>14, Zenon
<1>17. \A i : i \in audios <=> i \in DOMAIN q /\ ~IsVideo(q[i])
  OBVIOUS
<1> HIDE DEF audios
<1>18. {s, f, closest, b} \subseteq DOMAIN q
  BY <1>0, <1>2, <1>6, <1>7, <1>11, <1>14
<1>19. \A j \in DOMAIN q : ~IsVideo(q[j]) => Off(q, closest) <= Off(q, j)
  BY <1>6, <1>17, Zenon DEF Off, off
<1>20. Decides(q, s, f, closest, b)
  BY <1>6, <1>11, <1>12, <1>15, <1>16, <1>17, <1>18, <1>19, Zenon DEF Decides, f
<1>. QED  BY <1>20, Zenon DEF s

\* The first packet of a track stays if all before it go.
LEMMA FirstStays ==
    ASSUME NEW q \in Seq(Pkts), NEW e, Has(q, e), NEW n \in 0..Len(q), n < FirstIdx(q, e)
    PROVE  Has(Discarded(q, n), e) /\ First(Discarded(q, n), e) = First(q, e)
<1> DEFINE r == Discarded(q, n)
<1>1. Behind(r, q, n)
  BY DiscardedIs
<1> HIDE DEF r
<1>2. /\ r \in Seq(Pkts) /\ DOMAIN r = 1..Len(q) - n
      /\ \A i \in DOMAIN r : i + n \in DOMAIN q /\ r[i] = q[i + n]
  BY <1>1, Zenon DEF Behind
<1>3. /\ FirstIdx(q, e) \in DOMAIN q /\ First(q, e) = q[FirstIdx(q, e)]
      /\ \A i \in DOMAIN q : q[i].enc = e => FirstIdx(q, e) <= i
      /\ First(q, e).enc = e
  BY HasIs, IdxIs, Zenon
<1>4. PICK f \in DOMAIN q : f = FirstIdx(q, e)
  BY <1>3, Zenon
<1>5. q[f].enc = e /\ First(q, e) = q[f] /\ n < f /\ \A i \in DOMAIN q : q[i].enc = e => f <= i
  BY <1>3, <1>4, Zenon
<1>6. f - n \in DOMAIN r /\ r[f - n] = q[f]
  BY <1>2, <1>5
<1>7. Has(r, e)
  BY <1>2, <1>5, <1>6, HasIs, Zenon
<1>8. /\ FirstIdx(r, e) \in DOMAIN r /\ First(r, e) = r[FirstIdx(r, e)]
      /\ FirstIdx(r, e) <= f - n /\ First(r, e).enc = e
  BY <1>2, <1>5, <1>6, <1>7, HasIs, IdxIs, Zenon
<1>9. PICK g \in DOMAIN r : g = FirstIdx(r, e)
  BY <1>8, Zenon
<1>10. g <= f - n /\ r[g].enc = e /\ r[g] = First(r, e)
  BY <1>8, <1>9, Zenon
<1>11. g + n \in DOMAIN q /\ r[g] = q[g + n]
  BY <1>2
<1>12. f <= g + n
  BY <1>5, <1>10, <1>11, Zenon
<1>13. g + n = f
  BY <1>2, <1>10, <1>12
<1>14. First(r, e) = First(q, e)
  BY <1>5, <1>10, <1>11, <1>13, Zenon
<1>. QED  BY <1>7, <1>14, Zenon DEF r

\* The audio packet at j is near the first video packet.
Near(q, a, j) == j \in DOMAIN q /\ q[j].enc = a /\ Off(q, j) <= Span(a)
Meets(q, a) == \E j : Near(q, a, j)

\* The track starts with it, or it primes the decoder.
StartsNear(q, a) ==
    \E j : /\ Near(q, a, j)
           /\ q[j].pts <= 0 \/ \A i \in DOMAIN q : q[i].enc = a => j <= i

\* get_interleaved_start_idx: the audio near the video is kept, and what is
\* before it is thrown away unless it primes the decoder.
LEMMA StartJoins ==
    ASSUME NEW a, Audios = {a}, NEW q \in Seq(Pkts), Sorted(q),
           Has(q, Video(0)), Has(q, a), Meets(q, a)
    PROVE  /\ StartsNear(Discarded(q, StartIdx(q) - 1), a)
           /\ First(Discarded(q, StartIdx(q) - 1), Video(0)) = First(q, Video(0))
<1>0. DOMAIN q = 1..Len(q) /\ Len(q) \in Nat /\ Video(0) \in Videos /\ a \in Audios /\ a \in Encoders
  BY EncodersAreFinite DEF Encoders
<1>1. PICK f, m, b : Decides(q, StartIdx(q), f, m, b)
  <2>1. \A x \in Audios : Has(q, x)
    OBVIOUS
  <2>. QED  BY <2>1, StartDecides, Zenon
<1> DEFINE s == StartIdx(q)
<1>2. /\ s \in DOMAIN q /\ f \in DOMAIN q /\ m \in DOMAIN q /\ b \in DOMAIN q
      /\ f = FirstIdx(q, Video(0)) /\ ~IsVideo(q[m]) /\ ~IsVideo(q[b])
      /\ \A j \in DOMAIN q : ~IsVideo(q[j]) => Off(q, m) <= Off(q, j)
      /\ b <= m /\ (b = m \/ f <= b) /\ s <= b /\ s <= f
      /\ \/ q[b].pts <= 0
         \/ \A i \in DOMAIN q : ~IsVideo(q[i]) /\ s <= i => b <= i
  BY <1>1, Zenon DEF Decides
<1>3. \A i \in DOMAIN q : ~IsVideo(q[i]) <=> q[i].enc = a
  <2>1. \A i \in DOMAIN q : q[i].enc \in Videos \/ q[i].enc \in Audios
    <3>1. \A i \in DOMAIN q : q[i] \in Pkts
      BY <1>0
    <3>. QED  BY <3>1 DEF Pkts, Encoders
  <2>2. a \notin Videos
    BY EncodersAreFinite
  <2>. QED  BY <2>1, <2>2, Zenon DEF IsVideo
<1>4. \A i \in DOMAIN q : q[i].ts \in Int
  <2>1. \A i \in DOMAIN q : q[i] \in Pkts
    BY <1>0
  <2>. QED  BY <2>1 DEF Pkts
<1>5. First(q, Video(0)) = q[f]
  BY <1>2, Zenon DEF First
<1>6. PICK v \in Int : v = q[f].ts
  BY <1>2, <1>4, Zenon
<1>7. \A i \in DOMAIN q : Off(q, i) = Distance(q[i].ts, v)
  BY <1>5, <1>6, Zenon DEF Off
<1>8. PICK d \in Int : d = Span(a)
  BY <1>0, SpanIs
<1>9. Distance(q[m].ts, v) <= d
  <2>1. PICK k : Near(q, a, k)
    BY Zenon DEF Meets
  <2>2. k \in DOMAIN q /\ Off(q, k) <= d /\ Off(q, m) <= Off(q, k)
    BY <1>2, <1>3, <1>8, <2>1, Zenon DEF Near
  <2>3. PICK x \in Int, y \in Int : x = Off(q, m) /\ y = Off(q, k)
    BY <1>2, <1>4, <1>7, <2>2, DistanceIs
  <2>4. x <= y /\ y <= d
    BY <2>2, <2>3, Zenon
  <2>5. x <= d
    BY <2>4
  <2>. QED  BY <1>2, <1>7, <2>3, <2>5, Zenon
<1>10. Distance(q[b].ts, v) <= d
  <2>1. CASE b = m
    BY <1>9, <2>1
  <2>2. CASE f <= b
    <3>1. PICK x \in Int, y \in Int : x = q[b].ts /\ y = q[m].ts
      BY <1>2, <1>4
    <3>2. v <= x
      <4>1. CASE f = b
        BY <1>6, <3>1, <4>1
      <4>2. CASE f < b
        BY <1>2, <1>6, <3>1, <4>2, Zenon DEF Sorted
      <4>. QED  BY <1>0, <1>2, <2>2, <4>1, <4>2
    <3>3. x <= y
      <4>1. CASE b = m
        BY <3>1, <4>1
      <4>2. CASE b < m
        BY <1>2, <3>1, <4>2, Zenon DEF Sorted
      <4>. QED  BY <1>0, <1>2, <4>1, <4>2
    <3>4. y <= v + d
      <4>1. Distance(y, v) <= d
        BY <1>9, <3>1
      <4>. QED  BY <4>1, DistanceIs
    <3>5. x <= v + d /\ v <= x + d
      <4>1. d >= 0
        BY <1>0, <1>8, SpanIs
      <4>. QED  BY <3>2, <3>3, <3>4, <4>1
    <3>. QED  BY <3>1, <3>5, DistanceIs
  <2>. QED  BY <1>2, <2>1, <2>2
<1> DEFINE r == Discarded(q, s - 1)
<1>11. s - 1 \in 0..Len(q) /\ s - 1 < f
  BY <1>0, <1>2
<1>12. First(r, Video(0)) = First(q, Video(0))
  BY <1>2, <1>11, FirstStays
<1>13. Behind(r, q, s - 1)
  BY <1>11, DiscardedIs
<1> HIDE DEF r
<1>14. /\ DOMAIN r = 1..Len(q) - (s - 1)
       /\ \A i \in DOMAIN r : i + (s - 1) \in DOMAIN q /\ r[i] = q[i + (s - 1)]
  BY <1>13, Zenon DEF Behind
<1> HIDE DEF s
<1>15. PICK j \in Int : j = b - (s - 1)
  BY <1>0, <1>2
<1>16. j \in DOMAIN r /\ j + (s - 1) = b
  BY <1>0, <1>2, <1>14, <1>15
<1>17. r[j] = q[b]
  BY <1>14, <1>16, Zenon
<1>18. Near(r, a, j)
  <2>1. Off(r, j) = Distance(q[b].ts, v)
    BY <1>5, <1>6, <1>12, <1>17, Zenon DEF Off
  <2>2. r[j].enc = a
    BY <1>2, <1>3, <1>17, Zenon
  <2>. QED  BY <1>8, <1>10, <1>16, <2>1, <2>2, Zenon DEF Near
<1>19. ASSUME q[b].pts <= 0 PROVE StartsNear(r, a)
  <2>1. r[j].pts <= 0
    BY <1>17, <1>19, Zenon
  <2>. QED  BY <1>18, <2>1, Zenon DEF StartsNear
<1>20. ASSUME \A i \in DOMAIN q : ~IsVideo(q[i]) /\ s <= i => b <= i PROVE StartsNear(r, a)
  <2>1. ASSUME NEW i \in DOMAIN r, r[i].enc = a PROVE j <= i
    <3>1. i + (s - 1) \in DOMAIN q /\ r[i] = q[i + (s - 1)] /\ s <= i + (s - 1)
      BY <1>0, <1>2, <1>14
    <3>2. ~IsVideo(q[i + (s - 1)])
      BY <1>3, <2>1, <3>1, Zenon
    <3>3. b <= i + (s - 1)
      BY <1>20, <3>1, <3>2, Zenon
    <3>. QED  BY <1>0, <1>2, <1>14, <1>15, <3>3
  <2>. QED  BY <1>18, <2>1, Zenon DEF StartsNear
<1>21. StartsNear(r, a)
  BY <1>2, <1>19, <1>20, Zenon DEF s
<1>. QED  BY <1>12, <1>21, Zenon DEF r, s

-----------------------------------------------------------------------------
(* What prune_premature_packets and the searches leave                     *)

LEMMA PacketAfter ==
    ASSUME NEW e \in Encoders, NEW n \in Nat
    PROVE  Packet(e, n + 1).ts = Packet(e, n).ts + Step[e] /\ Packet(e, n).ts \in Int
<1>1. Step[e] \in Nat /\ StartTs[e] \in Nat
  BY StepAssumption, TimeAssumption
<1>2. n + 1 \in Nat /\ (n + 1) * Step[e] = (n * Step[e]) + Step[e] /\ n * Step[e] \in Int
  BY <1>1
<1>3. Packet(e, n).ts = StartTs[e] + (n * Step[e])
  BY PacketIs, Zenon
<1>4. Packet(e, n + 1).ts = StartTs[e] + ((n + 1) * Step[e])
  BY <1>2, PacketIs, Zenon
<1>5. PICK x \in Int : x = n * Step[e]
  BY <1>2
<1>6. Packet(e, n).ts = StartTs[e] + x /\ Packet(e, n + 1).ts = StartTs[e] + (x + Step[e])
  BY <1>2, <1>3, <1>4, <1>5, Zenon
<1>. QED  BY <1>1, <1>6

LEMMA PredecessorIs ==
    ASSUME NEW n \in Nat, NEW k \in Nat, k < n
    PROVE  \E m \in Nat : n = m + 1
<1>1. n - 1 \in Nat /\ n = (n - 1) + 1
  OBVIOUS
<1>. QED  BY <1>1

LEMMA LaterCaptured ==
    ASSUME NEW e \in Encoders, NEW m \in Nat, NEW n \in Nat, m < n
    PROVE  Packet(e, m).ts < Packet(e, n).ts
<1> DEFINE aoff == [a \in Audios |-> 0]
<1> DEFINE voff == [v \in Videos |-> 0]
<1>1. aoff \in [Audios -> Int] /\ voff \in [Videos -> Int]
  OBVIOUS
<1> HIDE DEF aoff, voff
<1>. QED  BY <1>1, LaterIsDueLater, Zenon

\* The audio goes on until past the first video packet, and its first packet is
\* not much later than that.
LEMMA AudioMeets ==
    ASSUME NEW a \in Audios, NEW nx, NEW q \in Seq(Pkts), Encoded(q), UpToDate(q, nx),
           \A i \in DOMAIN q : q[i].n < nx[q[i].enc], nx[a] \in Int,
           Has(q, Video(0)), Has(q, a),
           First(q, a).ts <= First(q, Video(0)).ts + Step[Video(0)],
           NEW l \in DOMAIN q, q[l].enc = a, First(q, Video(0)).ts <= q[l].ts
    PROVE  Meets(q, a)
<1>0. DOMAIN q = 1..Len(q) /\ Len(q) \in Nat /\ a \in Encoders /\ Video(0) \in Encoders
  BY EncodersAreFinite DEF Encoders
<1>1. PICK v \in Int : v = First(q, Video(0)).ts
  <2>1. First(q, Video(0)) \in Pkts
    BY IdxIs, Zenon
  <2>. QED  BY <2>1 DEF Pkts
<1>2. \A i \in DOMAIN q : q[i].n \in Nat /\ q[i].ts \in Int /\ q[i].ts = Packet(q[i].enc, q[i].n).ts
  <2>1. \A i \in DOMAIN q : q[i] \in Pkts
    BY <1>0
  <2>2. \A i \in DOMAIN q : q[i].n \in Nat /\ q[i].ts \in Int
    BY <2>1 DEF Pkts
  <2>3. \A i \in DOMAIN q : q[i].ts = Packet(q[i].enc, q[i].n).ts
    BY Zenon DEF Encoded
  <2>. QED  BY <2>2, <2>3, Zenon
<1> DEFINE I == {i \in DOMAIN q : q[i].enc = a /\ v <= q[i].ts}
<1> DEFINE g == [i \in I |-> q[i].n]
<1> DEFINE N == {g[i] : i \in I}
<1>3. IsFiniteSet(N) /\ N # {} /\ N \in SUBSET Int
  <2>1. I \in SUBSET (1..Len(q)) /\ IsFiniteSet(1..Len(q))
    BY <1>0, FS_Interval
  <2>2. IsFiniteSet(I)
    BY <2>1, FS_Subset, Zenon
  <2>4. l \in I
    BY <1>1
  <2>5. \A i \in I : g[i] \in Int
    BY <1>2
  <2> HIDE DEF I, g
  <2>3. IsFiniteSet(N)
    BY <2>2, ImageIsFinite, Zenon
  <2>. QED  BY <2>3, <2>4, <2>5
<1>4. PICK n \in N : \A m \in N : n <= m
  BY <1>3, LeastInSet, Zenon
<1>5. PICK j \in DOMAIN q : q[j].enc = a /\ v <= q[j].ts /\ n = q[j].n
  BY <1>4
<1>6. \A i \in DOMAIN q : q[i].enc = a /\ v <= q[i].ts => n <= q[i].n
  <2> SUFFICES ASSUME NEW i \in DOMAIN q, q[i].enc = a, v <= q[i].ts PROVE n <= q[i].n
    OBVIOUS
  <2>1. i \in I
    OBVIOUS
  <2>2. g[i] = q[i].n /\ g[i] \in N
    BY <2>1
  <2>. QED  BY <1>4, <2>2, Zenon
<1> HIDE DEF N
<1>7. PICK x \in Int : x = q[j].ts
  BY <1>2
<1>8. n \in Nat /\ x = Packet(a, n).ts /\ n < nx[a]
  BY <1>2, <1>5, <1>7, Zenon
<1>9. PICK d \in Int : d = Span(a)
  BY SpanIs
<1>10. /\ d >= 0 /\ Step[a] \in Nat /\ Step[Video(0)] \in Nat /\ Step[a] <= d /\ Step[Video(0)] <= d
  BY <1>9, SpanIs
<1>11. x <= v + d
  <2>1. PICK f \in DOMAIN q : q[f] = First(q, a)
    <3>1. FirstIdx(q, a) \in DOMAIN q /\ First(q, a) = q[FirstIdx(q, a)]
      BY HasIs, Zenon
    <3>. QED  BY <3>1, Zenon
  <2>2. q[f].enc = a
    BY <2>1, IdxIs, Zenon
  <2>3. PICK k \in Nat, y \in Int : k = q[f].n /\ y = q[f].ts
    BY <1>2
  <2>4. y <= v + Step[Video(0)] /\ y = Packet(a, k).ts
    BY <1>1, <1>2, <2>1, <2>2, <2>3, Zenon
  <2>5. CASE n < k
    <3>1. x < y
      BY <1>0, <1>8, <2>4, <2>5, LaterCaptured, Zenon
    <3>. QED  BY <1>10, <2>4, <3>1
  <2>6. CASE n = k
    <3>1. x = y
      BY <1>8, <2>4, <2>6
    <3>. QED  BY <1>10, <2>4, <3>1
  <2>7. CASE k < n
    <3>1. PICK m \in Nat : n = m + 1
      BY <1>8, <2>7, PredecessorIs
    <3>2. k <= m /\ m < nx[a]
      BY <1>8, <2>7, <3>1
    <3>3. PICK i \in DOMAIN q : q[i].enc = a /\ q[i].n = m
      <4>1. q[f].n <= m /\ m < nx[q[f].enc]
        BY <2>2, <2>3, <3>2, Zenon
      <4>2. \E i \in DOMAIN q : q[i].enc = q[f].enc /\ q[i].n = m
        BY <4>1, Zenon DEF UpToDate
      <4>. QED  BY <2>2, <4>2, Zenon
    <3>4. PICK z \in Int : z = q[i].ts
      BY <1>2
    <3>5. ~(v <= z)
      <4>1. v <= z => n <= m
        BY <1>6, <3>3, <3>4, Zenon
      <4>. QED  BY <3>1, <4>1
    <3>6. z = Packet(a, m).ts
      BY <1>2, <3>3, <3>4, Zenon
    <3>7. x = z + Step[a]
      BY <1>0, <1>8, <3>1, <3>6, PacketAfter, Zenon
    <3>. QED  BY <1>10, <3>5, <3>7
  <2>. QED  BY <1>8, <2>5, <2>6, <2>7
<1>12. Off(q, j) <= d
  <2>1. v <= x + d
    BY <1>5, <1>7, <1>10
  <2>2. Distance(x, v) <= d
    BY <1>11, <2>1, DistanceIs
  <2>. QED  BY <1>1, <1>7, <2>2, Zenon DEF Off
<1>. QED  BY <1>5, <1>9, <1>12, Zenon DEF Meets, Near

LEMMA OneAudioTrack ==
    ASSUME OneAudio, NEW a \in Audios
    PROVE  Audios = {a} /\ Cardinality(Audios) = 1 /\ Audio(Greatest(AudioTracks)) = a
<1>1. PICK k \in AudioTracks : a = Audio(k)
  BY Zenon DEF Audios
<1>2. AudioTracks = {k}
  BY Zenon DEF OneAudio
<1>3. Audios = {a}
  BY <1>1, <1>2, Zenon DEF Audios
<1>4. Cardinality({a}) = 1
  BY FS_Singleton, Zenon
<1>5. Greatest({k}) \in {k}
  <2>1. {k} \in SUBSET Int /\ {k} # {}
    BY TracksAssumption
  <2>2. IsFiniteSet({k})
    BY FS_Singleton, Zenon
  <2>. QED  BY <2>1, <2>2, GreatestInSet, Zenon
<1>6. Greatest(AudioTracks) = k
  BY <1>2, <1>5
<1>. QED  BY <1>1, <1>3, <1>4, <1>6, Zenon

\* prune_premature_packets, with one audio track: what it throws away goes up to
\* the first audio packet, which is later than the first video packet.
LEMMA PrematureIs ==
    ASSUME OneAudio, NEW a \in Audios, NEW q \in Seq(Pkts), Sorted(q),
           Has(q, Video(0)), Has(q, a)
    PROVE  \/ /\ Premature(q) = 0
              /\ First(q, a).ts <= First(q, Video(0)).ts + Step[Video(0)]
           \/ /\ Premature(q) # 0 /\ Premature(q) = FirstIdx(q, a)
              /\ FirstIdx(q, Video(0)) < FirstIdx(q, a)
<1> DEFINE firsts == {FirstIdx(q, e) : e \in Audios \cup {Video(0)}}
<1> DEFINE limit == IF Cardinality(Audios) > 1
                    THEN Greatest({Step[Video(0)], Greatest({Step[e] : e \in Audios})})
                    ELSE Step[Video(0)]
<1>0. DOMAIN q = 1..Len(q) /\ Len(q) \in Nat
  OBVIOUS
<1>1. Audios = {a} /\ Cardinality(Audios) = 1 /\ Audio(Greatest(AudioTracks)) = a
  BY OneAudioTrack, Zenon
<1>2. PICK s \in Nat : s = Step[Video(0)]
  BY SpanIs
<1>3. limit = s
  <2>1. ~(Cardinality(Audios) > 1)
    BY <1>1
  <2>. QED  BY <1>2, <2>1, Zenon
<1> HIDE DEF limit
<1>4. PICK f \in 1..Len(q), g \in 1..Len(q) :
          /\ f = FirstIdx(q, Video(0)) /\ g = FirstIdx(q, a)
          /\ First(q, Video(0)) = q[f] /\ First(q, a) = q[g]
  BY IdxIs, Zenon DEF First
<1>5. PICK x \in Int, y \in Int : x = First(q, a).ts /\ y = First(q, Video(0)).ts
  <2>1. First(q, a) \in Pkts /\ First(q, Video(0)) \in Pkts
    BY IdxIs, Zenon
  <2>. QED  BY <2>1 DEF Pkts
<1>6. Premature(q) = IF x - y > s THEN Greatest(firsts) ELSE 0
  <2>1. Premature(q) = IF First(q, Audio(Greatest(AudioTracks))).ts - First(q, Video(0)).ts > limit
                       THEN Greatest(firsts) ELSE 0
    BY Zenon DEF Premature, limit, firsts
  <2>. QED  BY <1>1, <1>3, <1>5, <2>1, Zenon
<1>7. CASE ~(x - y > s)
  <2>1. Premature(q) = 0
    BY <1>6, <1>7, Zenon
  <2>2. x <= y + s
    BY <1>7
  <2>. QED  BY <1>2, <1>5, <2>1, <2>2, Zenon
<1>8. CASE x - y > s
  <2>1. y < x
    BY <1>8
  <2>2. f < g
    <3>1. CASE g = f
      <4>1. x = y
        BY <1>4, <1>5, <3>1, Zenon
      <4>. QED  BY <2>1, <4>1
    <3>2. CASE g < f
      <4>1. x <= y
        BY <1>0, <1>4, <1>5, <3>2, Zenon DEF Sorted
      <4>. QED  BY <2>1, <4>1
    <3>. QED  BY <3>1, <3>2
  <2>3. firsts = {g} \cup {f}
    <3>1. firsts = {FirstIdx(q, a), FirstIdx(q, Video(0))}
      BY <1>1, Zenon
    <3>. QED  BY <1>4, <3>1
  <2>4. Greatest({g} \cup {f}) = g
    <3>1. IsFiniteSet({g}) /\ IsFiniteSet({f})
      BY FS_Singleton, Zenon
    <3>2. IsFiniteSet({g} \cup {f})
      BY <3>1, FS_Union, Zenon
    <3>3. {g} \cup {f} \in SUBSET Int /\ {g} \cup {f} # {}
      OBVIOUS
    <3>4. PICK z \in {g} \cup {f} : z = Greatest({g} \cup {f}) /\ \A w \in {g} \cup {f} : z >= w
      BY <3>2, <3>3, GreatestInSet, Zenon
    <3>5. z >= g
      BY <3>4, Zenon
    <3>6. z = g
      BY <2>2, <3>4, <3>5
    <3>. QED  BY <3>4, <3>6, Zenon
  <2> HIDE DEF firsts
  <2>5. Premature(q) = g
    BY <1>6, <1>8, <2>3, <2>4, Zenon
  <2>6. g # 0
    OBVIOUS
  <2>. QED  BY <1>4, <2>2, <2>5, <2>6, Zenon
<1>. QED  BY <1>7, <1>8

\* The number of the packet of a track that comes later in a queue is higher.
LEMMA LaterNumber ==
    ASSUME NEW q \in Seq(Pkts), Ordered(q),
           \A i, j \in DOMAIN q : q[i].enc = q[j].enc /\ q[i].n = q[j].n => i = j,
           NEW i \in DOMAIN q, NEW j \in DOMAIN q, q[i].enc = q[j].enc, i < j
    PROVE  q[i].n < q[j].n
<1>0. DOMAIN q = 1..Len(q) /\ q[i] \in Pkts /\ q[j] \in Pkts
  OBVIOUS
<1>1. PICK m \in Nat, n \in Nat : m = q[i].n /\ n = q[j].n
  BY <1>0 DEF Pkts
<1>2. m # n
  <2>1. m = n => i = j
    BY <1>1, Zenon
  <2>. QED  BY <1>0, <2>1
<1>3. ~(n < m)
  <2>1. n < m => j < i
    BY <1>1, Zenon DEF Ordered
  <2>. QED  BY <1>0, <2>1
<1>4. m < n
  BY <1>2, <1>3
<1>. QED  BY <1>1, <1>4, Zenon

\* The queue has packet m of the track of its packet i, which is between that and
\* its packet j.
LEMMA BetweenThere ==
    ASSUME NEW nx \in [Encoders -> Int], NEW q \in Seq(Pkts), UpToDate(q, nx),
           \A i \in DOMAIN q : q[i].n < nx[q[i].enc],
           NEW i \in DOMAIN q, NEW j \in DOMAIN q, q[i].enc = q[j].enc,
           NEW m \in Nat, q[i].n <= m, m <= q[j].n
    PROVE  \E k \in DOMAIN q : q[k].enc = q[i].enc /\ q[k].n = m
<1>1. q[j] \in Pkts
  OBVIOUS
<1>2. PICK n \in Nat, x \in Int : n = q[j].n /\ x = nx[q[j].enc]
  BY <1>1 DEF Pkts
<1>3. n < x
  BY <1>2, Zenon
<1>4. m < x
  BY <1>2, <1>3
<1>5. m < nx[q[i].enc]
  BY <1>2, <1>4, Zenon
<1>. QED  BY <1>5, Zenon DEF UpToDate

\* Behind the first audio packet, with a video packet in front of it, audio and
\* video go on.
LEMMA PrunedMeets ==
    ASSUME NEW a \in Audios, NEW nx \in [Encoders -> Int], NEW q \in Seq(Pkts),
           Encoded(q), UpToDate(q, nx), Sorted(q), Ordered(q),
           \A i \in DOMAIN q : q[i].n < nx[q[i].enc],
           \A i, j \in DOMAIN q : q[i].enc = q[j].enc /\ q[i].n = q[j].n => i = j,
           Has(q, Video(0)), Has(q, a), FirstIdx(q, Video(0)) < FirstIdx(q, a),
           NEW r, r = Discarded(q, FirstIdx(q, a)), Has(r, Video(0)), Has(r, a)
    PROVE  Meets(r, a)
<1>0. DOMAIN q = 1..Len(q) /\ Len(q) \in Nat /\ a \in Encoders /\ Video(0) \in Encoders /\ a # Video(0)
  BY EncodersAreFinite DEF Encoders
<1>1. PICK f \in 1..Len(q), p \in 1..Len(q) :
          f = FirstIdx(q, Video(0)) /\ p = FirstIdx(q, a) /\ q[f].enc = Video(0) /\ q[p].enc = a
  <2>1. /\ FirstIdx(q, Video(0)) \in 1..Len(q) /\ q[FirstIdx(q, Video(0))].enc = Video(0)
        /\ FirstIdx(q, a) \in 1..Len(q) /\ q[FirstIdx(q, a)].enc = a
    BY IdxIs, Zenon DEF First
  <2>. QED  BY <2>1, Zenon
<1>2. f < p /\ Behind(r, q, p)
  <2>1. p \in 0..Len(q)
    BY <1>0
  <2>. QED  BY <1>1, <2>1, DiscardedIs, Zenon
<1>3. /\ r \in Seq(Pkts) /\ DOMAIN r = 1..Len(q) - p
      /\ \A i \in DOMAIN r : i + p \in DOMAIN q /\ r[i] = q[i + p]
  BY <1>2, Zenon DEF Behind
<1>4. \A i \in DOMAIN q : q[i].n \in Nat /\ q[i].ts \in Int /\ q[i].ts = Packet(q[i].enc, q[i].n).ts
  <2>1. \A i \in DOMAIN q : q[i] \in Pkts
    BY <1>0
  <2>2. \A i \in DOMAIN q : q[i].n \in Nat /\ q[i].ts \in Int
    BY <2>1 DEF Pkts
  <2>3. \A i \in DOMAIN q : q[i].ts = Packet(q[i].enc, q[i].n).ts
    BY Zenon DEF Encoded
  <2>. QED  BY <2>2, <2>3, Zenon
<1>5. PICK na \in Nat, x \in Int : na = q[p].n /\ x = q[p].ts
  BY <1>0, <1>4
<1>6. x = Packet(a, na).ts
  BY <1>0, <1>1, <1>4, <1>5, Zenon
<1>7. PICK j \in DOMAIN q : p < j /\ q[j].enc = a /\ q[j].n = na + 1
  <2>1. PICK i \in DOMAIN r : r[i].enc = a
    BY <1>3, HasIs, Zenon
  <2>2. i + p \in DOMAIN q /\ q[i + p].enc = a /\ p < i + p
    <3>1. i + p \in DOMAIN q /\ r[i] = q[i + p]
      BY <1>3
    <3>2. p < i + p
      BY <1>3
    <3>. QED  BY <2>1, <3>1, <3>2, Zenon
  <2>3. PICK l \in DOMAIN q : l = i + p
    BY <2>2
  <2>4. q[l].enc = a /\ p < l /\ p \in DOMAIN q
    BY <1>0, <2>2, <2>3
  <2>5. q[p].n < q[l].n
    BY <1>1, <2>4, LaterNumber, Zenon
  <2>6. PICK m \in Nat : m = q[l].n
    BY <1>4
  <2>7. na < m
    BY <1>5, <2>5, <2>6, Zenon
  <2>8. na + 1 \in Nat /\ na <= na + 1 /\ na + 1 <= m /\ na < na + 1
    BY <2>7
  <2>9. PICK k \in DOMAIN q : q[k].enc = q[p].enc /\ q[k].n = na + 1
    <3>1. q[p].n <= na + 1 /\ na + 1 <= q[l].n /\ q[p].enc = q[l].enc
      BY <1>1, <1>5, <2>4, <2>6, <2>8, Zenon
    <3>2. PICK b \in Nat : b = na + 1
      BY <2>8
    <3>3. q[p].n <= b /\ b <= q[l].n
      BY <3>1, <3>2, Zenon
    <3>4. \E k \in DOMAIN q : q[k].enc = q[p].enc /\ q[k].n = b
      BY <2>4, <3>1, <3>3, BetweenThere
    <3>. QED  BY <3>2, <3>4, Zenon
  <2>10. p < k
    <3>1. q[p].n < q[k].n
      BY <1>5, <2>8, <2>9, Zenon
    <3>. QED  BY <2>4, <2>9, <3>1, Zenon DEF Ordered
  <2>. QED  BY <1>1, <2>9, <2>10, Zenon
<1>8. q[j].ts = x + Step[a]
  <2>1. q[j].ts = Packet(a, na + 1).ts
    BY <1>4, <1>7, Zenon
  <2>. QED  BY <1>0, <1>6, <2>1, PacketAfter, Zenon
<1>9. PICK g \in DOMAIN r :
          /\ r[g].enc = Video(0) /\ First(r, Video(0)) = r[g]
          /\ \A i \in DOMAIN r : r[i].enc = Video(0) => g <= i
  <2>1. /\ FirstIdx(r, Video(0)) \in DOMAIN r /\ First(r, Video(0)) = r[FirstIdx(r, Video(0))]
        /\ \A i \in DOMAIN r : r[i].enc = Video(0) => FirstIdx(r, Video(0)) <= i
        /\ First(r, Video(0)).enc = Video(0)
    BY <1>3, HasIs, IdxIs, Zenon
  <2>. QED  BY <2>1, Zenon
<1>10. PICK h \in DOMAIN q : h = g + p
  BY <1>3
<1>11. q[h] = r[g] /\ p < h
  <2>1. p < h
    BY <1>0, <1>3, <1>10
  <2>. QED  BY <1>3, <1>10, <2>1, Zenon
<1>12. PICK v \in Int, nv \in Nat : v = q[h].ts /\ nv = q[h].n
  BY <1>4
<1>13. q[h].enc = Video(0) /\ f \in DOMAIN q /\ f < h
  <2>1. f < h
    BY <1>0, <1>2, <1>11
  <2>. QED  BY <1>0, <1>9, <1>11, <2>1, Zenon
<1>14. x <= v
  BY <1>0, <1>5, <1>11, <1>12, Zenon DEF Sorted
<1>15. v <= x + Step[Video(0)]
  <2>1. PICK nf \in Nat : nf = q[f].n
    BY <1>4, <1>13
  <2>2. nf < nv
    <3>1. q[f].n < q[h].n
      BY <1>1, <1>13, LaterNumber, Zenon
    <3>. QED  BY <1>12, <2>1, <3>1, Zenon
  <2>3. PICK m \in Nat : nv = m + 1
    BY <2>2, PredecessorIs
  <2>4. nf <= m /\ m <= nv /\ m < nv
    BY <2>2, <2>3
  <2>5. PICK k \in DOMAIN q : q[k].enc = Video(0) /\ q[k].n = m
    <3>1. q[f].n <= m /\ m <= q[h].n /\ q[f].enc = q[h].enc
      BY <1>1, <1>12, <1>13, <2>1, <2>4, Zenon
    <3>2. \E k \in DOMAIN q : q[k].enc = q[f].enc /\ q[k].n = m
      BY <1>13, <3>1, BetweenThere
    <3>. QED  BY <1>1, <3>2, Zenon
  <2>6. k < h
    <3>1. q[k].n < q[h].n /\ q[k].enc = q[h].enc
      BY <1>12, <1>13, <2>4, <2>5, Zenon
    <3>. QED  BY <3>1, Zenon DEF Ordered
  <2>7. k < p
    <3>1. k # p
      BY <1>0, <1>1, <2>5
    <3>2. ASSUME p < k PROVE FALSE
      <4>1. PICK i \in Int : i = k - p
        BY <1>0
      <4>2. i \in DOMAIN r /\ i + p = k
        <5>1. PICK n \in Nat : n = Len(q)
          BY <1>0, Zenon
        <5>2. k \in 1..n /\ p \in 1..n
          BY <1>0, <5>1, Zenon
        <5>3. i \in 1..n - p /\ i + p = k
          BY <3>2, <4>1, <5>2
        <5>. QED  BY <1>3, <5>1, <5>3, Zenon
      <4>3. r[i].enc = Video(0)
        BY <1>3, <2>5, <4>2, Zenon
      <4>4. g <= i
        BY <1>9, <4>2, <4>3, Zenon
      <4>. QED  BY <1>0, <1>3, <1>10, <2>6, <4>2, <4>4
    <3>. QED  BY <1>0, <3>1, <3>2
  <2>8. PICK y \in Int : y = q[k].ts
    BY <1>4
  <2>9. y <= x
    BY <1>0, <1>5, <2>7, <2>8, Zenon DEF Sorted
  <2>10. v = y + Step[Video(0)]
    <3>1. v = Packet(Video(0), m + 1).ts /\ y = Packet(Video(0), m).ts
      BY <1>4, <1>12, <1>13, <2>3, <2>5, <2>8, Zenon
    <3>. QED  BY <1>0, <3>1, PacketAfter, Zenon
  <2>11. Step[Video(0)] \in Nat
    BY SpanIs
  <2>. QED  BY <2>9, <2>10, <2>11
<1>16. PICK d \in Int, sa \in Nat, sv \in Nat :
           /\ d = Span(a) /\ sa = Step[a] /\ sv = Step[Video(0)]
           /\ sa <= d /\ sv <= d
  BY SpanIs
<1>17. PICK z \in Int : z = q[j].ts
  BY <1>4
<1>18. z <= v + d /\ v <= z + d
  <2>1. z = x + sa
    BY <1>8, <1>16, <1>17, Zenon
  <2>2. v <= x + sv
    BY <1>15, <1>16, Zenon
  <2>3. sa <= d /\ sv <= d
    BY <1>16, Zenon
  <2>4. z <= v + d
    BY <1>14, <2>1, <2>3
  <2>5. v <= x + d /\ x <= z
    BY <2>1, <2>2, <2>3
  <2>6. v <= z + d
    BY <2>5
  <2>. QED  BY <2>4, <2>6
<1>19. PICK l \in Int : l = j - p
  BY <1>0
<1>20. l \in DOMAIN r /\ l + p = j
  <2>1. p < j
    BY <1>7, Zenon
  <2>2. PICK n \in Nat : n = Len(q)
    BY <1>0, Zenon
  <2>3. j \in 1..n /\ p \in 1..n
    BY <1>0, <2>2, Zenon
  <2>4. l \in 1..n - p /\ l + p = j
    BY <1>19, <2>1, <2>3
  <2>5. l \in 1..Len(q) - p /\ l + p = j
    BY <2>2, <2>4, Zenon
  <2>. QED  BY <1>3, <2>5, Zenon
<1>21. r[l] = q[j]
  BY <1>3, <1>20, Zenon
<1>22. Off(r, l) <= d
  <2>1. Distance(z, v) <= d
    BY <1>18, DistanceIs
  <2>2. Off(r, l) = Distance(z, v)
    BY <1>9, <1>11, <1>12, <1>17, <1>21, Zenon DEF Off
  <2>. QED  BY <2>1, <2>2, Zenon
<1>23. Near(r, a, l)
  BY <1>7, <1>16, <1>20, <1>21, <1>22, Zenon DEF Near
<1>. QED  BY <1>23, Zenon DEF Meets

LEMMA LastIs ==
    ASSUME NEW q \in Seq(Pkts), NEW e, Has(q, e)
    PROVE  LastIdx(q, e) \in DOMAIN q /\ q[LastIdx(q, e)].enc = e
<1> DEFINE I == {i \in 1..Len(q) : q[i].enc = e}
<1>0. Len(q) \in Nat /\ DOMAIN q = 1..Len(q)
  OBVIOUS
<1>1. LastIdx(q, e) = IF I # {} THEN Max(I) ELSE 0
  BY Zenon DEF LastIdx, SelectLastInSeq
<1>2. I # {}
  <2>1. \E i \in DOMAIN q : q[i].enc = e
    BY HasIs, Zenon
  <2>. QED  BY <1>0, <2>1
<1>3. I \in SUBSET (1..Len(q)) /\ \A i \in I : i \in DOMAIN q /\ q[i].enc = e
  BY <1>0
<1> HIDE DEF I
<1>4. Max(I) \in I
  BY <1>0, <1>2, <1>3, MaxInSet, Zenon
<1>. QED  BY <1>1, <1>2, <1>3, <1>4, Zenon

\* initialize_interleaved_packets finds a beginning only if the audio goes on
\* until past the first video packet.
LEMMA InitializedJoins ==
    ASSUME OneAudio, NEW a \in Audios, NEW c, NEW nx, Fit(c, nx), c.ok, Initialized(c).ok
    PROVE  /\ Has(c.q, Video(0)) /\ Has(c.q, a)
           /\ \E l \in DOMAIN c.q : c.q[l].enc = a /\ First(c.q, Video(0)).ts <= c.q[l].ts
           /\ Meets(c.q, a) => StartsNear(Initialized(c).q, a)
<1>0. Good(c, nx) /\ c \in Colls /\ c.q \in Seq(Pkts) /\ Sorted(c.q)
  BY FitQueue, Zenon
<1>1. Audios = {a}
  BY OneAudioTrack, Zenon
<1>2. AllThere(c).ok
  BY Zenon DEF Initialized
<1>3. \A e \in Encoders : Has(c.q, e)
  BY <1>0, <1>2, AllThereGood, Zenon DEF Begun
<1>4. Has(c.q, Video(0)) /\ Has(c.q, a) /\ \A x \in Audios : Has(c.q, x)
  BY <1>3, EncodersAreFinite, Zenon DEF Encoders
<1> DEFINE d == Without(c, StartIdx(c.q) - 1)
<1>5. ~NoAudio(c).ok
  BY NotYetFit, Zenon
<1>6. /\ ~(\E x \in Audios : c.q[LastIdx(c.q, x)].ts < First(c.q, Video(0)).ts)
      /\ Initialized(c) = AllThere(d)
  BY <1>2, <1>5, Zenon DEF Initialized
<1>7. \E l \in DOMAIN c.q : c.q[l].enc = a /\ First(c.q, Video(0)).ts <= c.q[l].ts
  <2>1. PICK l \in DOMAIN c.q : l = LastIdx(c.q, a) /\ c.q[l].enc = a
    BY <1>0, <1>4, LastIs, Zenon
  <2>2. ~(c.q[l].ts < First(c.q, Video(0)).ts)
    BY <1>6, <2>1, Zenon
  <2>3. c.q[l] \in Pkts /\ First(c.q, Video(0)) \in Pkts
    <3>1. c.q[l] \in Pkts
      BY <1>0
    <3>. QED  BY <1>0, <1>4, <3>1, IdxIs, Zenon
  <2>4. PICK x \in Int, y \in Int : x = c.q[l].ts /\ y = First(c.q, Video(0)).ts
    BY <2>3 DEF Pkts
  <2>5. y <= x
    <3>1. ~(x < y)
      BY <2>2, <2>4, Zenon
    <3>. QED  BY <3>1
  <2>. QED  BY <2>1, <2>4, <2>5, Zenon
<1>8. Initialized(c).q = d.q
  <2>1. Fit(d, nx)
    BY <1>4, StartFit, Zenon
  <2>2. d \in Colls
    BY <2>1, FitQueue, Zenon
  <2> HIDE DEF d
  <2>. QED  BY <1>6, <2>2, AllThereQueue, Zenon
<1>9. d.q = Discarded(c.q, StartIdx(c.q) - 1)
  BY <1>0 DEF Without, Colls
<1> HIDE DEF d
<1>10. ASSUME Meets(c.q, a) PROVE StartsNear(Initialized(c).q, a)
  <2>1. StartsNear(Discarded(c.q, StartIdx(c.q) - 1), a)
    BY <1>0, <1>1, <1>4, <1>10, StartJoins, Zenon
  <2>. QED  BY <1>8, <1>9, <2>1, Zenon
<1>. QED  BY <1>4, <1>7, <1>10

LEMMA FitNumbers ==
    ASSUME NEW c, NEW nx, Fit(c, nx)
    PROVE  /\ \A i \in DOMAIN c.q : c.q[i].n < nx[c.q[i].enc]
           /\ \A i, j \in DOMAIN c.q : c.q[i].enc = c.q[j].enc /\ c.q[i].n = c.q[j].n => i = j
BY Zenon DEF Fit, Good, Collecting, Queue

\* What an attempt that finds a beginning leaves of the queue.
LEMMA AttemptJoins ==
    ASSUME OneAudio, NEW a \in Audios, NEW c, NEW nx \in [Encoders -> Int], Fit(c, nx), c.ok,
           Attempt(c).ok
    PROVE  StartsNear(Attempt(c).q, a)
<1>0. c \in Colls /\ c.q \in Seq(Pkts) /\ Sorted(c.q) /\ Ordered(c.q) /\ Encoded(c.q) /\ UpToDate(c.q, nx)
  BY FitQueue, Zenon
<1>1. Audios = {a} /\ a \in Encoders
  BY OneAudioTrack, Zenon DEF Encoders
<1>2. ~NoAudio(c).ok /\ ~[c EXCEPT !.ok = FALSE].ok
  BY NotYetFit, Zenon
<1>3. Has(c.q, Video(0)) /\ Has(c.q, a)
  BY <1>1, <1>2, Zenon DEF Attempt
<1> DEFINE n == IF Premature(c.q) # 0 THEN Premature(c.q) ELSE StartIdx(c.q) - 1
<1> DEFINE d == Without(c, n)
<1>4. Attempt(c) = Initialized(d)
  <2>1. ~(\E x \in Audios : ~Has(c.q, x))
    BY <1>1, <1>3, Zenon
  <2>. QED  BY <1>3, <2>1, Zenon DEF Attempt
<1>5. StartIdx(c.q) \in 1..Len(c.q) /\ StartIdx(c.q) <= FirstIdx(c.q, Video(0))
  BY <1>0, <1>1, <1>3, StartIdxIn, Zenon
<1>6. n \in 0..Len(c.q)
  <2>1. StartIdx(c.q) - 1 \in 0..Len(c.q)
    <3>1. Len(c.q) \in Nat
      BY <1>0
    <3>. QED  BY <1>5, <3>1
  <2>2. Premature(c.q) \in 0..Len(c.q)
    BY <1>0, PrematureIn, Zenon
  <2>. QED  BY <2>1, <2>2, Zenon
<1>7. d.q = Discarded(c.q, n) /\ d.ok
  BY <1>0 DEF Without, Colls
<1> HIDE DEF n
<1>8. Fit(d, nx)
  BY <1>6, WithoutFit, Zenon
<1> HIDE DEF d
<1>9. /\ Has(d.q, Video(0)) /\ Has(d.q, a)
      /\ \E l \in DOMAIN d.q : d.q[l].enc = a /\ First(d.q, Video(0)).ts <= d.q[l].ts
      /\ Meets(d.q, a) => StartsNear(Initialized(d).q, a)
  <2>1. Initialized(d).ok
    BY <1>4, Zenon
  <2>. QED  BY <1>7, <1>8, <2>1, InitializedJoins, Zenon
<1>10. /\ \A i \in DOMAIN c.q : c.q[i].n < nx[c.q[i].enc]
       /\ \A i, j \in DOMAIN c.q : c.q[i].enc = c.q[j].enc /\ c.q[i].n = c.q[j].n => i = j
  BY FitNumbers, Zenon
<1>11. CASE /\ Premature(c.q) = 0
            /\ First(c.q, a).ts <= First(c.q, Video(0)).ts + Step[Video(0)]
  <2>1. n = StartIdx(c.q) - 1
    BY <1>11, Zenon DEF n
  <2>2. First(d.q, Video(0)) = First(c.q, Video(0))
    <3>1. n < FirstIdx(c.q, Video(0))
      <4>1. PICK f \in 0..Len(c.q) : f = FirstIdx(c.q, Video(0))
        BY <1>0, IdxIs, Zenon
      <4>2. PICK s \in 1..Len(c.q) : s = StartIdx(c.q) /\ s <= f
        BY <1>5, <4>1, Zenon
      <4>3. s - 1 < f
        BY <4>2
      <4>. QED  BY <2>1, <4>1, <4>2, <4>3, Zenon
    <3>. QED  BY <1>0, <1>3, <1>6, <1>7, <3>1, FirstStays, Zenon
  <2>3. PICK l \in DOMAIN c.q : c.q[l].enc = a /\ First(c.q, Video(0)).ts <= c.q[l].ts
    <3>1. PICK k \in DOMAIN d.q : d.q[k].enc = a /\ First(d.q, Video(0)).ts <= d.q[k].ts
      BY <1>9, Zenon
    <3>2. Behind(d.q, c.q, n)
      BY <1>0, <1>6, <1>7, DiscardedIs, Zenon
    <3>3. k + n \in DOMAIN c.q /\ d.q[k] = c.q[k + n]
      BY <3>2, Zenon DEF Behind
    <3>. QED  BY <2>2, <3>1, <3>3, Zenon
  <2>4. nx[a] \in Int
    BY <1>1
  <2>5. Meets(c.q, a)
    BY <1>0, <1>3, <1>10, <1>11, <2>3, <2>4, AudioMeets, Zenon
  <2>6. StartsNear(Discarded(c.q, StartIdx(c.q) - 1), a)
    BY <1>0, <1>1, <1>3, <2>5, StartJoins, Zenon
  <2>7. Meets(d.q, a)
    BY <1>7, <2>1, <2>6, Zenon DEF StartsNear, Meets
  <2>. QED  BY <1>4, <1>9, <2>7, Zenon
<1>12. CASE /\ Premature(c.q) # 0 /\ Premature(c.q) = FirstIdx(c.q, a)
            /\ FirstIdx(c.q, Video(0)) < FirstIdx(c.q, a)
  <2>1. d.q = Discarded(c.q, FirstIdx(c.q, a))
    BY <1>7, <1>12, Zenon DEF n
  <2>2. Meets(d.q, a)
    BY <1>0, <1>3, <1>9, <1>10, <1>12, <2>1, PrunedMeets, Zenon
  <2>. QED  BY <1>4, <1>9, <2>2, Zenon
<1>. QED  BY <1>0, <1>3, <1>11, <1>12, PrematureIs, Zenon

-----------------------------------------------------------------------------
(* The offsets, and time 0 of the tracks                                   *)

LEMMA AudioPacketIs ==
    ASSUME NEW a \in Audios, NEW n \in Nat
    PROVE  Packet(a, n).pts = (n * Step[a]) - Lead[a] /\ Packet(a, n).dts = (n * Step[a]) - Lead[a]
<1> DEFINE x == n * Step[a]
<1>1. Packet(a, n).pts = x - Lead[a] /\ Packet(a, n).dts = x - Lead[a]
  <2> HIDE DEF x
  <2>1. Packet(a, n) = [enc |-> a, n |-> n, key |-> a \in Audios \/ n % Gop = 0,
                        pts |-> x - Lead[a], dts |-> x - Lead[a], ts |-> SystemTime(a, n)]
    BY Zenon DEF Packet, x
  <2>. QED  BY <2>1
<1>. QED  BY <1>1

LEMMA ProductIs ==
    ASSUME NEW n \in Nat, NEW s \in Nat \ {0}
    PROVE  n * s >= 0
OBVIOUS

\* Time 0 of audio track a and that of video track 0 are no farther apart than
\* a packet lasts and, if the audio is the earlier, than it primes its decoder.
Together(a, x, y) == x <= y + Span(a) /\ y <= (x + Span(a)) + Lead[a]

\* The offsets that interleave_packets takes from a queue.
LEMMA OffsetsTogether ==
    ASSUME NEW a \in Audios, NEW q \in Seq(Pkts), Encoded(q), Ordered(q),
           \A i, j \in DOMAIN q : q[i].enc = q[j].enc /\ q[i].n = q[j].n => i = j,
           Has(q, Video(0)), Has(q, a), StartsNear(q, a)
    PROVE  Together(a, StartTs[a] + AudioOffset(First(q, a)),
                       StartTs[Video(0)] + First(q, Video(0)).pts)
<1>0. DOMAIN q = 1..Len(q) /\ Len(q) \in Nat /\ a \in Encoders /\ Video(0) \in Encoders /\ Video(0) \in Videos
  BY EncodersAreFinite DEF Encoders
<1>1. PICK S \in Int, L \in Int, d \in Int :
          S = StartTs[a] /\ L = Lead[a] /\ d = Span(a) /\ L >= 0 /\ d >= 0
  <2>1. StartTs[a] \in Nat /\ Lead[a] \in Nat /\ Span(a) \in Nat
    BY <1>0, TimeAssumption, SpanIs
  <2>. QED  BY <2>1
<1>2. \A i \in DOMAIN q : q[i].n \in Nat /\ q[i] = Packet(q[i].enc, q[i].n)
  <2>1. \A i \in DOMAIN q : q[i] \in Pkts
    BY <1>0
  <2>2. \A i \in DOMAIN q : q[i].n \in Nat
    BY <2>1 DEF Pkts
  <2>. QED  BY <2>2, Zenon DEF Encoded
<1>3. PICK v \in Int : v = First(q, Video(0)).ts /\ v = StartTs[Video(0)] + First(q, Video(0)).pts
  <2>1. PICK f \in DOMAIN q : q[f] = First(q, Video(0)) /\ q[f].enc = Video(0)
    <3>1. /\ FirstIdx(q, Video(0)) \in DOMAIN q /\ First(q, Video(0)) = q[FirstIdx(q, Video(0))]
          /\ First(q, Video(0)).enc = Video(0)
      BY HasIs, IdxIs, Zenon
    <3>. QED  BY <3>1, Zenon
  <2>2. PICK n \in Nat : n = q[f].n
    BY <1>2
  <2>3. First(q, Video(0)) = Packet(Video(0), n)
    BY <1>2, <2>1, <2>2, Zenon
  <2>4. Packet(Video(0), n).ts = StartTs[Video(0)] + Packet(Video(0), n).pts
    <3>1. /\ Packet(Video(0), n).ts = StartTs[Video(0)] + (n * Step[Video(0)])
          /\ Packet(Video(0), n).pts = n * Step[Video(0)]
      BY <1>0, PacketIs
    <3>. QED  BY <3>1, Zenon
  <2>5. Packet(Video(0), n).ts \in Int
    BY <1>0, PacketAfter, Zenon
  <2>. QED  BY <2>3, <2>4, <2>5, Zenon
<1>4. PICK j \in DOMAIN q :
          /\ q[j].enc = a /\ Off(q, j) <= d
          /\ q[j].pts <= 0 \/ \A i \in DOMAIN q : q[i].enc = a => j <= i
  BY <1>1, Zenon DEF StartsNear, Near
<1>5. PICK k \in DOMAIN q :
          /\ First(q, a) = q[k] /\ q[k].enc = a /\ \A i \in DOMAIN q : q[i].enc = a => k <= i
  <2>1. /\ FirstIdx(q, a) \in DOMAIN q /\ First(q, a) = q[FirstIdx(q, a)]
        /\ First(q, a).enc = a /\ \A i \in DOMAIN q : q[i].enc = a => FirstIdx(q, a) <= i
    BY HasIs, IdxIs, Zenon
  <2>. QED  BY <2>1, Zenon
<1>6. PICK nj \in Nat, nk \in Nat : nj = q[j].n /\ nk = q[k].n
  BY <1>2
<1>7. PICK s \in Nat \ {0} : s = Step[a]
  BY <1>0, StepAssumption
<1>8. PICK u \in Int, w \in Int : u = nj * s /\ w = nk * s
  BY <1>7
<1>9. u >= 0 /\ w >= 0 /\ w <= u /\ (k = j => w = u)
  <2>1. k = j \/ k < j
    <3>1. k <= j
      BY <1>4, <1>5, Zenon
    <3>. QED  BY <1>0, <3>1
  <2>2. CASE k = j
    <3>1. nk = nj
      BY <1>6, <2>2, Zenon
    <3>. QED  BY <1>7, <1>8, <3>1, ProductIs
  <2>3. CASE k < j
    <3>1. q[k].n < q[j].n
      BY <1>4, <1>5, <2>3, LaterNumber, Zenon
    <3>2. nk < nj
      BY <1>6, <3>1, Zenon
    <3>3. w < u
      <4>1. nk * s < nj * s
        BY <3>2, StepsOrdered
      <4>. QED  BY <1>8, <4>1, Zenon
    <3>4. u >= 0 /\ w >= 0
      BY <1>8, ProductIs, Zenon
    <3>. QED  BY <1>0, <2>3, <3>3, <3>4
  <2>. QED  BY <2>1, <2>2, <2>3
<1>10. q[j].ts = S + u /\ q[j].pts = u - L
  <2>1. q[j] = Packet(a, nj)
    BY <1>2, <1>4, <1>6, Zenon
  <2>2. /\ Packet(a, nj).ts = StartTs[a] + (nj * Step[a])
        /\ Packet(a, nj).pts = (nj * Step[a]) - Lead[a]
    BY <1>0, PacketIs, AudioPacketIs
  <2>. QED  BY <1>1, <1>7, <1>8, <2>1, <2>2, Zenon
<1>11. First(q, a).dts = w - L
  <2>1. First(q, a) = Packet(a, nk)
    BY <1>2, <1>5, <1>6, Zenon
  <2>. QED  BY <1>1, <1>7, <1>8, <2>1, AudioPacketIs, Zenon
<1>12. S + u <= v + d /\ v <= (S + u) + d
  <2>1. Off(q, j) = Distance(S + u, v)
    BY <1>3, <1>10, Zenon DEF Off
  <2>2. PICK x \in Int : x = S + u
    OBVIOUS
  <2>3. Distance(x, v) <= d
    BY <1>4, <2>1, <2>2, Zenon
  <2>4. x <= v + d /\ v <= x + d
    BY <2>3, DistanceIs
  <2>. QED  BY <2>2, <2>4
<1>13. w - L > 0 => u - L > 0 /\ k = j
  <2>1. ASSUME w - L > 0 PROVE u - L > 0 /\ k = j
    <3>1. u - L > 0 /\ ~(u - L <= 0)
      BY <1>9, <2>1
    <3>2. j <= k
      BY <1>4, <1>5, <1>10, <3>1, Zenon
    <3>3. k <= j
      BY <1>4, <1>5, Zenon
    <3>. QED  BY <1>0, <3>1, <3>2, <3>3
  <2>. QED  BY <2>1
<1>14. PICK o \in Int : o = AudioOffset(First(q, a)) /\ o = IF w - L > 0 THEN w - L ELSE 0
  <2>1. AudioOffset(First(q, a)) = IF w - L > 0 THEN w - L ELSE 0
    BY <1>11, Zenon DEF AudioOffset
  <2>2. (IF w - L > 0 THEN w - L ELSE 0) \in Int
    OBVIOUS
  <2>. QED  BY <2>1, <2>2, Zenon
<1>15. u - L <= 0 \/ k = j
  <2>1. CASE q[j].pts <= 0
    BY <1>10, <2>1, Zenon
  <2>2. CASE \A i \in DOMAIN q : q[i].enc = a => j <= i
    <3>1. j <= k /\ k <= j
      BY <1>4, <1>5, <2>2, Zenon
    <3>. QED  BY <1>0, <3>1
  <2>. QED  BY <1>4, <2>1, <2>2
<1>16. S + o <= v + d /\ v <= ((S + o) + d) + L
  <2>1. CASE w - L > 0
    <3>1. o = w - L
      BY <1>14, <2>1, Zenon
    <3>2. w = u
      BY <1>9, <1>13, <2>1
    <3>3. o = u - L /\ L >= 0
      BY <1>1, <3>1, <3>2, Zenon
    <3>. QED  BY <1>12, <3>3
  <2>2. CASE ~(w - L > 0)
    <3>1. o = 0
      BY <1>14, <2>2, Zenon
    <3>2. u <= L
      <4>1. CASE k = j
        <5>1. w = u
          BY <1>9, <4>1
        <5>. QED  BY <2>2, <5>1
      <4>2. CASE u - L <= 0
        BY <4>2
      <4>. QED  BY <1>15, <4>1, <4>2
    <3>3. d >= 0 /\ u >= 0
      BY <1>1, <1>9, Zenon
    <3>4. S <= v + d
      BY <1>12, <3>3
    <3>5. v <= (S + d) + L
      BY <1>12, <3>2
    <3>. QED  BY <3>1, <3>4, <3>5
  <2>. QED  BY <2>1, <2>2
<1>. QED  BY <1>1, <1>3, <1>14, <1>16, Zenon DEF Together

\* Once the stream has started, that holds of every audio track.
Synced == sent # <<>> => \A a \in Audios : Together(a, Origin(a), Origin(Video(0)))

LEMMA SameSynced ==
    ASSUME Synced, UNCHANGED <<sent, offsets>>
    PROVE  Synced'
<1>1. sent' = sent /\ audio_offsets' = audio_offsets /\ video_offsets' = video_offsets
  BY DEF offsets
<1>. QED  BY <1>1 DEF Synced, Origin

\* What is left in the queue when interleave_packets begins to send.
LEMMA FirstJoined ==
    ASSUME OneAudio, SInv, NEW e \in Encoders, DeliverFirst(e)
    PROVE  \E d : /\ Fit(d, next')
                  /\ \/ /\ Begins(d) /\ \A f \in Encoders : Has(d.q, f)
                        /\ \A a \in Audios : StartsNear(d.q, a)
                     \/ Waits(d)
<1> DEFINE c == Collected(e, Packet(e, next[e]))
<1>1. /\ ~Started /\ Arrives(e) /\ ~Unwanted(Packet(e, next[e]))
      /\ IF ~Complete(c.ra, c.rv) THEN Waits(c)
         ELSE IF Attempt(c).ok THEN Begins(Attempt(c))
         ELSE Waits(Attempt(c))
  BY DEF DeliverFirst
<1>2. Fit(c, next') /\ c.ok
  BY <1>1, CollectedFit, Zenon
<1>3. next' \in [Encoders -> Int]
  <2>1. TypeOK
    BY Zenon DEF SInv, IInv
  <2>2. next' \in [Encoders -> 0..MaxPackets + 1]
    BY <1>1, <2>1, OneMore, Zenon
  <2>. QED  BY <2>2
<1> HIDE DEF c
<1>4. CASE ~Complete(c.ra, c.rv)
  BY <1>1, <1>2, <1>4, Zenon
<1>5. CASE Complete(c.ra, c.rv)
  <2> DEFINE d == Attempt(c)
  <2>1. Fit(d, next')
    BY <1>2, AttemptFit, Zenon
  <2>2. Begun(d, c)
    BY <1>2, FitQueue, AttemptGood, Zenon
  <2>3. IF d.ok THEN Begins(d) ELSE Waits(d)
    BY <1>1, <1>5, Zenon
  <2>4. d.ok => \A a \in Audios : StartsNear(d.q, a)
    BY <1>2, <1>3, AttemptJoins, Zenon
  <2> HIDE DEF d
  <2>5. CASE d.ok
    <3>1. Begins(d) /\ \A f \in Encoders : Has(d.q, f)
      BY <2>2, <2>3, <2>5, Zenon DEF Begun
    <3>. QED  BY <2>1, <2>4, <2>5, <3>1, Zenon
  <2>6. CASE ~d.ok
    BY <2>1, <2>3, <2>6, Zenon
  <2>. QED  BY <2>5, <2>6
<1>. QED  BY <1>4, <1>5

LEMMA DeliverFirstSynced ==
    ASSUME OneAudio, SInv, NEW e \in Encoders, DeliverFirst(e)
    PROVE  Synced'
<1>1. sent = <<>>
  BY FirstCases
<1>2. PICK d : /\ Fit(d, next')
               /\ \/ /\ Begins(d) /\ \A f \in Encoders : Has(d.q, f)
                     /\ \A a \in Audios : StartsNear(d.q, a)
                  \/ Waits(d)
  BY FirstJoined, Zenon
<1>3. CASE Waits(d)
  <2>1. sent' = <<>>
    BY <1>1, <1>3, Zenon DEF Waits
  <2>. QED  BY <2>1, Zenon DEF Synced
<1>4. CASE Begins(d) /\ (\A f \in Encoders : Has(d.q, f)) /\ \A a \in Audios : StartsNear(d.q, a)
  <2>1. /\ video_offsets' = [v \in Videos |-> First(d.q, v).pts]
        /\ audio_offsets' = [a \in Audios |-> AudioOffset(First(d.q, a))]
    BY <1>4, Zenon DEF Begins
  <2>2. Video(0) \in Videos /\ Video(0) \in Encoders /\ \A a \in Audios : a \in Encoders /\ a \notin Videos
    BY EncodersAreFinite DEF Encoders
  <2>3. Origin(Video(0))' = StartTs[Video(0)] + First(d.q, Video(0)).pts
    BY <2>1, <2>2, Zenon DEF Origin
  <2>4. ASSUME NEW a \in Audios PROVE Together(a, Origin(a)', Origin(Video(0))')
    <3>1. Origin(a)' = StartTs[a] + AudioOffset(First(d.q, a))
      BY <2>1, <2>2, Zenon DEF Origin
    <3>2. Together(a, StartTs[a] + AudioOffset(First(d.q, a)),
                      StartTs[Video(0)] + First(d.q, Video(0)).pts)
      BY <1>2, <1>4, <2>2, FitQueue, FitNumbers, OffsetsTogether, Zenon
    <3>. QED  BY <2>3, <3>1, <3>2, Zenon
  <2>. QED  BY <2>4, Zenon DEF Synced
<1>. QED  BY <1>2, <1>3, <1>4

LEMMA NextSynced ==
    ASSUME OneAudio, SInv, BegunBySending, Synced, [Next]_vars
    PROVE  Synced'
<1>1. CASE Hook
  <2>1. sent' = <<>>
    BY <1>1, Zenon DEF Hook
  <2>. QED  BY <2>1, Zenon DEF Synced
<1>2. CASE Activate
  BY <1>2, SameSynced, Zenon DEF Activate
<1>3. CASE EndCapture
  BY <1>3, SameSynced, Zenon DEF EndCapture
<1>4. ASSUME NEW e \in Encoders, StopEncoder(e) PROVE Synced'
  BY <1>4, SameSynced, Zenon DEF StopEncoder
<1>5. ASSUME NEW e \in Encoders, DeliverEarly(e) PROVE Synced'
  BY <1>5, SameSynced, Zenon DEF DeliverEarly
<1>6. ASSUME NEW e \in Encoders, DeliverUnwanted(e) PROVE Synced'
  <2>1. UNCHANGED <<sent, offsets>>
    BY <1>6, Zenon DEF DeliverUnwanted
  <2>. QED  BY <2>1, SameSynced
<1>7. ASSUME NEW e \in Encoders, DeliverFirst(e) PROVE Synced'
  BY <1>7, DeliverFirstSynced
<1>8. ASSUME NEW e \in Encoders, DeliverNext(e) PROVE Synced'
  <2>1. sent # <<>> /\ UNCHANGED offsets
    BY <1>8, Zenon DEF DeliverNext, BegunBySending
  <2>2. \A a \in Audios : Together(a, Origin(a), Origin(Video(0)))
    BY <2>1, Zenon DEF Synced
  <2>3. audio_offsets' = audio_offsets /\ video_offsets' = video_offsets
    BY <2>1, Zenon DEF offsets
  <2>4. \A a \in Audios : Together(a, Origin(a)', Origin(Video(0))')
    BY <2>2, <2>3, Zenon DEF Origin
  <2>. QED  BY <2>4, Zenon DEF Synced
<1>9. CASE UNCHANGED vars
  <2>1. UNCHANGED <<sent, offsets>>
    BY <1>9, Zenon DEF vars
  <2>. QED  BY <2>1, SameSynced
<1>. QED  BY <1>1, <1>2, <1>3, <1>4, <1>5, <1>6, <1>7, <1>8, <1>9, Zenon DEF Next

(* initialize_interleaved_packets, with one audio track: while a stream     *)
(* starts with its first packet, what plays at time 0 of the audio and of   *)
(* the video was captured no farther apart than a packet lasts, or the      *)
(* audio was so much earlier than that as it primes its decoder, however    *)
(* far apart the threads were and whatever was thrown away.                 *)
THEOREM SentTogether == OneAudio /\ Spec /\ []BegunBySending => []Synced
<1> SUFFICES ASSUME OneAudio PROVE Spec /\ []BegunBySending => []Synced
  OBVIOUS
<1> DEFINE I == SInv /\ Synced
<1>1. Init => I
  <2>1. Init => Synced
    BY Zenon DEF Init, Synced
  <2>. QED  BY <2>1, InitSInv
<1>2. I /\ BegunBySending /\ [Next]_vars => I'
  BY NextStream, NextSynced, Zenon
<1>3. I => Synced
  OBVIOUS
<1> HIDE DEF I
<1>. QED  BY <1>1, <1>2, <1>3, PTL DEF Spec

\* The audio needs no priming.
NoPriming == \A a \in Audios : Lead[a] = 0

LEMMA SyncedInSync ==
    ASSUME NoPriming, TypeOK, Synced
    PROVE  InSync
<1> SUFFICES ASSUME sent # <<>>, NEW a \in Audios
             PROVE  Distance(Origin(a), Origin(Video(0))) <= Greatest({Step[a], Step[Video(0)]})
  BY Zenon DEF InSync
<1>1. Video(0) \in Videos /\ a \in Encoders /\ Video(0) \in Encoders /\ a \notin Videos
  BY EncodersAreFinite DEF Encoders
<1>2. Origin(a) \in Int /\ Origin(Video(0)) \in Int
  BY <1>1, TimeAssumption DEF TypeOK, Origin
<1>3. PICK x \in Int, y \in Int, d \in Int : x = Origin(a) /\ y = Origin(Video(0)) /\ d = Span(a)
  <2>1. Span(a) \in Int
    BY SpanIs
  <2>. QED  BY <1>2, <2>1, Zenon
<1>4. x <= y + d /\ y <= (x + d) + 0
  BY <1>3, Zenon DEF Synced, Together, NoPriming
<1>5. x <= y + d /\ y <= x + d
  BY <1>4
<1>6. Distance(x, y) <= d
  BY <1>5, DistanceIs
<1>. QED  BY <1>3, <1>6, Zenon DEF Span

(* initialize_interleaved_packets: audio that needs no priming is within a *)
(* packet of the video.                                                     *)
THEOREM SentInSync == OneAudio /\ NoPriming /\ Spec /\ []BegunBySending => []InSync
<1> SUFFICES ASSUME OneAudio, NoPriming PROVE Spec /\ []BegunBySending => []InSync
  OBVIOUS
<1>1. Spec /\ []BegunBySending => []Synced
  BY SentTogether
<1>2. TypeOK /\ Synced => InSync
  BY SyncedInSync
<1>. QED  BY <1>1, <1>2, TypeCorrect, PTL

(* initialize_interleaved_packets: the same for one video track and one    *)
(* audio track, where every stream starts with its first packet.            *)
THEOREM OneVideoOneAudioTogether == VideoTracks = {0} /\ OneAudio /\ Spec => []Synced
BY OneVideoBegins, SentTogether, PTL

(* initialize_interleaved_packets: with one video track and one audio track *)
(* that needs no priming, the two are within a packet of each other.        *)
THEOREM OneVideoOneAudioInSync ==
    VideoTracks = {0} /\ OneAudio /\ NoPriming /\ Spec => []InSync
BY OneVideoBegins, SentInSync, PTL
=============================================================================
