-------------------------- MODULE EncoderGroupProofs --------------------------
(***************************************************************************)
(* Proofs about EncoderGroup for every group, with any frame rate divisors *)
(* and any mix of raw and texture encoders: the encoders stay aligned, and *)
(* none of them misses the common start frame where the code can help it;  *)
(* and in the first session of the group an update is carried out by all   *)
(* of them at one pts (RequestInv), in bounded time (UpdateInv).           *)
(***************************************************************************)
EXTENDS EncoderGroup, FoldLemmas, FiniteSetTheorems, TLAPS

-----------------------------------------------------------------------------
(* Multiples                                                               *)

\* n is a multiple of d.
Divides(d, n) == \E m \in Nat : n = m * d

(* A nonempty set of numbers has a least element.                          *)
LEMMA LeastExists ==
    ASSUME NEW S \in SUBSET Nat, S # {}
    PROVE  \E m \in S : \A y \in S : m <= y
<1> DEFINE R == {p \in Nat \X Nat : p[1] < p[2]}
<1>0. R = OpToRel(<, Nat)
  BY Zenon DEF OpToRel
<1>1. IsWellFoundedOn(R, Nat)
  BY <1>0, NatLessThanWellFounded, Zenon
<1> HIDE DEF R
<1>2. PICK m \in S : \A y \in S : ~(<<y, m>> \in R)
  BY <1>1, WFMin, Zenon
<1>3. ASSUME NEW y \in S PROVE m <= y
  <2>1. y < m => <<y, m>> \in R
    BY DEF R
  <2>. QED  BY <1>2, <2>1
<1>. QED  BY <1>2, <1>3

(* Division with a remainder, and what a remainder of 0 says.              *)
LEMMA ModIsDivides ==
    ASSUME NEW d \in Nat \ {0}, NEW n \in Nat
    PROVE  /\ n % d = 0 <=> Divides(d, n)
           /\ n \div d \in Nat /\ n % d \in 0..d - 1 /\ n = (n \div d) * d + (n % d)
<1>1. n \div d \in Nat /\ n % d \in 0..d - 1 /\ n = (n \div d) * d + (n % d)
  OBVIOUS
<1>2. ASSUME n % d = 0 PROVE Divides(d, n)
  <2>1. PICK m \in Nat : m = n \div d
    BY <1>1
  <2>2. n = m * d
    BY <1>1, <1>2, <2>1
  <2>. QED  BY <2>2 DEF Divides
<1>3. ASSUME NEW m \in Nat, n = m * d PROVE n % d = 0
  BY <1>3
<1>. QED  BY <1>1, <1>2, <1>3 DEF Divides

(* A multiple of a multiple is a multiple.                                 *)
LEMMA DividesTransitive ==
    ASSUME NEW a \in Nat, NEW b \in Nat, NEW c \in Nat, Divides(a, b), Divides(b, c)
    PROVE  Divides(a, c)
<1>1. PICK m \in Nat, l \in Nat : b = m * a /\ c = l * b
  BY DEF Divides
<1>2. c = (l * m) * a /\ l * m \in Nat
  BY <1>1
<1>. QED  BY <1>2 DEF Divides

(* Two different multiples of d are at least d apart.                      *)
LEMMA NextMultiple ==
    ASSUME NEW d \in Nat \ {0}, NEW a \in Nat, NEW b \in Nat, Divides(d, a), Divides(d, b), a < b
    PROVE  a + d <= b
<1>1. PICK m \in Nat, l \in Nat : a = m * d /\ b = l * d
  BY DEF Divides
<1>2. m < l
  <2> SUFFICES ASSUME l <= m PROVE FALSE
    BY <1>1
  <2>1. PICK x \in Nat : m = l + x
    BY <1>1
  <2>2. m * d = l * d + x * d /\ x * d \in Nat
    BY <2>1
  <2>. QED  BY <1>1, <2>2
<1>3. PICK x \in Nat : l = m + 1 + x
  <2>1. l - m - 1 \in Nat /\ l = m + 1 + (l - m - 1)
    BY <1>2
  <2>. QED  BY <2>1
<1>4. l * d = m * d + d + x * d /\ x * d \in Nat
  BY <1>3
<1>. QED  BY <1>1, <1>4

(* The next multiple.                                                      *)
LEMMA MultipleAfter ==
    ASSUME NEW d \in Nat \ {0}, NEW a \in Nat, Divides(d, a)
    PROVE  Divides(d, a + d)
<1>1. PICK m \in Nat : a = m * d
  BY DEF Divides
<1>2. a + d = (m + 1) * d /\ m + 1 \in Nat
  BY <1>1
<1>. QED  BY <1>2 DEF Divides

(* 0 is a multiple of everything.                                          *)
LEMMA DividesZero == \A d \in Nat : Divides(d, 0)
<1> SUFFICES ASSUME NEW d \in Nat PROVE \E m \in Nat : 0 = m * d
  BY DEF Divides
<1>1. 0 = 0 * d
  OBVIOUS
<1>. QED  BY <1>1

(* add_connection: frame_rate_divisors_lcm exists and is a multiple of     *)
(* every encoder's divisor.                                                *)
LEMMA LcmIsMultiple ==
    ASSUME NEW a \in Nat \ {0}, NEW b \in Nat \ {0}
    PROVE  Lcm(a, b) \in Nat \ {0} /\ Divides(a, Lcm(a, b)) /\ Divides(b, Lcm(a, b))
<1> DEFINE Is(n) == /\ n % a = 0 /\ n % b = 0
                    /\ \A m \in 1..(n - 1) : ~(m % a = 0 /\ m % b = 0)
<1> DEFINE S == {n \in 1..(a * b) : n % a = 0 /\ n % b = 0}
<1>1. a * b \in S
  <2>1. a * b \in Nat /\ a * b = b * a /\ 1 <= a * b
    OBVIOUS
  <2>2. Divides(a, a * b) /\ Divides(b, a * b)
    BY <2>1 DEF Divides
  <2>. QED  BY <2>1, <2>2, ModIsDivides
<1>2. PICK n \in S : \A y \in S : n <= y
  <2>1. S \in SUBSET Nat
    <3>1. a * b \in Nat
      OBVIOUS
    <3>. QED  BY <3>1
  <2>2. S # {}
    <3> HIDE DEF S
    <3>. QED  BY <1>1
  <2> HIDE DEF S
  <2>. QED  BY <2>1, <2>2, LeastExists
<1>3. n \in 1..(a * b) /\ Is(n)
  <2>1. n \in 1..(a * b) /\ n % a = 0 /\ n % b = 0 /\ a * b \in Nat
    OBVIOUS
  <2>2. ASSUME NEW m \in 1..(n - 1), m % a = 0 /\ m % b = 0 PROVE FALSE
    <3>1. m \in 1..(a * b) /\ ~(n <= m)
      BY <2>1
    <3>2. m \in S
      BY <2>2, <3>1
    <3> HIDE DEF S
    <3>. QED  BY <1>2, <3>1, <3>2
  <2>. QED  BY <2>1, <2>2
<1>4. Lcm(a, b) = CHOOSE x \in 1..(a * b) : Is(x)
  BY Zenon DEF Lcm
<1> HIDE DEF Is, S
<1>5. Lcm(a, b) \in 1..(a * b) /\ Is(Lcm(a, b))
  BY <1>3, <1>4, Zenon
<1>6. Lcm(a, b) \in Nat \ {0} /\ Lcm(a, b) % a = 0 /\ Lcm(a, b) % b = 0
  <2>1. a * b \in Nat
    OBVIOUS
  <2>. QED  BY <1>5, <2>1 DEF Is
<1>. QED  BY <1>6, ModIsDivides

-----------------------------------------------------------------------------

USE EncodersAssumption, DivisorAssumption, SetsAssumption DEF Unset

-----------------------------------------------------------------------------
(* The inductive invariants                                                *)

\* Ticks until the next frame that is encoded.
UntilNext(e) == IF counter[e] = 0 THEN 0 ELSE Divisor[e] - counter[e]

\* An encoder that has not begun counts from 0, one that has from the common
\* start frame, and what it has counted is where it stands.
InStep(e) ==
    IF start_ts[e] = Unset THEN cur_pts[e] = 0
    ELSE /\ start_ts[e] = start_timestamp
         /\ start_ts[e] + cur_pts[e] = frame[e] + UntilNext(e)

Phases ==
    /\ phase \in {"down", "starting", "up", "stopping"}
    /\ phase = "down" => active = {}
    /\ phase = "starting" => active # Encoders
    /\ active = {} => start_timestamp = Unset
    /\ start_timestamp # Unset => phase \in {"up", "stopping"}

Clocks ==
    /\ active \subseteq Encoders /\ num_encoders_started = Cardinality(active)
    /\ now \in Nat \ {0} /\ start_timestamp \in Nat
    /\ frame \in [Encoders -> Nat \ {0}] /\ start_ts \in [Encoders -> Nat]
    /\ cur_pts \in [Encoders -> Nat] /\ counter \in [Encoders -> Nat]
    /\ \A e \in Encoders : counter[e] < Divisor[e]
    /\ \A e \in active : frame[e] <= now

GroupInv == Clocks /\ Phases /\ \A e \in active : InStep(e)

\* The texture path counts no frame before the start; nobody is past the
\* start frame without having begun.
OnTime(e) ==
    /\ e \notin Raw /\ start_ts[e] = Unset => counter[e] = 0
    /\ e \notin Paired /\ start_timestamp # Unset /\ frame[e] > start_timestamp
           => start_ts[e] # Unset

PunctualInv == \A e \in active : OnTime(e)

aligned == <<active, num_encoders_started, start_timestamp, start_ts, cur_pts, counter,
             frame, now, phase>>

-----------------------------------------------------------------------------
(* Lemmas                                                                  *)

(* The divisor counter wraps.                                              *)
LEMMA CounterWraps ==
    ASSUME NEW d \in Nat \ {0}, NEW c \in Nat, c < d
    PROVE  (c + 1) % d = IF c + 1 = d THEN 0 ELSE c + 1
<1>1. CASE c + 1 = d
  BY <1>1
<1>2. CASE c + 1 < d
  BY <1>2
<1> QED  BY <1>1, <1>2

(* The numbers of encoders.                                                *)
LEMMA Counts ==
    ASSUME NEW A \in SUBSET Encoders
    PROVE  /\ IsFiniteSet(A) /\ Cardinality(A) \in Nat
           /\ Cardinality(A) = 0 <=> A = {}
           /\ Cardinality(A) >= Cardinality(Encoders) <=> A = Encoders
           /\ \A e \in Encoders \ A : Cardinality(A \cup {e}) = Cardinality(A) + 1
           /\ \A e \in A : Cardinality(A \ {e}) = Cardinality(A) - 1
<1>1. IsFiniteSet(A) /\ Cardinality(A) <= Cardinality(Encoders)
      /\ (Cardinality(Encoders) = Cardinality(A) => Encoders = A)
  BY FS_Subset
<1>2. Cardinality(A) \in Nat /\ Cardinality(Encoders) \in Nat
  BY <1>1, FS_CardinalityType
<1>3. Cardinality(A) = 0 <=> A = {}
  BY <1>1, FS_EmptySet
<1>4. \A e \in Encoders \ A : Cardinality(A \cup {e}) = Cardinality(A) + 1
  BY <1>1, FS_AddElement
<1>5. \A e \in A : Cardinality(A \ {e}) = Cardinality(A) - 1
  BY <1>1, FS_RemoveElement
<1> QED  BY <1>1, <1>2, <1>3, <1>4, <1>5

-----------------------------------------------------------------------------
(* The actions                                                             *)

(* No encoder is started in the beginning.                                 *)
LEMMA InitGroup == Init => GroupInv /\ PunctualInv
<1> SUFFICES ASSUME Init PROVE GroupInv /\ PunctualInv
  OBVIOUS
<1>1. Clocks
  BY Counts DEF Init, Clocks
<1>2. Phases
  BY DEF Init, Phases
<1> QED  BY <1>1, <1>2 DEF Init, GroupInv, PunctualInv

(* Updates and audio do not touch the alignment.                           *)
LEMMA StutterGroup ==
    ASSUME UNCHANGED aligned
    PROVE  (GroupInv => GroupInv') /\ (PunctualInv => PunctualInv')
BY DEF aligned, GroupInv, Clocks, Phases, InStep, UntilNext, PunctualInv, OnTime

(* The output begins and ends a session.                                   *)
LEMMA SessionGroup ==
    ASSUME GroupInv, Begin \/ End
    PROVE  GroupInv' /\ (PunctualInv => PunctualInv')
<1> USE DEF Begin, End, start, feed
<1>1. Clocks' /\ \A e \in active' : InStep(e)'
  BY DEF GroupInv, Clocks, InStep, UntilNext
<1>2. Phases'
  BY DEF GroupInv, Phases, Clocks
<1>3. PunctualInv => PunctualInv'
  BY DEF PunctualInv, OnTime
<1> QED  BY <1>1, <1>2, <1>3 DEF GroupInv

(* obs_encoder_start: while encoders are missing, there is no start frame. *)
LEMMA StartGroup ==
    ASSUME GroupInv, NEW e \in Encoders, StartEncoder(e)
    PROVE  GroupInv' /\ (PunctualInv => PunctualInv')
<1> USE DEF StartEncoder
<1>0. Clocks /\ Phases /\ start_timestamp = Unset /\ start_timestamp' = Unset
  BY DEF GroupInv, Phases
<1>1. num_encoders_started' = Cardinality(active')
  BY <1>0, Counts DEF Clocks, OneMore
<1>2. Clocks'
  BY <1>0, <1>1 DEF Clocks
<1>3. Phases'
  BY <1>0 DEF Phases, Clocks
<1>4. ASSUME NEW f \in active' PROVE InStep(f)'
  BY <1>0, <1>4 DEF GroupInv, Clocks, InStep, UntilNext
<1>5. PunctualInv => PunctualInv'
  BY <1>0 DEF PunctualInv, OnTime, Clocks
<1> QED  BY <1>2, <1>3, <1>4, <1>5 DEF GroupInv

(* remove_connection: the group is reset when its last encoder leaves.     *)
LEMMA LeaveGroup ==
    ASSUME GroupInv, NEW e \in active, RemoveConnection(e),
           UNCHANGED <<start_ts, cur_pts, counter, frame, now>>,
           \/ phase' = phase /\ phase = "up"
           \/ phase = "stopping" /\ phase' = IF active' = {} THEN "down" ELSE "stopping"
    PROVE  GroupInv' /\ (PunctualInv => PunctualInv')
<1> USE DEF RemoveConnection
<1>0. Clocks /\ Phases /\ active' \subseteq active
  BY DEF GroupInv
<1>1. /\ num_encoders_started' = Cardinality(active')
      /\ num_encoders_started = 1 <=> active' = {}
  <2>1. Cardinality(active') = Cardinality(active) - 1 /\ (Cardinality(active') = 0 <=> active' = {})
        /\ Cardinality(active) \in Nat
    BY <1>0, Counts DEF Clocks
  <2> QED  BY <1>0, <2>1 DEF Clocks
<1>2. start_timestamp' = IF active' = {} THEN Unset ELSE start_timestamp
  BY <1>1
<1>3. Clocks'
  BY <1>0, <1>1, <1>2 DEF Clocks
<1>4. Phases'
  BY <1>0, <1>2 DEF Phases
<1>5. ASSUME NEW f \in active' PROVE InStep(f)'
  BY <1>0, <1>2, <1>5 DEF GroupInv, InStep, UntilNext
<1>6. PunctualInv => PunctualInv'
  BY <1>0, <1>2 DEF PunctualInv, OnTime
<1> QED  BY <1>3, <1>4, <1>5, <1>6 DEF GroupInv

(* video_sleep: the start frame is given once, to a complete group, and it *)
(* is one that no encoder has been given yet.                              *)
LEMMA TickGroup ==
    ASSUME GroupInv, Tick
    PROVE  GroupInv' /\ (PunctualInv => PunctualInv')
<1> USE DEF Tick, feed
<1>0. Clocks /\ Phases
  BY DEF GroupInv
<1>1. CASE start_timestamp' = start_timestamp
  <2>1. Clocks'
    BY <1>0, <1>1 DEF Clocks
  <2>2. Phases'
    BY <1>0, <1>1 DEF Phases, control
  <2>3. \A f \in active' : InStep(f)'
    BY <1>1 DEF GroupInv, InStep, UntilNext
  <2>4. PunctualInv => PunctualInv'
    BY <1>1 DEF PunctualInv, OnTime
  <2> QED  BY <2>1, <2>2, <2>3, <2>4 DEF GroupInv
<1>2. CASE start_timestamp' # start_timestamp
  <2>1. start_timestamp = Unset /\ start_timestamp' = now + 1 /\ active = Encoders
    BY <1>0, <1>2, Counts DEF Clocks, AllStarted, StartFrame
  <2>2. Clocks'
    BY <1>0, <2>1 DEF Clocks
  <2>3. Phases'
    BY <1>0, <2>1 DEF Phases, control
  <2>4. ASSUME NEW f \in active' PROVE InStep(f)'
    <3>1. f \in active /\ InStep(f) /\ start_ts[f] \in Nat
      BY <1>0, <2>4 DEF GroupInv, Clocks
    <3>2. CASE start_ts[f] = Unset
      BY <3>1, <3>2 DEF InStep
    <3>3. CASE start_ts[f] # Unset
      BY <2>1, <3>1, <3>3 DEF InStep
    <3> QED  BY <3>2, <3>3
  <2>5. PunctualInv => PunctualInv'
    BY <1>0, <2>1 DEF PunctualInv, OnTime, Clocks
  <2> QED  BY <2>2, <2>3, <2>4, <2>5 DEF GroupInv
<1> QED  BY <1>1, <1>2

(* A frame reaches an encoder: held back, counted or encoded, it moves on  *)
(* with the frames of the group.                                           *)
LEMMA ReceiveGroup ==
    ASSUME GroupInv, NEW e \in Encoders, Receive(e)
    PROVE  GroupInv'
<1>0. /\ Clocks /\ Phases /\ InStep(e) /\ e \in active /\ frame[e] < now
      /\ frame' = [frame EXCEPT ![e] = @ + 1]
      /\ UNCHANGED <<active, num_encoders_started, start_timestamp, now, phase>>
      /\ frame[e] \in Nat \ {0} /\ frame[e] + 1 \in Nat \ {0} /\ frame[e] + 1 <= now
  BY DEF Receive, GroupInv, Clocks, start, control
<1>1. /\ Divisor[e] \in Nat \ {0} /\ counter[e] \in Nat /\ counter[e] < Divisor[e]
      /\ (counter[e] + 1) % Divisor[e] =
             IF counter[e] + 1 = Divisor[e] THEN 0 ELSE counter[e] + 1
  BY <1>0, CounterWraps DEF Clocks
<1>2. PICK c \in Nat, s \in Nat, p \in Nat :
        /\ counter' = [counter EXCEPT ![e] = c] /\ c < Divisor[e]
        /\ start_ts' = [start_ts EXCEPT ![e] = s]
        /\ cur_pts' = [cur_pts EXCEPT ![e] = p]
        /\ \/ HeldBack(e) /\ s = Unset /\ p = cur_pts[e]
           \/ /\ ~HeldBack(e) /\ counter[e] # 0 /\ s = start_ts[e] /\ p = cur_pts[e]
              /\ c = IF counter[e] + 1 = Divisor[e] THEN 0 ELSE counter[e] + 1
           \/ /\ ~HeldBack(e) /\ counter[e] = 0 /\ p = cur_pts[e] + Divisor[e]
              /\ s = IF start_ts[e] = Unset THEN frame[e] ELSE start_ts[e]
              /\ c = IF counter[e] + 1 = Divisor[e] THEN 0 ELSE counter[e] + 1
  <2> DEFINE next == IF counter[e] + 1 = Divisor[e] THEN 0 ELSE counter[e] + 1
  <2>0. /\ start_ts \in [Encoders -> Nat] /\ cur_pts \in [Encoders -> Nat]
        /\ counter \in [Encoders -> Nat] /\ next \in Nat /\ next < Divisor[e]
        /\ CountFrame(e) => counter' = [counter EXCEPT ![e] = next]
    BY <1>0, <1>1 DEF Clocks, CountFrame
  <2>1. CASE HeldBack(e)
    <3>1. UNCHANGED <<start_ts, cur_pts>> /\ start_ts[e] = Unset
          /\ (counter' = counter \/ counter' = [counter EXCEPT ![e] = next])
      BY <2>0, <2>1 DEF Receive, HeldBack
    <3> QED  BY <1>1, <2>0, <2>1, <3>1
  <2>2. CASE ~HeldBack(e) /\ counter[e] # 0
    <3>1. UNCHANGED <<start_ts, cur_pts>> /\ counter' = [counter EXCEPT ![e] = next]
      BY <2>0, <2>2 DEF Receive
    <3> QED  BY <1>1, <2>0, <2>2, <3>1
  <2>3. CASE ~HeldBack(e) /\ counter[e] = 0
    <3>1. /\ counter' = [counter EXCEPT ![e] = next]
          /\ start_ts' = [start_ts EXCEPT ![e] = IF @ = Unset THEN frame[e] ELSE @]
          /\ cur_pts' = [cur_pts EXCEPT ![e] = @ + Divisor[e]]
      BY <2>0, <2>3 DEF Receive, Encode
    <3> DEFINE first == IF start_ts[e] = Unset THEN frame[e] ELSE start_ts[e]
               pts == cur_pts[e] + Divisor[e]
    <3>2. first \in Nat /\ pts \in Nat
      BY <1>0, <1>1, <2>0
    <3>3. /\ start_ts' = [start_ts EXCEPT ![e] = first]
          /\ cur_pts' = [cur_pts EXCEPT ![e] = pts]
      BY <2>0, <3>1
    <3> HIDE DEF next, first, pts
    <3>4. \E c \in Nat, s \in Nat, p \in Nat :
            /\ counter' = [counter EXCEPT ![e] = c] /\ c < Divisor[e]
            /\ start_ts' = [start_ts EXCEPT ![e] = s]
            /\ cur_pts' = [cur_pts EXCEPT ![e] = p]
            /\ c = next /\ s = first /\ p = pts
      BY <2>0, <3>1, <3>2, <3>3, Zenon
    <3> QED  BY <2>3, <3>4 DEF next, first, pts
  <2> QED  BY <2>1, <2>2, <2>3
<1>3. Clocks'
  BY <1>0, <1>2 DEF Clocks
<1>4. Phases'
  BY <1>0 DEF Phases
<1>5. InStep(e)'
  <2>1. /\ counter'[e] = c /\ start_ts'[e] = s /\ cur_pts'[e] = p
        /\ frame'[e] = frame[e] + 1 /\ start_timestamp' = start_timestamp
    BY <1>0, <1>2 DEF Clocks
  <2>2. start_ts[e] \in Nat /\ cur_pts[e] \in Nat /\ start_timestamp \in Nat
    BY <1>0 DEF Clocks
  <2>3. CASE HeldBack(e)
    BY <1>0, <1>2, <2>1, <2>3 DEF InStep, HeldBack
  <2>4. CASE ~HeldBack(e) /\ counter[e] # 0
    <3>1. /\ s = start_ts[e] /\ p = cur_pts[e]
          /\ c = IF counter[e] + 1 = Divisor[e] THEN 0 ELSE counter[e] + 1
      BY <1>2, <2>4
    <3> QED  BY <1>0, <1>1, <2>1, <2>2, <2>4, <3>1 DEF InStep, UntilNext
  <2>5. CASE ~HeldBack(e) /\ counter[e] = 0
    <3>1. /\ p = cur_pts[e] + Divisor[e]
          /\ s = IF start_ts[e] = Unset THEN frame[e] ELSE start_ts[e]
          /\ c = IF counter[e] + 1 = Divisor[e] THEN 0 ELSE counter[e] + 1
      BY <1>2, <2>5
    <3>2. start_ts[e] = Unset => start_timestamp = frame[e] /\ cur_pts[e] = 0
      BY <1>0, <2>5 DEF HeldBack, InStep
    <3> QED  BY <1>0, <1>1, <2>1, <2>2, <2>5, <3>1, <3>2 DEF InStep, UntilNext
  <2> QED  BY <2>3, <2>4, <2>5
<1>6. ASSUME NEW f \in active', f # e PROVE InStep(f)'
  <2>1. /\ counter'[f] = counter[f] /\ start_ts'[f] = start_ts[f]
        /\ cur_pts'[f] = cur_pts[f] /\ frame'[f] = frame[f] /\ InStep(f)
    BY <1>0, <1>2, <1>6 DEF GroupInv, Clocks
  <2> QED  BY <1>0, <2>1 DEF InStep, UntilNext
<1> QED  BY <1>3, <1>4, <1>5, <1>6 DEF GroupInv

(* The first frame that is not before the start frame begins the encoder,  *)
(* where the divisor of the raw path cannot skip it.                       *)
LEMMA ReceiveInTime ==
    ASSUME GroupInv, PunctualInv, NEW e \in Encoders, Receive(e),
           \A r \in Raw : Divisor[r] = 1
    PROVE  PunctualInv'
<1>0. /\ Clocks /\ OnTime(e) /\ e \in active
      /\ frame' = [frame EXCEPT ![e] = @ + 1]
      /\ UNCHANGED <<active, start_timestamp>>
      /\ frame[e] \in Nat \ {0} /\ start_timestamp \in Nat
  BY DEF Receive, GroupInv, PunctualInv, Clocks, start
<1>1. ASSUME NEW f \in active', f # e PROVE OnTime(f)'
  <2>1. /\ counter'[f] = counter[f] /\ start_ts'[f] = start_ts[f] /\ frame'[f] = frame[f]
    BY <1>0, <1>1 DEF Receive, Encode, CountFrame, Clocks
  <2> QED  BY <1>0, <1>1, <2>1 DEF PunctualInv, OnTime
<1>2. CASE start_ts[e] # Unset
  <2>1. start_ts'[e] = start_ts[e]
    BY <1>0, <1>2 DEF Receive, Encode, HeldBack, Clocks
  <2> QED  BY <1>1, <1>2, <2>1 DEF PunctualInv, OnTime
<1>3. CASE start_ts[e] = Unset /\ HeldBack(e)
  <2>1. UNCHANGED start_ts /\ (e \notin Raw => counter' = counter)
    BY <1>3 DEF Receive
  <2>2. e \notin Paired => start_timestamp # frame[e]
    BY <1>3 DEF HeldBack
  <2>3. frame'[e] = frame[e] + 1
    BY <1>0 DEF Clocks
  <2>4. OnTime(e)'
    BY <1>0, <1>3, <2>1, <2>2, <2>3 DEF OnTime
  <2> QED  BY <1>1, <2>4 DEF PunctualInv
<1>4. CASE start_ts[e] = Unset /\ ~HeldBack(e)
  <2>1. counter[e] = 0
    <3>1. CASE e \in Raw
      BY <1>0, <3>1 DEF Clocks
    <3>2. CASE e \notin Raw
      BY <1>0, <1>4, <3>2 DEF OnTime
    <3> QED  BY <3>1, <3>2
  <2>2. start_ts'[e] = frame[e]
    BY <1>0, <1>4, <2>1 DEF Receive, Encode, Clocks
  <2> QED  BY <1>0, <1>1, <2>2 DEF PunctualInv, OnTime
<1> QED  BY <1>2, <1>3, <1>4

-----------------------------------------------------------------------------
(* The theorems                                                            *)

(* A step of the group keeps the alignment.                                *)
LEMMA StepGroup ==
    ASSUME GroupInv, [Next]_vars
    PROVE  GroupInv'
<1>1. CASE Begin \/ End \/ Tick
  BY <1>1, SessionGroup, TickGroup
<1>2. CASE AudioArrives \/ UNCHANGED vars
  BY <1>2, StutterGroup DEF AudioArrives, vars, start, feed, control, aligned
<1>3. ASSUME NEW e \in Encoders, StartEncoder(e) \/ Receive(e)
      PROVE  GroupInv'
  BY <1>3, StartGroup, ReceiveGroup
<1>4. ASSUME NEW e \in Encoders, StopEncoder(e) \/ Fail(e)
      PROVE  GroupInv'
  BY <1>4, LeaveGroup DEF StopEncoder, Fail, feed, control
<1>5. ASSUME NEW e \in Encoders, Update(e)
      PROVE  GroupInv'
  BY <1>5, StutterGroup DEF Update, start, feed, control, aligned
<1> QED  BY <1>1, <1>2, <1>3, <1>4, <1>5 DEF Next

(* handle_encoder_group, do_encode: equal pts mean equal pictures on every *)
(* track of a group, whenever encoders start, stop, fail or are updated.   *)
THEOREM TracksAligned == Spec => []SamePictureSamePts
<1>1. GroupInv => SamePictureSamePts
  <2> SUFFICES ASSUME GroupInv, NEW e \in Encoders, Running(e)
               PROVE  /\ start_ts[e] = start_timestamp
                      /\ start_ts[e] + cur_pts[e] \in frame[e]..(frame[e] + Divisor[e] - 1)
    BY DEF SamePictureSamePts
  <2>1. InStep(e) /\ Clocks /\ start_ts[e] # Unset
    BY DEF GroupInv, Running
  <2>2. /\ counter[e] \in Nat /\ counter[e] < Divisor[e] /\ Divisor[e] \in Nat \ {0}
        /\ frame[e] \in Nat /\ start_ts[e] \in Nat /\ cur_pts[e] \in Nat
    BY <2>1 DEF Clocks
  <2> QED  BY <2>1, <2>2 DEF InStep, UntilNext
<1> QED  BY InitGroup, StepGroup, <1>1, PTL DEF Spec

(* handle_encoder_group, receive_video: where the encoders of the raw path *)
(* run at the full rate, an encoder without audio to wait for never misses *)
(* the common start frame.                                                 *)
THEOREM NobodyMissesTheStart ==
    ASSUME \A r \in Raw : Divisor[r] = 1
    PROVE  Spec => []NoMissedStart
<1>1. ASSUME GroupInv, PunctualInv, [Next]_vars
      PROVE  PunctualInv'
  <2> USE <1>1
  <2>1. CASE Begin \/ End \/ Tick
    BY <2>1, SessionGroup, TickGroup
  <2>2. CASE AudioArrives \/ UNCHANGED vars
    BY <2>2, StutterGroup DEF AudioArrives, vars, start, feed, control, aligned
  <2>3. ASSUME NEW e \in Encoders, StartEncoder(e) \/ Receive(e)
        PROVE  PunctualInv'
    BY <2>3, StartGroup, ReceiveInTime
  <2>4. ASSUME NEW e \in Encoders, StopEncoder(e) \/ Fail(e)
        PROVE  PunctualInv'
    BY <2>4, LeaveGroup DEF StopEncoder, Fail, feed, control
  <2>5. ASSUME NEW e \in Encoders, Update(e)
        PROVE  PunctualInv'
    BY <2>5, StutterGroup DEF Update, start, feed, control, aligned
  <2> QED  BY <2>1, <2>2, <2>3, <2>4, <2>5 DEF Next
<1>2. GroupInv /\ PunctualInv => NoMissedStart
  BY DEF GroupInv, Clocks, PunctualInv, OnTime, NoMissedStart
<1> QED  BY InitGroup, StepGroup, <1>1, <1>2, PTL DEF Spec

-----------------------------------------------------------------------------
(* Types                                                                   *)

(* next_pts is a pts.                                                      *)
LEMMA BoundaryType ==
    ASSUME NEW e \in Encoders, cur_pts[e] \in Nat, frame_rate_divisors_lcm \in Nat \ {0}
    PROVE  NextBoundary(e) \in Nat
<1>1. PICK pts \in Nat, step \in Nat \ {0} : pts = cur_pts[e] + Divisor[e] /\ step = frame_rate_divisors_lcm
  OBVIOUS
<1>2. pts \div step \in Nat
  BY ModIsDivides
<1>3. (pts \div step + 1) * step \in Nat
  BY <1>2
<1>. QED  BY <1>1, <1>3 DEF NextBoundary

(* handle_encoder_group_reconfigure_request: the boundary an encoder       *)
(* proposes is common to the group, past the frame it is about to encode,  *)
(* and at most one common interval away.                                   *)
LEMMA NextBoundaryIs ==
    ASSUME NEW e \in Encoders, cur_pts[e] \in Nat, frame_rate_divisors_lcm \in Nat \ {0},
           Divides(Divisor[e], cur_pts[e]), Divides(Divisor[e], frame_rate_divisors_lcm)
    PROVE  /\ NextBoundary(e) \in Nat
           /\ Divides(frame_rate_divisors_lcm, NextBoundary(e))
           /\ NextBoundary(e) >= cur_pts[e] + Divisor[e]
           /\ NextBoundary(e) <= cur_pts[e] + frame_rate_divisors_lcm
<1>1. PICK cur \in Nat, d \in Nat \ {0}, step \in Nat \ {0}, pts \in Nat :
         /\ cur = cur_pts[e] /\ d = Divisor[e] /\ step = frame_rate_divisors_lcm /\ pts = cur + d
  OBVIOUS
<1>2. Divides(d, cur) /\ Divides(d, step) /\ Divides(d, pts)
  <2>1. Divides(d, cur) /\ Divides(d, step)
    BY <1>1
  <2>. QED  BY <1>1, <2>1, MultipleAfter
<1>3. d <= step
  <2>1. 0 \in Nat /\ Divides(d, 0)
    <3>1. 0 = 0 * d
      OBVIOUS
    <3>. QED  BY <3>1 DEF Divides
  <2>2. 0 < step
    OBVIOUS
  <2>3. 0 + d <= step
    BY <1>2, <2>1, <2>2, NextMultiple
  <2>. QED  BY <2>3
<1>4. PICK q \in Nat, r \in 0..step - 1 : q = pts \div step /\ r = pts % step /\ pts = q * step + r
  BY ModIsDivides
<1>5. NextBoundary(e) = IF r = 0 THEN pts ELSE (q + 1) * step
  BY <1>1, <1>4, Zenon DEF NextBoundary
<1>6. CASE r = 0
  <2>1. pts = q * step /\ NextBoundary(e) = pts
    BY <1>4, <1>5, <1>6
  <2>2. Divides(step, pts)
    BY <2>1 DEF Divides
  <2>. QED  BY <1>1, <1>3, <2>1, <2>2
<1>7. CASE r # 0
  <2>1. PICK base \in Nat : base = q * step /\ base + step = (q + 1) * step
    BY <1>4
  <2>2. Divides(d, base)
    <3>1. Divides(step, base)
      BY <2>1 DEF Divides
    <3>. QED  BY <1>2, <3>1, DividesTransitive
  <2>3. pts = base + r /\ base < pts
    BY <1>4, <1>7, <2>1
  <2>4. base + d <= pts
    BY <1>2, <2>2, <2>3, NextMultiple
  <2>5. NextBoundary(e) = base + step /\ Divides(step, base + step)
    <3>1. Divides(step, base)
      BY <2>1 DEF Divides
    <3>2. Divides(step, base + step)
      BY <3>1, MultipleAfter
    <3>. QED  BY <1>5, <1>7, <2>1, <3>2
  <2>6. base + step \in Nat /\ base + step >= pts /\ base + step <= cur + step
    <3>1. r \in 0..step - 1 /\ pts = cur + d
      BY <1>1, <1>4
    <3>. QED  BY <2>3, <2>4, <3>1
  <2>7. NextBoundary(e) \in Nat /\ NextBoundary(e) >= cur + d /\ NextBoundary(e) <= cur + step
    BY <1>1, <2>5, <2>6
  <2>. QED  BY <1>1, <2>5, <2>7
<1>. QED  BY <1>6, <1>7

(* A step keeps the types.                                                 *)
LEMMA StepTypes ==
    ASSUME GroupInv, TypeOK, [Next]_vars
    PROVE  TypeOK'
<1>0. GroupInv'
  BY StepGroup
<1>1. /\ num_encoders_started' \in Nat /\ start_timestamp' \in Nat /\ active' \subseteq Encoders
      /\ start_ts' \in [Encoders -> Nat] /\ cur_pts' \in [Encoders -> Nat]
      /\ counter' \in [Encoders -> Nat] /\ frame' \in [Encoders -> Nat]
      /\ now' \in Nat /\ phase' \in {"down", "starting", "up", "stopping"}
  <2>1. Clocks' /\ Phases'
    BY <1>0 DEF GroupInv
  <2>2. num_encoders_started' \in Nat
    BY <2>1, Counts DEF Clocks
  <2>. QED  BY <2>1, <2>2 DEF Clocks, Phases
<1> DEFINE Gap == frame_rate_divisors_lcm' \in Nat \ {0}
<1> DEFINE Asks ==
             /\ reconfigure_request' \in Nat /\ next_pts' \in Nat
             /\ encoders_updated_next_pts' \in Nat /\ encoders_reconfigured' \in Nat
             /\ sessions' \in Nat /\ updates' \in Nat
             /\ last_reconfigure_request' \in [Encoders -> Nat]
             /\ last_handled_reconfigure_request' \in [Encoders -> Nat]
<1> DEFINE Past == pending' \subseteq active' /\ applied' \subseteq (Nat \X Encoders) /\ asked' \in Nat
<1> DEFINE Flags == ready' \in BOOLEAN /\ audio_ready' \in BOOLEAN /\ reconfigure_again' \in BOOLEAN
<1>2. ASSUME Gap, Asks, Past, Flags PROVE TypeOK'
  BY <1>1, <1>2 DEF TypeOK
<1>3. CASE Begin \/ End \/ AudioArrives \/ UNCHANGED vars
  <2>1. Gap /\ Asks /\ Past
    BY <1>3 DEF Begin, End, AudioArrives, vars, request, start, ids, control, history, TypeOK
  <2>2. UNCHANGED <<ready, reconfigure_again>> /\ (audio_ready' = audio_ready \/ audio_ready' = TRUE)
    BY <1>3 DEF Begin, End, AudioArrives, vars, request
  <2>3. Flags
    BY <2>2, Zenon DEF TypeOK
  <2>. QED  BY <1>2, <2>1, <2>3
<1>4. CASE Tick
  <2>1. Gap /\ Asks /\ Past
    BY <1>4 DEF Tick, request, ids, control, history, TypeOK
  <2>2. UNCHANGED <<audio_ready, reconfigure_again>> /\ ready' = FALSE
    BY <1>4 DEF Tick, request
  <2>3. Flags
    BY <2>2, Zenon DEF TypeOK
  <2>. QED  BY <1>2, <2>1, <2>3
<1>5. ASSUME NEW e \in Encoders, StartEncoder(e) PROVE TypeOK'
  <2>1. frame_rate_divisors_lcm' \in Nat \ {0}
    <3>1. frame_rate_divisors_lcm \in Nat \ {0} /\ Divisor[e] \in Nat \ {0}
      BY DEF TypeOK
    <3>2. frame_rate_divisors_lcm' = Lcm(frame_rate_divisors_lcm, Divisor[e])
      BY <1>5 DEF StartEncoder
    <3>. QED  BY <3>1, <3>2, LcmIsMultiple
  <2>2. Asks /\ Past
    <3>1. /\ UNCHANGED <<request, ids, sessions, updates, pending, asked, applied>>
          /\ active' = active \cup {e}
      BY <1>5 DEF StartEncoder, history, control
    <3>. QED  BY <3>1 DEF request, ids, TypeOK
  <2>3. /\ UNCHANGED <<audio_ready, reconfigure_again>>
        /\ ready' = (ready \/ AllStarted(OneMore))
    BY <1>5 DEF StartEncoder, request
  <2>4. ready' \in BOOLEAN
    BY <2>3, Zenon
  <2>5. Flags
    BY <2>3, <2>4, Zenon DEF TypeOK
  <2>. QED  BY <1>2, <2>1, <2>2, <2>5
<1>6. ASSUME NEW e \in Encoders, RemoveConnection(e),
             UNCHANGED <<ids, ready, sessions, updates>>, audio_ready' \in BOOLEAN
      PROVE  TypeOK'
  <2>1. Gap /\ Asks
    BY <1>6 DEF RemoveConnection, request, ids, TypeOK
  <2>2. Past
    BY <1>6 DEF RemoveConnection, TypeOK
  <2>3. ready' = ready /\ (reconfigure_again' = reconfigure_again \/ reconfigure_again' = FALSE)
    BY <1>6 DEF RemoveConnection, request
  <2>4. Flags
    BY <1>6, <2>3, Zenon DEF TypeOK
  <2>. QED  BY <1>2, <2>1, <2>2, <2>4
<1>7. ASSUME NEW e \in Encoders, Update(e) PROVE TypeOK'
  <2>1. Gap /\ Asks
    <3>1. /\ UNCHANGED <<frame_rate_divisors_lcm, next_pts, ids, sessions>>
          /\ updates' = updates + 1
          /\ reconfigure_request' \in {reconfigure_request, reconfigure_request + 1}
          /\ encoders_updated_next_pts' \in {0, encoders_updated_next_pts}
          /\ encoders_reconfigured' \in {0, encoders_reconfigured}
      BY <1>7 DEF Update, NewRequest, start, control
    <3>. QED  BY <3>1 DEF TypeOK, ids
  <2>2. Past
    BY <1>7 DEF Update, TypeOK
  <2>3. /\ UNCHANGED <<ready, audio_ready>>
        /\ \/ reconfigure_again' = FALSE
           \/ reconfigure_again' = (\/ reconfigure_again
                                    \/ last_handled_reconfigure_request[e] = reconfigure_request)
    BY <1>7, Zenon DEF Update, NewRequest
  <2>4. reconfigure_again' \in BOOLEAN
    BY <2>3, Zenon
  <2>5. Flags
    BY <2>3, <2>4, Zenon DEF TypeOK
  <2>. QED  BY <1>2, <2>1, <2>2, <2>5
<1>8. ASSUME NEW e \in Encoders, Receive(e) PROVE TypeOK'
  <2>1. UNCHANGED <<frame_rate_divisors_lcm, active, ready, audio_ready, sessions, updates, asked>>
    BY <1>8 DEF Receive, start, control
  <2>2. Gap /\ ready' \in BOOLEAN /\ audio_ready' \in BOOLEAN /\ sessions' \in Nat /\ updates' \in Nat
    BY <2>1, Zenon DEF TypeOK
  <2>3. CASE UNCHANGED <<request, ids, pending, applied>>
    <3>1. Asks /\ Past /\ Flags
      BY <2>1, <2>2, <2>3, Zenon DEF request, ids, TypeOK
    <3>. QED  BY <1>2, <2>2, <3>1
  <2>4. CASE HandleRequest(e)
    <3>1. cur_pts[e] \in Nat /\ NextBoundary(e) \in Nat
      BY BoundaryType DEF TypeOK
    <3>2. Asks
      <4>1. /\ next_pts' \in {next_pts, NextBoundary(e)}
            /\ reconfigure_request' \in {reconfigure_request, reconfigure_request + 1}
            /\ encoders_updated_next_pts' \in
                   {0, encoders_updated_next_pts, encoders_updated_next_pts + 1,
                    encoders_updated_next_pts + 0}
            /\ encoders_reconfigured' \in {0, encoders_reconfigured, encoders_reconfigured + 1}
        BY <2>4 DEF HandleRequest, RequestAgain, NewRequest, request
      <4>2. /\ last_reconfigure_request' \in
                   {last_reconfigure_request,
                    [last_reconfigure_request EXCEPT ![e] = reconfigure_request]}
            /\ last_handled_reconfigure_request' \in
                   {last_handled_reconfigure_request,
                    [last_handled_reconfigure_request EXCEPT ![e] = last_reconfigure_request[e]]}
        BY <2>4 DEF HandleRequest, ids
      <4>3. /\ last_reconfigure_request' \in [Encoders -> Nat]
            /\ last_handled_reconfigure_request' \in [Encoders -> Nat]
        BY <4>2 DEF TypeOK
      <4>. QED  BY <2>2, <3>1, <4>1, <4>3 DEF TypeOK
    <3>4. reconfigure_again' = reconfigure_again \/ reconfigure_again' = FALSE
      BY <2>4 DEF HandleRequest, RequestAgain, NewRequest, request
    <3>5. Flags
      BY <2>2, <3>4, Zenon DEF TypeOK
    <3>3. Past
      BY <2>1, <2>4, <3>1 DEF HandleRequest, TypeOK
    <3>. QED  BY <1>2, <2>2, <3>2, <3>3, <3>5
  <2>. QED  BY <1>8, <2>3, <2>4 DEF Receive, Encode
<1>9. ASSUME NEW e \in Encoders, StopEncoder(e) \/ Fail(e) PROVE TypeOK'
  <2>1. RemoveConnection(e) /\ UNCHANGED <<ids, ready, sessions, updates>> /\ audio_ready' \in BOOLEAN
    BY <1>9 DEF StopEncoder, Fail, control, TypeOK
  <2>. QED  BY <1>6, <2>1
<1>. QED  BY <1>3, <1>4, <1>5, <1>7, <1>8, <1>9 DEF Next

(* The initial state is well typed.                                        *)
LEMMA InitTypes == Init => TypeOK
<1> SUFFICES ASSUME Init PROVE TypeOK
  OBVIOUS
<1>1. /\ start_ts \in [Encoders -> Nat] /\ cur_pts \in [Encoders -> Nat]
      /\ counter \in [Encoders -> Nat] /\ frame \in [Encoders -> Nat]
      /\ last_reconfigure_request \in [Encoders -> Nat]
      /\ last_handled_reconfigure_request \in [Encoders -> Nat]
  BY DEF Init
<1>2. /\ reconfigure_again \in BOOLEAN /\ ready \in BOOLEAN /\ audio_ready \in BOOLEAN
  BY Zenon DEF Init
<1>. QED  BY <1>1, <1>2 DEF Init, TypeOK

(* struct obs_encoder_group, struct obs_encoder: the counters of the group *)
(* never go below zero, the least common multiple is never zero, and only  *)
(* encoders of the group wait for an update.                               *)
THEOREM TypeCorrect == Spec => []TypeOK
BY InitGroup, InitTypes, StepGroup, StepTypes, PTL DEF Spec

-----------------------------------------------------------------------------
(* Requests: every encoder of a complete group reconfigures at one pts     *)

\* The encoders that have seen the current request, and those that have carried it out.
Seen == {e \in Encoders : last_reconfigure_request[e] = reconfigure_request}
Done == {e \in Encoders : last_handled_reconfigure_request[e] = reconfigure_request}

\* Nothing was encoded yet.
Fresh ==
    /\ start_timestamp = Unset /\ next_pts = 0
    /\ encoders_updated_next_pts = 0 /\ encoders_reconfigured = 0
    /\ applied = {}
    /\ \A e \in Encoders : /\ last_reconfigure_request[e] = 0
                           /\ last_handled_reconfigure_request[e] = 0

Counted ==
    IF reconfigure_request = 0
    THEN encoders_updated_next_pts = 0 /\ encoders_reconfigured = 0
    ELSE /\ encoders_updated_next_pts = Cardinality(Seen)
         /\ encoders_reconfigured = Cardinality(Done)

IdsInOrder ==
    \A e \in Encoders :
        /\ last_handled_reconfigure_request[e] <= last_reconfigure_request[e]
        /\ last_reconfigure_request[e] <= reconfigure_request

InProgress == reconfigure_request > 0 /\ Seen = Encoders

\* Nobody is past next_pts who has not carried out what it has seen.
NobodyPast ==
    reconfigure_request > 0 =>
        /\ Done = {} \/ Seen = Encoders
        /\ \A e \in Seen : IF e \in Done THEN cur_pts[e] > next_pts ELSE cur_pts[e] <= next_pts

Complete(p) == \A e \in Encoders : <<p, e>> \in applied

\* Every encoder has reconfigured at that frame, or they are about to.
Together(p) ==
    \/ Complete(p)
    \/ InProgress /\ p = next_pts

Requests ==
    /\ start_timestamp = Unset => Fresh
    /\ Counted /\ IdsInOrder /\ NobodyPast
    /\ \A x \in applied : Together(x[1])
    /\ InProgress => \A e \in Done : <<next_pts, e>> \in applied

\* The first session of the group, while it is complete.
Whole == sessions <= 1 /\ active = Encoders

Multiples ==
    /\ \A e \in active : /\ Divides(Divisor[e], frame_rate_divisors_lcm)
                         /\ Divides(Divisor[e], cur_pts[e])
    /\ Whole => Divides(frame_rate_divisors_lcm, next_pts)

FirstSession ==
    /\ sessions = 0 => phase = "down"
    /\ sessions <= 1 /\ (sessions = 0 \/ phase = "starting") => Fresh
    /\ Whole => Requests

RequestInv == GroupInv /\ TypeOK /\ Multiples /\ FirstSession

(* A complete group that has encoded nothing is in order.                  *)
LEMMA FreshRequests ==
    ASSUME TypeOK, GroupInv, active = Encoders, Fresh
    PROVE  Requests
<1>1. \A e \in Encoders : cur_pts[e] = 0
  BY DEF Fresh, GroupInv, Clocks, InStep
<1>2. reconfigure_request \in Nat
  BY DEF TypeOK
<1>3. CASE reconfigure_request = 0
  BY <1>3 DEF Requests, Fresh, Counted, IdsInOrder, NobodyPast, InProgress
<1>4. CASE reconfigure_request > 0
  <2>1. Seen = {} /\ Done = {}
    BY <1>4 DEF Seen, Done, Fresh
  <2>2. Counted
    BY <1>4, <2>1, FS_EmptySet DEF Counted, Fresh
  <2>3. IdsInOrder /\ NobodyPast
    BY <1>2, <1>4, <2>1 DEF Fresh, IdsInOrder, NobodyPast
  <2>. QED  BY <2>1, <2>2, <2>3 DEF Requests, Fresh
<1>. QED  BY <1>2, <1>3, <1>4

(* encoders_updated_next_pts and encoders_reconfigured tell whether every  *)
(* encoder has seen the request and has carried it out.                    *)
LEMMA CountersTell ==
    ASSUME TypeOK, GroupInv, active = Encoders, Counted
    PROVE  /\ reconfigure_request = 0 => /\ encoders_updated_next_pts # num_encoders_started
                                         /\ encoders_reconfigured # Cardinality(Encoders)
           /\ reconfigure_request > 0 =>
                /\ encoders_updated_next_pts = num_encoders_started <=> Seen = Encoders
                /\ encoders_reconfigured = Cardinality(Encoders) <=> Done = Encoders
                /\ encoders_updated_next_pts = 0 <=> Seen = {}
                /\ encoders_reconfigured = 0 <=> Done = {}
<1>1. num_encoders_started = Cardinality(Encoders) /\ reconfigure_request \in Nat
  BY DEF GroupInv, Clocks, TypeOK
<1>2. Cardinality(Encoders) \in Nat /\ Cardinality(Encoders) # 0
  BY Counts
<1>3. /\ Seen \subseteq Encoders /\ Done \subseteq Encoders
      /\ Cardinality(Seen) \in Nat /\ Cardinality(Done) \in Nat
      /\ (Cardinality(Seen) >= Cardinality(Encoders) <=> Seen = Encoders)
      /\ (Cardinality(Done) >= Cardinality(Encoders) <=> Done = Encoders)
      /\ (Cardinality(Seen) = 0 <=> Seen = {}) /\ (Cardinality(Done) = 0 <=> Done = {})
  <2>1. Seen \in SUBSET Encoders /\ Done \in SUBSET Encoders
    BY DEF Seen, Done
  <2>. QED  BY <2>1, Counts
<1>4. Cardinality(Seen) <= Cardinality(Encoders) /\ Cardinality(Done) <= Cardinality(Encoders)
  BY <1>3, EncodersAssumption, FS_Subset
<1>. QED  BY <1>1, <1>2, <1>3, <1>4 DEF Counted

(* The frame an encoder encodes is where its pts say, behind the group's   *)
(* start frame.                                                            *)
LEMMA EncodesAtPts ==
    ASSUME RequestInv, NEW e \in Encoders, Receive(e), ~HeldBack(e), counter[e] = 0
    PROVE  /\ frame[e] = start_timestamp + cur_pts[e]
           /\ start_timestamp # Unset
           /\ cur_pts' = [cur_pts EXCEPT ![e] = cur_pts[e] + Divisor[e]]
           /\ HandleRequest(e)
<1>1. Clocks /\ Phases /\ InStep(e) /\ e \in active /\ frame[e] \in Nat \ {0}
  BY DEF RequestInv, GroupInv, Clocks, Receive
<1>2. cur_pts \in [Encoders -> Nat] /\ start_ts[e] \in Nat /\ start_timestamp \in Nat
  BY <1>1 DEF Clocks
<1>3. Encode(e)
  BY DEF Receive
<1>4. cur_pts' = [cur_pts EXCEPT ![e] = cur_pts[e] + Divisor[e]] /\ HandleRequest(e)
  BY <1>3, <1>2 DEF Encode
<1>5. CASE start_ts[e] = Unset
  BY <1>1, <1>2, <1>4, <1>5 DEF InStep, HeldBack
<1>6. CASE start_ts[e] # Unset
  BY <1>1, <1>2, <1>4, <1>6 DEF InStep, UntilNext
<1>. QED  BY <1>5, <1>6

\* e carries out the request, and the last one to do so makes a new one if asked to.
CarriesOut(e) ==
    /\ MayReconfigure(e)
    /\ last_handled_reconfigure_request' =
           [last_handled_reconfigure_request EXCEPT ![e] = last_reconfigure_request[e]]
    /\ RequestAgain
    /\ UNCHANGED <<last_reconfigure_request, next_pts, start_timestamp>>

Carried(e) ==
    \/ /\ NewRequest /\ reconfigure_again /\ Done \cup {e} = Encoders
       /\ Seen' = {} /\ Done' = {}
    \/ /\ encoders_reconfigured' = encoders_reconfigured + 1
       /\ UNCHANGED <<reconfigure_request, encoders_updated_next_pts, reconfigure_again>>
       /\ Done' = Done \cup {e} /\ Seen' = Seen
       /\ reconfigure_again => Done \cup {e} # Encoders

(* Who carries out a request is the next to do so, at a boundary all of    *)
(* them know; the last one to do so makes a new request if it was asked    *)
(* for.                                                                    *)
LEMMA CarriesOutRequest ==
    ASSUME RequestInv, Whole, NEW e \in Encoders, CarriesOut(e)
    PROVE  /\ reconfigure_request > 0 /\ Seen = Encoders /\ e \notin Done
           /\ cur_pts[e] = next_pts /\ last_reconfigure_request[e] = reconfigure_request
           /\ Cardinality(Done \cup {e}) = encoders_reconfigured + 1
           /\ Carried(e)
<1> USE DEF CarriesOut
<1>0. /\ TypeOK /\ GroupInv /\ active = Encoders /\ Counted /\ IdsInOrder
  BY DEF RequestInv, FirstSession, Whole, Requests
<1>1. /\ reconfigure_request \in Nat
      /\ last_reconfigure_request \in [Encoders -> Nat]
      /\ last_handled_reconfigure_request \in [Encoders -> Nat]
      /\ encoders_reconfigured \in Nat
  BY <1>0 DEF TypeOK
<1>2. reconfigure_request > 0 /\ Seen = Encoders /\ encoders_reconfigured = Cardinality(Done)
  <2>1. encoders_updated_next_pts = num_encoders_started
    BY DEF MayReconfigure
  <2>2. reconfigure_request > 0
    BY <1>0, <1>1, <2>1, CountersTell
  <2>. QED  BY <1>0, <2>1, <2>2, CountersTell DEF Counted
<1>3. e \notin Done /\ last_reconfigure_request[e] = reconfigure_request /\ cur_pts[e] = next_pts
  BY <1>2 DEF MayReconfigure, Done, Seen
<1>4. /\ \A f \in Encoders : f \in Done \cup {e} <=> last_handled_reconfigure_request'[f] = reconfigure_request
      /\ Done \cup {e} \subseteq Encoders /\ Cardinality(Done \cup {e}) = encoders_reconfigured + 1
      /\ Done \cup {e} = Encoders <=> encoders_reconfigured + 1 = Cardinality(Encoders)
  <2>1. \A f \in Encoders : f \in Done \cup {e} <=> last_handled_reconfigure_request'[f] = reconfigure_request
    BY <1>1, <1>3 DEF Done
  <2>2. Done \in SUBSET Encoders
    BY DEF Done
  <2>3. Cardinality(Done \cup {e}) = encoders_reconfigured + 1 /\ Done \cup {e} \in SUBSET Encoders
    BY <1>2, <1>3, <2>2, Counts
  <2>4. Cardinality(Done \cup {e}) = Cardinality(Encoders) => Done \cup {e} = Encoders
    BY <2>3, FS_Subset, EncodersAssumption
  <2>. QED  BY <2>1, <2>3, <2>4
<1>5. CASE encoders_reconfigured + 1 = Cardinality(Encoders) /\ reconfigure_again
  <2>1. NewRequest
    BY <1>5 DEF RequestAgain
  <2>2. ASSUME NEW f \in Encoders
        PROVE  /\ last_reconfigure_request'[f] # reconfigure_request'
               /\ last_handled_reconfigure_request'[f] # reconfigure_request'
    BY <1>0, <1>1, <2>1 DEF IdsInOrder, NewRequest
  <2>3. Seen' = {} /\ Done' = {}
    BY <2>2 DEF Seen, Done
  <2>. QED  BY <1>2, <1>3, <1>4, <1>5, <2>1, <2>3 DEF Carried
<1>6. CASE ~(encoders_reconfigured + 1 = Cardinality(Encoders) /\ reconfigure_again)
  <2>1. /\ encoders_reconfigured' = encoders_reconfigured + 1
        /\ UNCHANGED <<reconfigure_request, encoders_updated_next_pts, reconfigure_again>>
    BY <1>6 DEF RequestAgain
  <2>2. Done' = Done \cup {e} /\ Seen' = Seen
    BY <1>4, <2>1 DEF Done, Seen
  <2>. QED  BY <1>2, <1>3, <1>4, <1>6, <2>1, <2>2 DEF Carried
<1>. QED  BY <1>5, <1>6

(* Case: the update is carried out.                                        *)
LEMMA Reconfigures ==
    ASSUME RequestInv, Whole, NEW e \in Encoders, CarriesOut(e),
           applied' = applied \cup {<<cur_pts[e], e>>}, start_timestamp # Unset,
           cur_pts' = [cur_pts EXCEPT ![e] = cur_pts[e] + Divisor[e]]
    PROVE  Requests'
<1>0. /\ TypeOK /\ GroupInv /\ active = Encoders /\ Requests
      /\ Counted /\ IdsInOrder /\ NobodyPast
      /\ UNCHANGED <<last_reconfigure_request, next_pts, start_timestamp>>
  BY DEF RequestInv, FirstSession, Whole, Requests, CarriesOut
<1>1. /\ reconfigure_request \in Nat /\ next_pts \in Nat /\ cur_pts \in [Encoders -> Nat]
      /\ last_reconfigure_request \in [Encoders -> Nat]
      /\ last_handled_reconfigure_request \in [Encoders -> Nat]
      /\ encoders_reconfigured \in Nat /\ Divisor[e] \in Nat \ {0}
  BY <1>0 DEF TypeOK
<1> DEFINE D == Done \cup {e}
<1>2. /\ reconfigure_request > 0 /\ Seen = Encoders /\ e \notin Done
      /\ cur_pts[e] = next_pts /\ last_reconfigure_request[e] = reconfigure_request
      /\ Cardinality(D) = encoders_reconfigured + 1 /\ Carried(e)
  BY CarriesOutRequest
<1>3. ASSUME NEW f \in D PROVE <<next_pts, f>> \in applied'
  <2>1. CASE f = e
    BY <1>2, <2>1
  <2>2. CASE f # e
    BY <1>0, <1>2, <1>3, <2>2 DEF Requests, InProgress
  <2>. QED  BY <2>1, <2>2
<1>4. IdsInOrder'
  <2>1. reconfigure_request' \in {reconfigure_request, reconfigure_request + 1}
    BY <1>2 DEF Carried, NewRequest
  <2>2. ASSUME NEW f \in Encoders
        PROVE  /\ last_handled_reconfigure_request'[f] <= last_reconfigure_request'[f]
               /\ last_reconfigure_request'[f] <= reconfigure_request'
    BY <1>0, <1>1, <2>1 DEF IdsInOrder, CarriesOut
  <2>. QED  BY <2>2 DEF IdsInOrder
<1>5. \A p : Complete(p) => Complete(p)'
  BY DEF Complete
<1>6. CASE NewRequest /\ D = Encoders /\ Seen' = {} /\ Done' = {}
  <2>1. /\ reconfigure_request' = reconfigure_request + 1
        /\ encoders_updated_next_pts' = 0 /\ encoders_reconfigured' = 0
    BY <1>6 DEF NewRequest
  <2>2. Counted' /\ NobodyPast'
    BY <1>1, <1>6, <2>1, FS_EmptySet DEF Counted, NobodyPast
  <2>3. Complete(next_pts)'
    BY <1>0, <1>3, <1>6 DEF Complete
  <2>4. \A x \in applied' : Complete(x[1])'
    BY <1>0, <1>2, <1>5, <2>3 DEF Requests, Together
  <2>5. ~InProgress'
    BY <1>6, EncodersAssumption DEF InProgress
  <2>. QED  BY <1>0, <1>4, <2>2, <2>4, <2>5 DEF Requests, Together
<1>7. CASE /\ encoders_reconfigured' = encoders_reconfigured + 1
           /\ UNCHANGED <<reconfigure_request, encoders_updated_next_pts, reconfigure_again>>
           /\ Done' = D /\ Seen' = Seen
  <2>1. Counted'
    BY <1>0, <1>2, <1>7 DEF Counted
  <2>2. NobodyPast'
    <3>1. ASSUME NEW f \in Encoders
          PROVE  IF f \in D THEN cur_pts'[f] > next_pts ELSE cur_pts'[f] <= next_pts
      <4>1. CASE f = e
        BY <1>1, <1>2, <4>1
      <4>2. CASE f # e
        BY <1>0, <1>1, <1>2, <4>2 DEF NobodyPast
      <4>. QED  BY <4>1, <4>2
    <3>. QED  BY <1>0, <1>2, <1>7, <3>1 DEF NobodyPast
  <2>3. InProgress'
    BY <1>2, <1>7 DEF InProgress
  <2>4. \A x \in applied' : Together(x[1])'
    BY <1>0, <1>2, <1>5, <2>3 DEF Requests, Together
  <2>. QED  BY <1>0, <1>3, <1>4, <1>7, <2>1, <2>2, <2>4 DEF Requests
<1>. QED  BY <1>2, <1>6, <1>7 DEF Carried

(* Case: the request is seen, or the boundary is not common yet.           *)
LEMMA SeesRequest ==
    ASSUME RequestInv, Whole, NEW e \in Encoders, ~MayReconfigure(e),
           IsNew(e) \/ cur_pts[e] = next_pts,
           last_reconfigure_request' =
               [last_reconfigure_request EXCEPT ![e] = reconfigure_request],
           next_pts' = IF NextBoundary(e) > next_pts THEN NextBoundary(e) ELSE next_pts,
           encoders_updated_next_pts' = encoders_updated_next_pts + (IF IsNew(e) THEN 1 ELSE 0),
           UNCHANGED <<last_handled_reconfigure_request, reconfigure_request,
                       encoders_reconfigured, applied, start_timestamp>>,
           start_timestamp # Unset,
           cur_pts' = [cur_pts EXCEPT ![e] = cur_pts[e] + Divisor[e]]
    PROVE  /\ Requests' /\ Divides(frame_rate_divisors_lcm, next_pts')
           /\ next_pts' \in {next_pts, NextBoundary(e)}
           /\ reconfigure_request > 0 => Done = {} /\ Seen # Encoders
<1>0. /\ TypeOK /\ GroupInv /\ active = Encoders /\ Requests
      /\ Counted /\ IdsInOrder /\ NobodyPast /\ Multiples
  BY DEF RequestInv, FirstSession, Whole, Requests
<1>1. /\ reconfigure_request \in Nat /\ next_pts \in Nat /\ cur_pts \in [Encoders -> Nat]
      /\ last_reconfigure_request \in [Encoders -> Nat]
      /\ last_handled_reconfigure_request \in [Encoders -> Nat]
      /\ encoders_updated_next_pts \in Nat /\ Divisor[e] \in Nat \ {0}
      /\ frame_rate_divisors_lcm \in Nat \ {0}
  BY <1>0 DEF TypeOK
<1>2. /\ NextBoundary(e) \in Nat /\ NextBoundary(e) >= cur_pts[e] + Divisor[e]
      /\ Divides(frame_rate_divisors_lcm, NextBoundary(e))
  BY <1>0, <1>1, NextBoundaryIs DEF Multiples
<1>3. /\ next_pts' \in Nat /\ next_pts' >= next_pts /\ next_pts' >= cur_pts[e] + Divisor[e]
      /\ next_pts' \in {next_pts, NextBoundary(e)}
  BY <1>1, <1>2
<1>4. Divides(frame_rate_divisors_lcm, next_pts')
  BY <1>0, <1>2, <1>3 DEF Multiples
<1>5. reconfigure_request > 0 => Done = {} /\ Seen # Encoders
  <2> SUFFICES ASSUME reconfigure_request > 0, Seen = Encoders PROVE FALSE
    BY <1>0, <1>1 DEF NobodyPast
  <2>1. ~IsNew(e) /\ cur_pts[e] = next_pts /\ encoders_updated_next_pts = num_encoders_started
    BY <1>0, CountersTell DEF IsNew, Seen
  <2>2. e \notin Done
    BY <1>0, <1>1, <2>1 DEF NobodyPast
  <2>. QED  BY <2>1, <2>2 DEF MayReconfigure, Done, Seen, IsNew
<1>6. Done' = Done /\ Seen' = Seen \cup {e} /\ (e \notin Seen <=> IsNew(e))
  BY <1>1 DEF Done, Seen, IsNew
<1>7. Counted'
  <2>1. CASE reconfigure_request = 0
    <3>1. ~IsNew(e)
      BY <1>0, <1>1, <2>1 DEF IsNew, IdsInOrder
    <3>. QED  BY <1>0, <2>1, <3>1 DEF Counted
  <2>2. CASE reconfigure_request > 0
    <3>1. Seen \in SUBSET Encoders
      BY DEF Seen
    <3>2. Cardinality(Seen') = Cardinality(Seen) + (IF IsNew(e) THEN 1 ELSE 0)
      <4>1. CASE IsNew(e)
        BY <1>6, <3>1, <4>1, Counts
      <4>2. CASE ~IsNew(e)
        <5>1. Seen' = Seen /\ Cardinality(Seen) \in Nat
          BY <1>6, <3>1, <4>2, Counts
        <5>. QED  BY <4>2, <5>1
      <4>. QED  BY <4>1, <4>2
    <3>. QED  BY <1>0, <1>6, <2>2, <3>2 DEF Counted
  <2>. QED  BY <1>1, <2>1, <2>2
<1>8. IdsInOrder'
  BY <1>0, <1>1 DEF IdsInOrder
<1>9. NobodyPast'
  <2>1. ASSUME reconfigure_request > 0, NEW f \in Seen \cup {e}
        PROVE  f \notin Done /\ cur_pts'[f] <= next_pts'
    <3>1. f \notin Done /\ f \in Encoders /\ cur_pts[f] \in Nat
      BY <1>1, <1>5, <2>1 DEF Seen
    <3>2. CASE f = e
      BY <1>1, <1>3, <3>1, <3>2
    <3>3. CASE f # e
      BY <1>0, <1>1, <1>3, <2>1, <3>1, <3>3 DEF NobodyPast
    <3>. QED  BY <3>1, <3>2, <3>3
  <2>. QED  BY <1>5, <1>6, <2>1 DEF NobodyPast
<1>10. \A x \in applied' : Together(x[1])'
  BY <1>0, <1>5, <1>1 DEF Requests, Together, InProgress, Complete
<1>11. InProgress' => Done' = {}
  BY <1>1, <1>5, <1>6 DEF InProgress
<1>. QED  BY <1>3, <1>4, <1>5, <1>7, <1>8, <1>9, <1>10, <1>11 DEF Requests

(* Case: nothing to do on this frame.  A boundary is never jumped over.    *)
LEMMA GoesOn ==
    ASSUME RequestInv, Whole, NEW e \in Encoders, ~IsNew(e), cur_pts[e] # next_pts,
           UNCHANGED <<request, ids, applied, start_timestamp>>,
           start_timestamp # Unset,
           cur_pts' = [cur_pts EXCEPT ![e] = cur_pts[e] + Divisor[e]]
    PROVE  Requests'
<1>0. /\ TypeOK /\ GroupInv /\ active = Encoders /\ Requests
      /\ Counted /\ IdsInOrder /\ NobodyPast /\ Multiples
  BY DEF RequestInv, FirstSession, Whole, Requests
<1>1. /\ next_pts \in Nat /\ cur_pts \in [Encoders -> Nat] /\ Divisor[e] \in Nat \ {0}
      /\ frame_rate_divisors_lcm \in Nat
  BY <1>0 DEF TypeOK
<1>2. /\ UNCHANGED <<Seen, Done, Counted, IdsInOrder, InProgress>>
      /\ \A p : Together(p)' = Together(p)
  BY DEF Seen, Done, Counted, IdsInOrder, InProgress, request, ids, Together, Complete
<1>3. NobodyPast'
  <2>1. ASSUME reconfigure_request > 0, NEW f \in Seen
        PROVE  IF f \in Done THEN cur_pts'[f] > next_pts ELSE cur_pts'[f] <= next_pts
    <3>0. f \in Encoders /\ (IF f \in Done THEN cur_pts[f] > next_pts ELSE cur_pts[f] <= next_pts)
      BY <1>0, <2>1 DEF NobodyPast, Seen
    <3>1. CASE f # e
      BY <1>1, <3>0, <3>1
    <3>2. CASE f = e /\ f \in Done
      BY <1>1, <3>0, <3>2
    <3>3. CASE f = e /\ f \notin Done
      <4>1. Divides(Divisor[e], cur_pts[e]) /\ Divides(Divisor[e], next_pts)
        BY <1>0, <1>1, DividesTransitive DEF Multiples
      <4>2. cur_pts[e] < next_pts /\ cur_pts[e] \in Nat
        BY <1>1, <3>0, <3>3
      <4>3. cur_pts[e] + Divisor[e] <= next_pts
        BY <1>1, <4>1, <4>2, NextMultiple
      <4>. QED  BY <1>1, <3>3, <4>3
    <3>. QED  BY <3>1, <3>2, <3>3
  <2>. QED  BY <1>0, <1>2, <2>1 DEF NobodyPast, request
<1>. QED  BY <1>0, <1>2, <1>3 DEF Requests, request

requested == <<request, ids, applied, cur_pts>>

(* What is not touched stays in order.                                     *)
LEMMA RequestsStay ==
    ASSUME Requests, UNCHANGED requested, start_timestamp' = Unset => start_timestamp = Unset
    PROVE  Requests'
<1>1. /\ UNCHANGED <<Seen, Done, Counted, IdsInOrder, InProgress, NobodyPast>>
      /\ \A p : Together(p)' = Together(p)
  BY DEF requested, Seen, Done, Counted, IdsInOrder, InProgress, NobodyPast, request, ids,
         Together, Complete
<1>2. Requests => /\ start_timestamp = Unset => Fresh
                  /\ Counted /\ IdsInOrder /\ NobodyPast
                  /\ \A x \in applied : Together(x[1])
                  /\ InProgress => \A e \in Done : <<next_pts, e>> \in applied
  BY DEF Requests
<1>3. start_timestamp' = Unset => Fresh'
  BY <1>2 DEF Fresh, requested, request, ids
<1>. QED  BY <1>1, <1>2, <1>3 DEF Requests, requested, request

(* handle_encoder_group_reconfigure_request keeps the requests in order.   *)
LEMMA ReceiveRequests ==
    ASSUME RequestInv, NEW e \in Encoders, Receive(e)
    PROVE  Multiples' /\ FirstSession'
<1>0. /\ TypeOK /\ Clocks /\ Phases /\ Multiples /\ FirstSession /\ e \in active
      /\ UNCHANGED <<start, active, sessions, phase>>
      /\ frame_rate_divisors_lcm \in Nat \ {0} /\ cur_pts \in [Encoders -> Nat]
      /\ Divisor[e] \in Nat \ {0}
  BY DEF RequestInv, GroupInv, Receive, Clocks, TypeOK, control
<1>1. /\ UNCHANGED <<start_timestamp, frame_rate_divisors_lcm>>
      /\ sessions # 0 /\ (phase = "starting" => start_timestamp = Unset)
  BY <1>0 DEF FirstSession, Phases, start
<1>2. CASE UNCHANGED requested
  <2>1. Multiples'
    BY <1>0, <1>1, <1>2 DEF Multiples, Whole, requested, request
  <2>2. Whole' => Requests'
    BY <1>0, <1>1, <1>2, RequestsStay DEF FirstSession, Whole
  <2>3. Fresh => Fresh'
    BY <1>1, <1>2 DEF Fresh, requested, request, ids
  <2>. QED  BY <1>0, <1>1, <2>1, <2>2, <2>3 DEF FirstSession
<1>3. CASE ~HeldBack(e) /\ counter[e] = 0
  <2>1. /\ start_timestamp # Unset /\ HandleRequest(e)
        /\ cur_pts' = [cur_pts EXCEPT ![e] = cur_pts[e] + Divisor[e]]
    BY <1>3, EncodesAtPts
  <2>2. Whole => Requests' /\ Divides(frame_rate_divisors_lcm', next_pts')
    <3> SUFFICES ASSUME Whole PROVE Requests' /\ Divides(frame_rate_divisors_lcm', next_pts')
      OBVIOUS
    <3>0. Divides(frame_rate_divisors_lcm, next_pts) /\ start_timestamp' = start_timestamp
      BY <1>0, <1>1 DEF Multiples
    <3>1. CASE MayReconfigure(e)
      <4>1. CarriesOut(e) /\ applied' = applied \cup {<<cur_pts[e], e>>}
        BY <1>1, <2>1, <3>1 DEF HandleRequest, CarriesOut
      <4>2. UNCHANGED next_pts
        BY <4>1 DEF CarriesOut
      <4>. QED  BY <1>1, <2>1, <3>0, <4>1, <4>2, Reconfigures
    <3>2. CASE ~MayReconfigure(e) /\ (IsNew(e) \/ cur_pts[e] = next_pts)
      <4>1. /\ last_reconfigure_request' =
                 [last_reconfigure_request EXCEPT ![e] = reconfigure_request]
            /\ next_pts' = IF NextBoundary(e) > next_pts THEN NextBoundary(e) ELSE next_pts
            /\ encoders_updated_next_pts' =
                 encoders_updated_next_pts + (IF IsNew(e) THEN 1 ELSE 0)
            /\ UNCHANGED <<last_handled_reconfigure_request, reconfigure_request,
                           encoders_reconfigured, applied>>
        BY <2>1, <3>2 DEF HandleRequest
      <4>. QED  BY <1>1, <2>1, <3>0, <3>2, <4>1, SeesRequest
    <3>3. CASE ~MayReconfigure(e) /\ ~IsNew(e) /\ cur_pts[e] # next_pts
      <4>1. UNCHANGED <<request, ids, applied>>
        BY <2>1, <3>3 DEF HandleRequest
      <4>2. UNCHANGED next_pts
        BY <4>1 DEF request
      <4>. QED  BY <1>1, <2>1, <3>0, <3>3, <4>1, <4>2, GoesOn
    <3>. QED  BY <3>1, <3>2, <3>3
  <2>3. Whole' = Whole
    BY <1>0 DEF Whole
  <2>4. \A f \in active : Divides(Divisor[f], frame_rate_divisors_lcm) /\ Divides(Divisor[f], cur_pts'[f])
    <3> SUFFICES ASSUME NEW f \in active
                 PROVE  Divides(Divisor[f], frame_rate_divisors_lcm) /\ Divides(Divisor[f], cur_pts'[f])
      OBVIOUS
    <3>1. Divides(Divisor[f], frame_rate_divisors_lcm) /\ Divides(Divisor[f], cur_pts[f]) /\ f \in Encoders
      BY <1>0 DEF Multiples, Clocks
    <3>2. CASE f = e
      <4>1. Divides(Divisor[e], cur_pts[e] + Divisor[e])
        BY <1>0, <3>1, <3>2, MultipleAfter
      <4>2. cur_pts'[f] = cur_pts[e] + Divisor[e]
        BY <1>0, <2>1, <3>2
      <4>. QED  BY <3>1, <3>2, <4>1, <4>2
    <3>3. CASE f # e
      <4>1. cur_pts'[f] = cur_pts[f]
        BY <1>0, <2>1, <3>1, <3>3
      <4>. QED  BY <3>1, <4>1
    <3>. QED  BY <3>2, <3>3
  <2>5. Multiples'
    BY <1>0, <1>1, <2>2, <2>3, <2>4 DEF Multiples
  <2>6. phase' # "starting" /\ sessions' # 0
    BY <1>0, <1>1, <2>1
  <2>. QED  BY <2>2, <2>3, <2>5, <2>6 DEF FirstSession
<1>. QED  BY <1>2, <1>3 DEF Receive, requested

(* A complete group that was not given a start frame has not begun.        *)
LEMMA FreshIsRequests == TypeOK /\ GroupInv /\ active = Encoders /\ Fresh => Requests
BY FreshRequests

(* The same of the next state.                                             *)
LEMMA FreshIsRequestsNext == (TypeOK /\ GroupInv /\ active = Encoders /\ Fresh => Requests)'
BY FreshIsRequests, PTL

(* obs_encoder_start: the first session starts fresh.                      *)
LEMMA StartRequests ==
    ASSUME RequestInv, NEW e \in Encoders, StartEncoder(e), TypeOK', GroupInv'
    PROVE  Multiples' /\ FirstSession'
<1>0. /\ TypeOK /\ Clocks /\ Multiples /\ FirstSession
      /\ frame_rate_divisors_lcm \in Nat \ {0} /\ cur_pts \in [Encoders -> Nat]
      /\ Divisor[e] \in Nat \ {0} /\ active \subseteq Encoders
      /\ phase = "starting" /\ active' = active \cup {e} /\ sessions' = sessions
      /\ cur_pts' = [cur_pts EXCEPT ![e] = 0]
      /\ UNCHANGED <<request, start_timestamp, ids, applied>>
  BY DEF RequestInv, GroupInv, StartEncoder, Clocks, TypeOK, history
<1>1. PICK gap \in Nat \ {0} :
        /\ gap = frame_rate_divisors_lcm' /\ gap = Lcm(frame_rate_divisors_lcm, Divisor[e])
        /\ Divides(frame_rate_divisors_lcm, gap) /\ Divides(Divisor[e], gap)
  <2>1. frame_rate_divisors_lcm' = Lcm(frame_rate_divisors_lcm, Divisor[e])
    BY DEF StartEncoder
  <2>. QED  BY <1>0, <2>1, LcmIsMultiple
<1>2. sessions <= 1 => Fresh /\ Fresh'
  BY <1>0 DEF FirstSession, Fresh, request, ids
<1>3. ASSUME NEW f \in active' PROVE Divides(Divisor[f], gap) /\ Divides(Divisor[f], cur_pts'[f])
  <2>1. CASE f = e
    <3>1. cur_pts'[f] = 0
      BY <1>0, <2>1
    <3>2. Divides(Divisor[f], 0)
      BY <1>0, <2>1, DividesZero
    <3>. QED  BY <1>1, <2>1, <3>1, <3>2
  <2>2. CASE f # e
    <3>1. f \in active /\ f \in Encoders /\ cur_pts'[f] = cur_pts[f]
      BY <1>0, <1>3, <2>2
    <3>2. Divides(Divisor[f], frame_rate_divisors_lcm) /\ Divides(Divisor[f], cur_pts[f])
      BY <1>0, <3>1 DEF Multiples
    <3>3. Divisor[f] \in Nat
      BY <3>1
    <3>4. Divides(Divisor[f], gap)
      BY <1>0, <1>1, <3>2, <3>3, DividesTransitive
    <3>. QED  BY <3>1, <3>2, <3>4
  <2>. QED  BY <2>1, <2>2
<1>4. Whole' => Divides(gap, next_pts')
  <2>1. Whole' => next_pts' = 0
    BY <1>0, <1>2 DEF Whole, Fresh
  <2>. QED  BY <2>1, DividesZero
<1>5. Multiples'
  BY <1>1, <1>3, <1>4 DEF Multiples
<1>6. Whole' => Requests'
  BY <1>0, <1>2, FreshIsRequestsNext DEF Whole
<1>7. sessions' # 0
  BY <1>0 DEF FirstSession
<1>. QED  BY <1>0, <1>2, <1>5, <1>6, <1>7 DEF FirstSession

(* remove_connection: a group that has lost an encoder is not complete     *)
(* again in this session.                                                  *)
LEMMA LeaveRequests ==
    ASSUME RequestInv, NEW e \in active, RemoveConnection(e),
           UNCHANGED <<cur_pts, sessions>>,
           \/ phase' = phase /\ phase = "up"
           \/ phase = "stopping" /\ phase' = IF active' = {} THEN "down" ELSE "stopping"
    PROVE  Multiples' /\ FirstSession'
<1>0. Clocks /\ Multiples /\ FirstSession /\ active' = active \ {e} /\ active \subseteq Encoders
  BY DEF RequestInv, GroupInv, RemoveConnection, Clocks
<1>1. ~Whole' /\ sessions' # 0 /\ phase' # "starting"
  BY <1>0 DEF Whole, FirstSession
<1>2. num_encoders_started = 1 => active' = {}
  <2>1. Cardinality(active') = Cardinality(active) - 1 /\ (Cardinality(active') = 0 <=> active' = {})
        /\ Cardinality(active) \in Nat
    BY <1>0, Counts
  <2> QED  BY <1>0, <2>1 DEF Clocks
<1>3. active' # {} => frame_rate_divisors_lcm' = frame_rate_divisors_lcm
  BY <1>2 DEF RemoveConnection
<1>4. Multiples'
  BY <1>0, <1>1, <1>3 DEF Multiples
<1>. QED  BY <1>1, <1>4 DEF FirstSession

(* Case: a request nobody has seen yet.                                    *)
LEMMA NewRequests ==
    ASSUME RequestInv, Whole, NewRequest,
           reconfigure_request = 0 \/ encoders_reconfigured = Cardinality(Encoders),
           UNCHANGED <<ids, next_pts, applied, start_timestamp, cur_pts>>
    PROVE  Requests'
<1>0. /\ TypeOK /\ GroupInv /\ active = Encoders /\ Requests
      /\ Counted /\ IdsInOrder /\ NobodyPast
      /\ reconfigure_request \in Nat
      /\ last_reconfigure_request \in [Encoders -> Nat]
      /\ last_handled_reconfigure_request \in [Encoders -> Nat]
  BY DEF RequestInv, FirstSession, Whole, Requests, TypeOK
<1>1. /\ reconfigure_request' = reconfigure_request + 1
      /\ encoders_updated_next_pts' = 0 /\ encoders_reconfigured' = 0
      /\ UNCHANGED <<last_reconfigure_request, last_handled_reconfigure_request>>
  BY DEF NewRequest, ids
<1>2. Seen' = {} /\ Done' = {}
  <2>1. ASSUME NEW f \in Encoders
        PROVE  /\ last_reconfigure_request'[f] # reconfigure_request'
               /\ last_handled_reconfigure_request'[f] # reconfigure_request'
    BY <1>0, <1>1 DEF IdsInOrder
  <2>. QED  BY <2>1 DEF Seen, Done
<1>3. Counted' /\ NobodyPast'
  BY <1>0, <1>1, <1>2, FS_EmptySet DEF Counted, NobodyPast
<1>4. IdsInOrder'
  BY <1>0, <1>1 DEF IdsInOrder
<1>5. InProgress => Complete(next_pts)
  <2> SUFFICES ASSUME InProgress PROVE Complete(next_pts)
    OBVIOUS
  <2>1. Done = Encoders
    BY <1>0, CountersTell DEF InProgress
  <2>. QED  BY <1>0, <2>1 DEF Requests, Complete
<1>6. \A x \in applied' : Complete(x[1])'
  BY <1>0, <1>5 DEF Requests, Together, Complete
<1>7. ~InProgress'
  BY <1>2, EncodersAssumption DEF InProgress
<1>8. start_timestamp' = Unset => Fresh'
  BY <1>0, <1>1 DEF Requests, Fresh
<1>. QED  BY <1>3, <1>4, <1>6, <1>7, <1>8 DEF Requests, Together

(* obs_encoder_update keeps the requests in order.                         *)
LEMMA UpdateRequests ==
    ASSUME RequestInv, NEW e \in Encoders, Update(e)
    PROVE  Multiples' /\ FirstSession'
<1>0. /\ Multiples /\ FirstSession
      /\ UNCHANGED <<next_pts, start, ids, feed, active, sessions, phase, applied>>
  BY DEF RequestInv, Update, control
<1>1. UNCHANGED <<start_timestamp, frame_rate_divisors_lcm, cur_pts>> /\ Whole' = Whole
  BY <1>0 DEF start, feed, Whole
<1>2. Multiples'
  BY <1>0, <1>1 DEF Multiples
<1>3. Fresh => Fresh'
  BY <1>0, <1>1 DEF Fresh, Update, NewRequest, ids
<1>4. Whole => Requests'
  <2> SUFFICES ASSUME Whole PROVE Requests'
    OBVIOUS
  <2>1. CASE NewRequest /\ (reconfigure_request = 0 \/ encoders_reconfigured = Cardinality(Encoders))
    BY <1>0, <1>1, <2>1, NewRequests
  <2>2. CASE UNCHANGED <<reconfigure_request, encoders_updated_next_pts, encoders_reconfigured>>
    <3>1. /\ UNCHANGED <<Seen, Done, Counted, IdsInOrder, InProgress, NobodyPast>>
          /\ \A p : Together(p)' = Together(p)
      BY <1>0, <1>1, <2>2 DEF Seen, Done, Counted, IdsInOrder, InProgress, NobodyPast, ids,
                              Together, Complete
    <3>2. Requests
      BY <1>0 DEF FirstSession
    <3>. QED  BY <1>0, <1>1, <1>3, <3>1, <3>2 DEF Requests
  <2>. QED  BY <2>1, <2>2 DEF Update
<1>. QED  BY <1>0, <1>1, <1>2, <1>3, <1>4 DEF FirstSession

(* The other steps ask for nothing.                                        *)
LEMMA OtherRequests ==
    ASSUME RequestInv, GroupInv', Begin \/ End \/ Tick \/ AudioArrives \/ UNCHANGED vars
    PROVE  Multiples' /\ FirstSession'
<1>0. /\ Multiples /\ FirstSession /\ Phases /\ Phases' /\ sessions \in Nat
      /\ UNCHANGED <<requested, frame_rate_divisors_lcm, active>>
  BY DEF RequestInv, GroupInv, TypeOK, Begin, End, Tick, AudioArrives, vars, start, feed, history,
         requested
<1>1. CASE Begin
  <2>1. active = {} /\ ~Whole' /\ sessions' = sessions + 1 /\ phase' = "starting"
        /\ start_timestamp' = start_timestamp
    BY <1>0, <1>1 DEF Begin, Phases, Whole, start
  <2>2. sessions' <= 1 => Fresh'
    BY <1>0, <2>1 DEF FirstSession, Fresh, requested, request, ids
  <2>. QED  BY <1>0, <2>1, <2>2 DEF FirstSession, Multiples
<1>2. CASE ~Begin
  <2>1. /\ sessions' = sessions /\ (start_timestamp' = Unset => start_timestamp = Unset)
        /\ (phase' = phase \/ End)
    BY <1>2 DEF End, Tick, AudioArrives, vars, start, control, StartFrame
  <2>2. Whole' = Whole /\ Multiples'
    BY <1>0, <2>1 DEF Whole, Multiples, requested, request
  <2>3. Whole' => Requests'
    BY <1>0, <2>1, <2>2, RequestsStay DEF FirstSession
  <2>4. phase' = phase /\ start_timestamp' = Unset => (Fresh => Fresh')
    BY <1>0 DEF Fresh, requested, request, ids
  <2>5. End => sessions # 0 /\ phase' \in {"down", "stopping"}
    BY <1>0 DEF End, FirstSession
  <2>6. sessions <= 1 /\ (sessions = 0 \/ phase' = "starting") => Fresh'
    BY <1>0, <2>1, <2>4, <2>5 DEF FirstSession, Phases
  <2>. QED  BY <1>0, <2>1, <2>2, <2>3, <2>5, <2>6 DEF FirstSession
<1>. QED  BY <1>1, <1>2

(* Nothing is requested in the beginning.                                  *)
LEMMA InitRequests == Init => RequestInv
<1> SUFFICES ASSUME Init PROVE RequestInv
  OBVIOUS
<1>1. Fresh /\ active = {} /\ phase = "down" /\ ~Whole
  BY DEF Init, Fresh, Whole
<1>. QED  BY <1>1, InitGroup, InitTypes DEF RequestInv, Multiples, FirstSession

(* A step keeps the requests in order.                                     *)
LEMMA StepRequests ==
    ASSUME RequestInv, [Next]_vars
    PROVE  RequestInv'
<1>1. GroupInv' /\ TypeOK'
  BY StepGroup, StepTypes DEF RequestInv
<1>2. CASE Begin \/ End \/ Tick \/ AudioArrives \/ UNCHANGED vars
  BY <1>1, <1>2, OtherRequests DEF RequestInv
<1>3. ASSUME NEW e \in Encoders, StartEncoder(e) \/ Receive(e) \/ Update(e) PROVE RequestInv'
  BY <1>1, <1>3, StartRequests, ReceiveRequests, UpdateRequests DEF RequestInv
<1>4. ASSUME NEW e \in Encoders, StopEncoder(e) \/ Fail(e) PROVE RequestInv'
  <2>1. e \in active /\ RemoveConnection(e) /\ UNCHANGED <<cur_pts, sessions>>
        /\ \/ phase' = phase /\ phase = "up"
           \/ phase = "stopping" /\ phase' = IF active' = {} THEN "down" ELSE "stopping"
    BY <1>4 DEF StopEncoder, Fail, feed, control
  <2>. QED  BY <1>1, <2>1, LeaveRequests DEF RequestInv
<1>. QED  BY <1>2, <1>3, <1>4 DEF Next

(* obs-encoder.c: in the group's first session the counters of a request   *)
(* count the encoders that have seen it and have carried it out, nobody is *)
(* past the boundary without having done so, and pts stay multiples of the *)
(* divisors.                                                               *)
THEOREM RequestInvariance == Spec => []RequestInv
BY InitRequests, StepRequests, PTL DEF Spec

(* obs_encoder_update: in its first session the encoders of a complete     *)
(* group reconfigure on the same frame, whatever the divisors, however the *)
(* feeding threads interleave and whenever updates are asked for.          *)
THEOREM KeyFramesTogether == Spec => [](sessions <= 1 => ReconfigureTogether)
<1>1. ASSUME RequestInv, sessions <= 1 PROVE ReconfigureTogether
  <2> SUFFICES ASSUME active = Encoders, NEW x \in applied, NEW e \in Encoders,
                      cur_pts[e] > x[1]
               PROVE  <<x[1], e>> \in applied
    BY DEF ReconfigureTogether
  <2>1. Together(x[1]) /\ NobodyPast /\ (InProgress => \A f \in Done : <<next_pts, f>> \in applied)
        /\ cur_pts[e] \in Nat /\ next_pts \in Nat
    BY <1>1 DEF RequestInv, FirstSession, Whole, Requests, TypeOK
  <2>2. CASE Complete(x[1])
    BY <2>2 DEF Complete
  <2>3. CASE InProgress /\ x[1] = next_pts
    <3>1. e \in Done
      BY <2>1, <2>3 DEF InProgress, NobodyPast
    <3>. QED  BY <2>1, <2>3, <3>1
  <2>. QED  BY <2>1, <2>2, <2>3 DEF Together
<1>. QED  BY RequestInvariance, <1>1, PTL

-----------------------------------------------------------------------------
(* Deadlines: an update is applied in bounded time                         *)

\* An encoder that was updated has not carried out the request, or there will be another.
Owed ==
    /\ pending \cap Done # {} => reconfigure_again
    /\ pending # {} => reconfigure_request > 0 /\ Done # Encoders

\* Every encoder has begun, or may still begin.
NobodyLeftOut == \A e \in Encoders : start_ts[e] # Unset \/ frame[e] <= start_timestamp

\* Since when the encoders run and know their settings.
Since == IF asked > start_timestamp THEN asked ELSE start_timestamp

\* When the last encoder sees the request: this one, or the next one, which is made
\* when this one has been carried out.
Deadline ==
    IF reconfigure_again THEN Since + frame_rate_divisors_lcm - 1
    ELSE Since + 2 * MaxLead + 3 * frame_rate_divisors_lcm - 3

\* The encoders see the request in time, and carry it out at the boundary after it.
Within ==
    /\ \A e \in Encoders \ Seen : start_timestamp + cur_pts[e] <= Deadline
    /\ InProgress =>
           start_timestamp + next_pts <= Deadline + MaxLead - 1 + frame_rate_divisors_lcm

InTime ==
    /\ start_timestamp + next_pts <= now - 1 + frame_rate_divisors_lcm
    /\ pending # {} => Within

\* The encoders are not further apart than the frames that may wait for one.
Lead == asked <= now /\ \A e \in active : now <= frame[e] + MaxLead

UpdateInv ==
    /\ RequestInv /\ Lead
    /\ pending # {} => reconfigure_request > 0
    /\ Whole => Owed
    /\ Whole /\ start_timestamp # Unset /\ NobodyLeftOut => InTime

(* What the bounds are about.                                              *)
LEMMA LeadTypes ==
    ASSUME RequestInv
    PROVE  /\ MaxLead \in Nat /\ asked \in Nat /\ now \in Nat \ {0} /\ start_timestamp \in Nat
           /\ frame \in [Encoders -> Nat] /\ cur_pts \in [Encoders -> Nat]
           /\ start_ts \in [Encoders -> Nat]
           /\ frame_rate_divisors_lcm \in Nat \ {0} /\ next_pts \in Nat
           /\ reconfigure_request \in Nat
           /\ active \subseteq Encoders /\ pending \subseteq active
           /\ \A e \in active : frame[e] <= now
           /\ Since \in Nat /\ Since >= asked /\ Since >= start_timestamp
           /\ \A e \in active : Divisor[e] <= frame_rate_divisors_lcm
<1>1. ASSUME NEW e \in active PROVE Divisor[e] <= frame_rate_divisors_lcm
  <2>1. Divisor[e] \in Nat \ {0} /\ frame_rate_divisors_lcm \in Nat \ {0}
        /\ Divides(Divisor[e], frame_rate_divisors_lcm) /\ Divides(Divisor[e], 0)
    BY <1>1, DividesZero DEF RequestInv, GroupInv, Clocks, TypeOK, Multiples
  <2>2. 0 + Divisor[e] <= frame_rate_divisors_lcm
    BY <2>1, NextMultiple
  <2>. QED  BY <2>1, <2>2
<1>2. /\ MaxLead \in Nat /\ asked \in Nat /\ now \in Nat \ {0} /\ start_timestamp \in Nat
      /\ frame \in [Encoders -> Nat] /\ cur_pts \in [Encoders -> Nat]
      /\ start_ts \in [Encoders -> Nat]
      /\ frame_rate_divisors_lcm \in Nat \ {0} /\ next_pts \in Nat
      /\ reconfigure_request \in Nat
      /\ active \subseteq Encoders /\ pending \subseteq active
      /\ \A e \in active : frame[e] <= now
  BY BoundsAssumption DEF RequestInv, GroupInv, Clocks, TypeOK
<1>. QED  BY <1>1, <1>2 DEF Since

(* No encoder is past the clock by a whole common interval.                *)
LEMMA StandsNear ==
    ASSUME RequestInv, Whole, start_timestamp # Unset, NobodyLeftOut, NEW e \in Encoders
    PROVE  \/ start_timestamp + cur_pts[e] = start_timestamp
           \/ start_timestamp + cur_pts[e] <= now + frame_rate_divisors_lcm - 1
<1>1. Clocks /\ InStep(e) /\ e \in active
  BY DEF RequestInv, GroupInv, Whole
<1>2. CASE start_ts[e] = Unset
  BY <1>1, <1>2, LeadTypes DEF InStep
<1>3. CASE start_ts[e] # Unset
  <2>1. start_timestamp + cur_pts[e] = frame[e] + UntilNext(e) /\ frame[e] <= now
        /\ counter[e] \in Nat /\ Divisor[e] \in Nat \ {0} /\ frame[e] \in Nat
        /\ Divisor[e] <= frame_rate_divisors_lcm
    BY <1>1, <1>3, LeadTypes DEF InStep, Clocks
  <2>2. UntilNext(e) \in 0..Divisor[e] - 1
    BY <1>1, <2>1 DEF UntilNext, Clocks
  <2>. QED  BY <2>1, <2>2, LeadTypes
<1>. QED  BY <1>2, <1>3

(* Nothing is asked for in the beginning.                                  *)
LEMMA InitUpdates == Init => UpdateInv
<1> SUFFICES ASSUME Init PROVE UpdateInv
  OBVIOUS
<1>1. active = {} /\ asked = 0 /\ now = 1 /\ pending = {} /\ ~Whole
  BY DEF Init, Whole
<1>. QED  BY <1>1, InitRequests DEF UpdateInv, Lead

(* Steps that ask for nothing and carry nothing out, the group's start     *)
(* among them.                                                             *)
LEMMA UpdatesStay ==
    ASSUME UpdateInv, RequestInv',
           UNCHANGED <<requested, pending, asked, frame_rate_divisors_lcm, active, sessions>>,
           now' \in Nat, now' >= now, Lead',
           \/ start_timestamp' = start_timestamp /\ (NobodyLeftOut' => NobodyLeftOut)
           \/ start_timestamp = Unset /\ start_timestamp' <= now' /\ start_timestamp' # Unset
    PROVE  UpdateInv'
<1>0. /\ UNCHANGED <<Seen, Done, InProgress, Owed, Whole, cur_pts, next_pts, pending,
                     reconfigure_again, frame_rate_divisors_lcm, reconfigure_request>>
  BY DEF requested, Seen, Done, InProgress, Owed, Whole, request, ids
<1>1. Whole' => Owed'
  BY <1>0 DEF UpdateInv
<1>2. CASE start_timestamp' = start_timestamp /\ (NobodyLeftOut' => NobodyLeftOut)
  <2>1. UNCHANGED Deadline
    BY <1>0, <1>2 DEF Since, Deadline
  <2>2. InTime => InTime'
    <3>1. Within => Within'
      BY <1>0, <1>2, <2>1 DEF Within
    <3>3. /\ start_timestamp' = start_timestamp /\ next_pts' = next_pts /\ pending' = pending
          /\ frame_rate_divisors_lcm' = frame_rate_divisors_lcm /\ now' \in Nat /\ now' >= now
      BY <1>0, <1>2
    <3>2. now \in Nat /\ start_timestamp \in Nat /\ next_pts \in Nat /\ frame_rate_divisors_lcm \in Nat
      BY LeadTypes DEF UpdateInv
    <3>4. PICK t \in Nat : t = now' /\ t >= now
      BY Zenon
    <3>5. InTime => start_timestamp + next_pts <= t - 1 + frame_rate_divisors_lcm
      <4>1. t >= now
        BY <3>4, Zenon
      <4>. QED  BY <3>2, <4>1 DEF InTime
    <3>. QED  BY <3>1, <3>3, <3>4, <3>5, Zenon DEF InTime
  <2>. QED  BY <1>0, <1>1, <1>2, <2>2 DEF UpdateInv
<1>3. CASE start_timestamp = Unset /\ start_timestamp' <= now' /\ start_timestamp' # Unset
  <2>1. ASSUME Whole PROVE InTime'
    <3>1. RequestInv /\ Fresh
      BY <1>3, <2>1 DEF UpdateInv, RequestInv, FirstSession, Requests
    <3>2. \A e \in Encoders : cur_pts'[e] = 0
      BY <1>0, <1>3, <2>1, <3>1 DEF RequestInv, GroupInv, Clocks, InStep, Whole
    <3>3. next_pts' = 0 /\ (pending' # {} => ~InProgress')
      <4>1. Owed /\ next_pts = 0 /\ \A e \in Encoders : last_reconfigure_request[e] = 0
        BY <2>1, <3>1 DEF UpdateInv, Fresh
      <4>2. pending # {} => ~InProgress
        BY <4>1, EncodersAssumption DEF Owed, InProgress, Seen
      <4>. QED  BY <1>0, <4>1, <4>2
    <3>4. PICK t \in Nat, s \in Nat, a \in Nat, gap \in Nat \ {0} :
            /\ t = now' /\ s = start_timestamp' /\ a = asked' /\ gap = frame_rate_divisors_lcm'
            /\ s <= t
      <4>1. frame_rate_divisors_lcm \in Nat \ {0}
        BY <3>1, LeadTypes
      <4>2. start_timestamp' \in Nat /\ asked' \in Nat
        BY Zenon DEF RequestInv, TypeOK
      <4>. QED  BY <1>0, <1>3, <4>1, <4>2, Zenon
    <3>5. MaxLead \in Nat
      BY BoundsAssumption
    <3>6. PICK since \in Nat : since = (IF a > s THEN a ELSE s) /\ since >= s
      OBVIOUS
    <3>7. PICK d \in Int : d = Deadline' /\ d >= s
      <4>1. since = Since'
        BY <3>4, <3>6, Zenon DEF Since
      <4>2. Deadline' = IF reconfigure_again' THEN since + gap - 1
                        ELSE since + 2 * MaxLead + 3 * gap - 3
        BY <3>4, <4>1, Zenon DEF Deadline
      <4>3. since + gap - 1 \in Int /\ since + gap - 1 >= s
            /\ since + 2 * MaxLead + 3 * gap - 3 \in Int /\ since + 2 * MaxLead + 3 * gap - 3 >= s
        BY <3>5, <3>6
      <4>. QED  BY <4>2, <4>3
    <3>8. \A e \in Encoders : s + cur_pts'[e] <= d
      BY <3>2, <3>7
    <3>9. pending' # {} => Within'
      BY <3>3, <3>4, <3>7, <3>8, Zenon DEF Within
    <3>10. s + 0 <= t - 1 + gap
      <4>1. s <= t
        BY <3>4, Zenon
      <4>. QED  BY <4>1
    <3>. QED  BY <3>3, <3>4, <3>9, <3>10, Zenon DEF InTime
  <2>. QED  BY <1>0, <1>1, <2>1 DEF UpdateInv
<1>. QED  BY <1>2, <1>3

(* How InTime follows for the next state from facts about this one.        *)
LEMMA StillInTime ==
    ASSUME UNCHANGED <<start_timestamp, now, frame_rate_divisors_lcm>>, NEW p, p = next_pts',
           start_timestamp + p <= now - 1 + frame_rate_divisors_lcm,
           NEW d, pending' # {} => d = Deadline',
           pending' # {} => \A f \in Encoders \ Seen' : \E c : c = cur_pts'[f] /\ start_timestamp + c <= d,
           pending' # {} /\ InProgress' => start_timestamp + p <= d + MaxLead - 1 + frame_rate_divisors_lcm
    PROVE  InTime'
<1>1. pending' # {} => \A f \in Encoders \ Seen' : start_timestamp' + cur_pts'[f] <= Deadline'
  BY Zenon
<1>. QED  BY <1>1, Zenon DEF InTime, Within

(* Case: the update is carried out.  Where the last encoder makes a new    *)
(* request, the deadline moves on by one round.                            *)
LEMMA CarriesOutInTime ==
    ASSUME UpdateInv, Whole, NEW e \in Encoders, CarriesOut(e), frame[e] < now,
           frame[e] = start_timestamp + cur_pts[e], start_timestamp # Unset,
           cur_pts' = [cur_pts EXCEPT ![e] = cur_pts[e] + Divisor[e]],
           pending' = pending \ {e},
           UNCHANGED <<now, asked, frame_rate_divisors_lcm>>
    PROVE  Owed' /\ (NobodyLeftOut => InTime')
<1>0. /\ RequestInv /\ Owed /\ e \in active
      /\ UNCHANGED <<next_pts, start_timestamp>>
  BY DEF UpdateInv, Whole, CarriesOut
<1>1. /\ reconfigure_request > 0 /\ Seen = Encoders /\ e \notin Done
      /\ cur_pts[e] = next_pts /\ Carried(e)
      /\ reconfigure_request \in Nat /\ Divisor[e] \in Nat
  BY <1>0, CarriesOutRequest, LeadTypes
<1>2. /\ MaxLead \in Nat /\ now \in Nat /\ start_timestamp \in Nat /\ Since \in Nat /\ next_pts \in Nat
      /\ frame_rate_divisors_lcm \in Nat \ {0} /\ Since >= start_timestamp
      /\ cur_pts \in [Encoders -> Nat] /\ Divisor[e] <= frame_rate_divisors_lcm
      /\ frame[e] \in Nat
  BY <1>0, LeadTypes
<1>3. now <= frame[e] + MaxLead /\ InProgress
  BY <1>0, <1>1 DEF UpdateInv, Lead, InProgress
<1>4. CASE NewRequest /\ reconfigure_again /\ Seen' = {} /\ Done' = {}
  <2>1. Owed'
    <3>1. reconfigure_request' = reconfigure_request + 1
      BY <1>4 DEF NewRequest
    <3>2. reconfigure_request + 1 > 0
      BY <1>1
    <3>3. reconfigure_request' > 0
      BY <3>1, <3>2, Zenon
    <3>. QED  BY <1>4, <3>3, EncodersAssumption DEF Owed
  <2>2. ASSUME NobodyLeftOut PROVE InTime'
    <3> DEFINE d == Since + 2 * MaxLead + 3 * frame_rate_divisors_lcm - 3
    <3>0. InTime
      BY <2>2 DEF UpdateInv
    <3>1. d = Deadline'
      <4>1. reconfigure_again' = FALSE /\ Since' = Since
        BY <1>0, <1>4, Zenon DEF NewRequest, Since
      <4>. QED  BY <4>1, Zenon DEF Deadline
    <3>2. start_timestamp + next_pts <= now - 1 + frame_rate_divisors_lcm
      BY <3>0 DEF InTime
    <3>3. ASSUME pending' # {}, NEW f \in Encoders
          PROVE  \E c : c = cur_pts'[f] /\ start_timestamp + c <= d
      <4>1. start_timestamp + next_pts
                <= Since + frame_rate_divisors_lcm - 1 + MaxLead - 1 + frame_rate_divisors_lcm
        BY <1>3, <1>4, <3>0, <3>3 DEF InTime, Within, Deadline
      <4>2. CASE f = e
        <5>1. cur_pts'[f] = cur_pts[e] + Divisor[e]
          BY <1>2, <4>2
        <5>2. start_timestamp + (cur_pts[e] + Divisor[e]) <= d
          BY <1>1, <1>2, <1>3, <4>1
        <5>. QED  BY <5>1, <5>2
      <4>3. CASE f # e
        <5>1. cur_pts'[f] = cur_pts[f] /\ cur_pts[f] \in Nat
          BY <1>2, <4>3
        <5>2. \/ start_timestamp + cur_pts[f] = start_timestamp
              \/ start_timestamp + cur_pts[f] <= now + frame_rate_divisors_lcm - 1
          BY <1>0, <2>2, StandsNear
        <5>3. start_timestamp + cur_pts[f] <= d
          BY <1>1, <1>2, <1>3, <4>1, <5>1, <5>2
        <5> HIDE DEF d
        <5>. QED  BY <5>1, <5>3
      <4>. QED  BY <4>2, <4>3
    <3>4. ~InProgress'
      BY <1>4, EncodersAssumption DEF InProgress
    <3> HIDE DEF d
    <3>. QED  BY <1>0, <3>1, <3>2, <3>3, <3>4, StillInTime
  <2>. QED  BY <2>1, <2>2
<1>5. CASE /\ UNCHANGED <<reconfigure_request, reconfigure_again>>
           /\ Done' = Done \cup {e} /\ Seen' = Seen
           /\ reconfigure_again => Done \cup {e} # Encoders
  <2>1. Owed'
    <3>1. pending' \cap Done' # {} => reconfigure_again'
      BY <1>0, <1>5 DEF Owed
    <3>2. pending' # {} => Done' # Encoders
      <4>1. pending' \subseteq Encoders
        BY <1>0, LeadTypes
      <4>. QED  BY <1>5, <3>1, <4>1
    <3>3. reconfigure_request' > 0
      BY <1>1, <1>5, Zenon
    <3>. QED  BY <3>1, <3>2, <3>3 DEF Owed
  <2>2. ASSUME NobodyLeftOut PROVE InTime'
    <3>0. InTime
      BY <2>2 DEF UpdateInv
    <3>1. Deadline = Deadline'
      BY <1>0, <1>5, Zenon DEF Deadline, Since
    <3>2. InProgress' /\ Encoders \ Seen' = {}
      BY <1>1, <1>3, <1>5 DEF InProgress
    <3>3. pending' # {} => Within
      BY <3>0 DEF InTime
    <3>. QED  BY <1>0, <1>3, <3>0, <3>1, <3>2, <3>3, StillInTime DEF InTime, Within
  <2>. QED  BY <2>1, <2>2
<1>. QED  BY <1>1, <1>4, <1>5 DEF Carried

(* Case: the request is seen, or the boundary moves on.                    *)
LEMMA SeesInTime ==
    ASSUME UpdateInv, Whole, NEW e \in Encoders, frame[e] < now,
           frame[e] = start_timestamp + cur_pts[e],
           cur_pts' = [cur_pts EXCEPT ![e] = cur_pts[e] + Divisor[e]],
           last_reconfigure_request' =
               [last_reconfigure_request EXCEPT ![e] = reconfigure_request],
           next_pts' \in {next_pts, NextBoundary(e)},
           reconfigure_request > 0 => Seen # Encoders,
           start_timestamp # Unset, NobodyLeftOut,
           UNCHANGED <<reconfigure_request, reconfigure_again, start_timestamp, pending, now, asked,
                       frame_rate_divisors_lcm>>
    PROVE  InTime'
<1>0. RequestInv /\ InTime /\ e \in active
  BY DEF UpdateInv, Whole
<1>1. /\ MaxLead \in Nat /\ now \in Nat /\ start_timestamp \in Nat /\ Since \in Nat /\ next_pts \in Nat
      /\ frame_rate_divisors_lcm \in Nat \ {0}
      /\ cur_pts \in [Encoders -> Nat] /\ cur_pts[e] \in Nat /\ frame[e] \in Nat
      /\ now <= frame[e] + MaxLead
      /\ last_reconfigure_request \in [Encoders -> Nat]
  <2>1. last_reconfigure_request \in [Encoders -> Nat] /\ now <= frame[e] + MaxLead
    BY <1>0 DEF RequestInv, TypeOK, UpdateInv, Lead
  <2>. QED  BY <1>0, <2>1, LeadTypes
<1>2. NextBoundary(e) \in Nat /\ NextBoundary(e) <= cur_pts[e] + frame_rate_divisors_lcm
  BY <1>0, <1>1, NextBoundaryIs DEF RequestInv, Multiples
<1>3. PICK p \in {next_pts, NextBoundary(e)} : p = next_pts'
  BY Zenon
<1>4. start_timestamp + p <= now - 1 + frame_rate_divisors_lcm
  <2>1. start_timestamp + NextBoundary(e) <= now - 1 + frame_rate_divisors_lcm
    BY <1>1, <1>2
  <2>2. start_timestamp + next_pts <= now - 1 + frame_rate_divisors_lcm
    BY <1>0 DEF InTime
  <2>. QED  BY <2>1, <2>2
<1>5. Seen' = Seen \cup {e}
  BY <1>1 DEF Seen
<1>6. PICK d : d = Deadline
  OBVIOUS
<1>7. d = Deadline' /\ d \in Int
  <2>1. d = Deadline'
    BY <1>6, Zenon DEF Deadline, Since
  <2>2. d \in Int
    BY <1>1, <1>6 DEF Deadline
  <2>. QED  BY <2>1, <2>2
<1>8. ASSUME pending' # {}, NEW f \in Encoders \ Seen'
      PROVE  \E c : c = cur_pts'[f] /\ start_timestamp + c <= d
  <2>1. f \in Encoders \ Seen /\ f # e
    BY <1>5, <1>8
  <2>2. start_timestamp + cur_pts[f] <= d
    BY <1>0, <1>6, <1>8, <2>1 DEF InTime, Within
  <2>3. cur_pts'[f] = cur_pts[f]
    BY <1>1, <2>1
  <2>. QED  BY <2>2, <2>3
<1>9. ASSUME pending' # {}, InProgress'
      PROVE  start_timestamp + p <= d + MaxLead - 1 + frame_rate_divisors_lcm
  <2>1. reconfigure_request > 0 /\ Seen' = Encoders
    BY <1>9, Zenon DEF InProgress
  <2>2. e \in Encoders \ Seen
    BY <1>5, <2>1
  <2>3. start_timestamp + cur_pts[e] <= d
    BY <1>0, <1>6, <1>9, <2>2 DEF InTime, Within
  <2>4. d \in Int
    BY <1>7, Zenon
  <2>5. p \in Nat
    BY <1>1, <1>2, <1>3
  <2>6. start_timestamp + p <= now - 1 + frame_rate_divisors_lcm
    BY <1>4, Zenon
  <2> HIDE DEF NextBoundary
  <2>. QED  BY <1>1, <2>3, <2>4, <2>5, <2>6
<1>. QED  BY <1>3, <1>4, <1>7, <1>8, <1>9, StillInTime

(* Case: nothing to do on this frame.                                      *)
LEMMA GoesOnInTime ==
    ASSUME UpdateInv, Whole, NEW e \in Encoders, ~IsNew(e),
           cur_pts' = [cur_pts EXCEPT ![e] = cur_pts[e] + Divisor[e]],
           start_timestamp # Unset, NobodyLeftOut,
           UNCHANGED <<request, ids, start_timestamp, pending, now, asked, frame_rate_divisors_lcm>>
    PROVE  InTime'
<1>0. RequestInv /\ InTime /\ cur_pts \in [Encoders -> Nat]
  <2>1. RequestInv /\ InTime
    BY DEF UpdateInv
  <2>. QED  BY <2>1, LeadTypes
<1>1. /\ UNCHANGED <<Seen, InProgress, next_pts>> /\ Deadline' = Deadline /\ e \in Seen
  <2>1. UNCHANGED <<Seen, InProgress, next_pts>> /\ e \in Seen
    BY DEF Seen, InProgress, request, ids, IsNew
  <2>2. reconfigure_again' = reconfigure_again
    BY DEF request
  <2>3. Deadline' = Deadline
    BY <2>2, Zenon DEF Deadline, Since
  <2>. QED  BY <2>1, <2>3
<1>2. ASSUME NEW f \in Encoders \ Seen' PROVE cur_pts'[f] = cur_pts[f]
  BY <1>0, <1>1, <1>2
<1>3. ASSUME pending' # {}, NEW f \in Encoders \ Seen'
      PROVE  \E c : c = cur_pts'[f] /\ start_timestamp + c <= Deadline
  BY <1>0, <1>1, <1>2, <1>3 DEF InTime, Within
<1>4. pending' # {} /\ InProgress'
          => start_timestamp + next_pts <= Deadline + MaxLead - 1 + frame_rate_divisors_lcm
  <2>1. pending' # {} /\ InProgress' => pending # {} /\ InProgress
    BY <1>1
  <2>. QED  BY <1>0, <2>1 DEF InTime, Within
<1>5. start_timestamp + next_pts <= now - 1 + frame_rate_divisors_lcm
  BY <1>0 DEF InTime
<1> HIDE DEF Deadline
<1>. QED  BY <1>1, <1>3, <1>4, <1>5, StillInTime

(* handle_encoder_group_reconfigure_request keeps the deadline.            *)
LEMMA ReceiveUpdates ==
    ASSUME UpdateInv, NEW e \in Encoders, Receive(e), RequestInv'
    PROVE  UpdateInv'
<1>0. /\ RequestInv /\ e \in active /\ frame[e] < now
      /\ UNCHANGED <<start_timestamp, frame_rate_divisors_lcm, active, now, sessions, asked>>
      /\ frame' = [frame EXCEPT ![e] = frame[e] + 1]
  BY DEF UpdateInv, Receive, start, control
<1>1. /\ frame \in [Encoders -> Nat] /\ start_timestamp \in Nat /\ start_ts \in [Encoders -> Nat]
      /\ MaxLead \in Nat /\ now \in Nat /\ active \subseteq Encoders /\ frame[e] \in Nat
      /\ cur_pts \in [Encoders -> Nat]
  BY <1>0, LeadTypes
<1>2. Lead'
  <2>1. ASSUME NEW f \in active PROVE now <= frame'[f] + MaxLead
    <3>1. now <= frame[f] + MaxLead /\ f \in Encoders /\ frame[f] \in Nat
      BY <1>1 DEF UpdateInv, Lead
    <3>2. CASE f = e
      <4>1. frame'[f] = frame[e] + 1
        BY <1>0, <1>1, <3>2
      <4>2. now <= (frame[e] + 1) + MaxLead
        BY <1>1, <3>1, <3>2
      <4>. QED  BY <4>1, <4>2
    <3>3. CASE f # e
      BY <1>0, <1>1, <3>1, <3>3
    <3>. QED  BY <3>2, <3>3
  <2>. QED  BY <1>0, <2>1 DEF UpdateInv, Lead
<1>3. NobodyLeftOut' => NobodyLeftOut
  <2> SUFFICES ASSUME NobodyLeftOut', NEW f \in Encoders
               PROVE  start_ts[f] # Unset \/ frame[f] <= start_timestamp
    BY DEF NobodyLeftOut
  <2>1. start_ts'[f] # Unset \/ frame'[f] <= start_timestamp
    BY <1>0 DEF NobodyLeftOut
  <2>2. CASE f # e
    <3>1. start_ts'[f] = start_ts[f] /\ frame'[f] = frame[f]
      BY <1>0, <1>1, <2>2 DEF Receive, Encode
    <3>. QED  BY <2>1, <3>1
  <2>3. CASE f = e
    <3>1. frame'[f] = frame[e] + 1
      BY <1>0, <1>1, <2>3
    <3>2. CASE frame'[f] <= start_timestamp
      <4>1. frame[e] + 1 <= start_timestamp
        BY <3>1, <3>2
      <4>. QED  BY <1>1, <2>3, <4>1
    <3>3. CASE start_ts'[f] # Unset /\ start_ts[f] = Unset
      <4>1. ~HeldBack(e)
        BY <1>0, <2>3, <3>3 DEF Receive
      <4>. QED  BY <1>1, <2>3, <3>3, <4>1 DEF HeldBack
    <3>. QED  BY <2>1, <3>2, <3>3
  <2>. QED  BY <2>2, <2>3
<1>4. CASE UNCHANGED <<requested, pending>>
  <2>1. now' \in Nat /\ now' >= now
    BY <1>0, <1>1
  <2>. QED  BY <1>0, <1>2, <1>3, <1>4, <2>1, UpdatesStay
<1>5. CASE ~HeldBack(e) /\ counter[e] = 0
  <2>1. /\ frame[e] = start_timestamp + cur_pts[e] /\ start_timestamp # Unset
        /\ cur_pts' = [cur_pts EXCEPT ![e] = cur_pts[e] + Divisor[e]]
        /\ HandleRequest(e)
    BY <1>0, <1>5, EncodesAtPts
  <2>2. pending' # {} => reconfigure_request' > 0
    <3>1. pending' # {} => reconfigure_request > 0
      BY <2>1 DEF HandleRequest, UpdateInv
    <3>2. reconfigure_request' \in {reconfigure_request, reconfigure_request + 1}
      BY <2>1 DEF HandleRequest, RequestAgain, NewRequest, request
    <3>3. reconfigure_request \in Nat
      BY <1>0, LeadTypes
    <3>4. PICK r \in {reconfigure_request, reconfigure_request + 1} : r = reconfigure_request'
      BY <3>2, Zenon
    <3>5. pending' # {} => r > 0
      BY <3>1, <3>3
    <3>. QED  BY <3>4, <3>5, Zenon
  <2>3. ASSUME Whole PROVE Owed' /\ (NobodyLeftOut => InTime')
    <3>1. CASE MayReconfigure(e)
      <4>1. CarriesOut(e) /\ pending' = pending \ {e}
        BY <1>0, <2>1, <3>1 DEF HandleRequest, CarriesOut
      <4>. QED  BY <1>0, <2>1, <2>3, <4>1, CarriesOutInTime
    <3>2. CASE ~MayReconfigure(e) /\ (IsNew(e) \/ cur_pts[e] = next_pts)
      <4>1. /\ last_reconfigure_request' =
                 [last_reconfigure_request EXCEPT ![e] = reconfigure_request]
            /\ next_pts' = IF NextBoundary(e) > next_pts THEN NextBoundary(e) ELSE next_pts
            /\ encoders_updated_next_pts' =
                 encoders_updated_next_pts + (IF IsNew(e) THEN 1 ELSE 0)
            /\ UNCHANGED <<last_handled_reconfigure_request, reconfigure_request,
                           encoders_reconfigured, reconfigure_again, pending, applied>>
        BY <2>1, <3>2 DEF HandleRequest
      <4>2. /\ next_pts' \in {next_pts, NextBoundary(e)}
            /\ reconfigure_request > 0 => Seen # Encoders
        BY <1>0, <2>1, <2>3, <3>2, <4>1, SeesRequest
      <4>3. Owed'
        <5>1. Done' = Done
          BY <4>1 DEF Done
        <5>. QED  BY <2>3, <4>1, <5>1 DEF UpdateInv, Owed
      <4>. QED  BY <1>0, <2>1, <2>3, <4>1, <4>2, <4>3, SeesInTime
    <3>3. CASE ~MayReconfigure(e) /\ ~IsNew(e) /\ cur_pts[e] # next_pts
      <4>1. UNCHANGED <<request, ids, pending, applied>>
        BY <2>1, <3>3 DEF HandleRequest
      <4>2. Owed'
        <5>1. Done' = Done
          BY <4>1 DEF Done, request, ids
        <5>. QED  BY <2>3, <4>1, <5>1 DEF UpdateInv, Owed, request
      <4>. QED  BY <1>0, <2>1, <2>3, <3>3, <4>1, <4>2, GoesOnInTime
    <3>. QED  BY <3>1, <3>2, <3>3
  <2>4. Whole' = Whole
    BY <1>0 DEF Whole
  <2>. QED  BY <1>2, <1>3, <2>2, <2>3, <2>4 DEF UpdateInv
<1>. QED  BY <1>4, <1>5 DEF Receive, requested

(* obs_encoder_start: nobody has reconfigured in a group that is not       *)
(* complete.                                                               *)
LEMMA StartUpdates ==
    ASSUME UpdateInv, NEW e \in Encoders, StartEncoder(e), RequestInv'
    PROVE  UpdateInv'
<1>0. /\ RequestInv /\ Lead /\ (pending # {} => reconfigure_request > 0)
      /\ phase = "starting" /\ active' = active \cup {e}
      /\ frame' = [frame EXCEPT ![e] = now]
      /\ UNCHANGED <<request, ids, now, sessions, pending, asked, start_timestamp>>
  BY DEF UpdateInv, StartEncoder, history
<1>1. /\ frame \in [Encoders -> Nat] /\ now \in Nat /\ MaxLead \in Nat /\ active \subseteq Encoders
      /\ reconfigure_request \in Nat
  BY <1>0, LeadTypes
<1>2. Lead'
  <2>1. ASSUME NEW f \in active' PROVE now <= frame'[f] + MaxLead
    <3>1. CASE f = e
      BY <1>0, <1>1, <3>1
    <3>2. CASE f # e
      BY <1>0, <1>1, <2>1, <3>2 DEF Lead
    <3>. QED  BY <3>1, <3>2
  <2>. QED  BY <1>0, <2>1 DEF Lead
<1>3. pending' # {} => reconfigure_request' > 0
  BY <1>0 DEF request
<1>4. Whole' => Fresh
  BY <1>0 DEF Whole, RequestInv, FirstSession
<1>5. Whole' => Owed'
  <2>1. Done' = Done
    BY <1>0 DEF Done, request, ids
  <2>2. Fresh /\ reconfigure_request > 0 => Done = {}
    BY <1>1 DEF Fresh, Done
  <2>. QED  BY <1>0, <1>3, <1>4, <2>1, <2>2, EncodersAssumption DEF Owed
<1>6. Whole' => start_timestamp' = Unset
  BY <1>0, <1>4 DEF Fresh
<1>. QED  BY <1>2, <1>3, <1>5, <1>6 DEF UpdateInv

(* remove_connection: with the last encoder goes the last pending update.  *)
LEMMA LeaveUpdates ==
    ASSUME UpdateInv, NEW e \in active, RemoveConnection(e), RequestInv',
           UNCHANGED <<now, frame>>
    PROVE  UpdateInv'
<1>0. /\ RequestInv /\ Lead /\ active' = active \ {e} /\ active \subseteq Encoders
      /\ pending' = pending \ {e} /\ UNCHANGED <<now, frame, asked>>
      /\ pending' \subseteq active'
  BY DEF UpdateInv, RemoveConnection, RequestInv, TypeOK
<1>1. Lead'
  BY <1>0 DEF Lead
<1>2. ~Whole'
  BY <1>0 DEF Whole
<1>3. num_encoders_started = 1 => active' = {}
  <2>1. Cardinality(active') = Cardinality(active) - 1 /\ (Cardinality(active') = 0 <=> active' = {})
        /\ Cardinality(active) \in Nat /\ num_encoders_started = Cardinality(active)
    BY <1>0, Counts DEF RequestInv, GroupInv, Clocks
  <2>. QED  BY <2>1
<1>4. pending' # {} => reconfigure_request' > 0
  <2>1. pending' # {} => reconfigure_request' = reconfigure_request /\ pending # {}
    BY <1>0, <1>3 DEF RemoveConnection, request
  <2>. QED  BY <2>1 DEF UpdateInv
<1>. QED  BY <1>1, <1>2, <1>4 DEF UpdateInv

(* obs_encoder_update: the deadline counts from the latest update, which   *)
(* is carried out with this request or the next one.                       *)
LEMMA UpdateUpdates ==
    ASSUME UpdateInv, NEW e \in Encoders, Update(e), RequestInv'
    PROVE  UpdateInv'
<1>0. /\ RequestInv /\ Lead /\ pending' = pending \cup {e} /\ asked' = now
      /\ UNCHANGED <<next_pts, start_timestamp, frame_rate_divisors_lcm, ids, start_ts, cur_pts,
                     active, now, frame, sessions>>
  BY DEF UpdateInv, Update, start, feed, control
<1>1. /\ MaxLead \in Nat /\ now \in Nat /\ start_timestamp \in Nat /\ next_pts \in Nat
      /\ frame_rate_divisors_lcm \in Nat \ {0} /\ reconfigure_request \in Nat
      /\ cur_pts \in [Encoders -> Nat]
  BY <1>0, LeadTypes
<1>2. Lead'
  BY <1>0, <1>1 DEF Lead
<1>3. Whole' = Whole /\ NobodyLeftOut' = NobodyLeftOut
  BY <1>0 DEF Whole, NobodyLeftOut
<1>4. reconfigure_request' > 0
  <2>1. \/ reconfigure_request' = reconfigure_request + 1
        \/ reconfigure_request' = reconfigure_request /\ reconfigure_request # 0
    BY DEF Update, NewRequest
  <2>2. PICK r \in {reconfigure_request, reconfigure_request + 1} :
           r = reconfigure_request' /\ (r = reconfigure_request + 1 \/ reconfigure_request # 0)
    BY <2>1, Zenon
  <2>3. r > 0
    <3>1. r = reconfigure_request + 1 \/ (r = reconfigure_request /\ reconfigure_request # 0)
      BY <2>2, Zenon
    <3>. QED  BY <1>1, <3>1
  <2>. QED  BY <2>2, <2>3, Zenon
<1>5. ASSUME Whole PROVE Owed'
  <2>1. TypeOK /\ GroupInv /\ active = Encoders /\ Counted /\ IdsInOrder /\ Owed
    BY <1>5 DEF UpdateInv, RequestInv, FirstSession, Whole, Requests
  <2>2. CASE NewRequest
    <3>1. ASSUME NEW f \in Encoders PROVE last_handled_reconfigure_request'[f] # reconfigure_request'
      BY <1>0, <1>1, <2>1, <2>2 DEF IdsInOrder, NewRequest, ids, TypeOK
    <3>2. Done' = {}
      BY <3>1 DEF Done
    <3>. QED  BY <1>4, <3>2, EncodersAssumption DEF Owed
  <2>3. CASE /\ reconfigure_request # 0 /\ encoders_reconfigured # Cardinality(Encoders)
             /\ reconfigure_request' = reconfigure_request
             /\ reconfigure_again' =
                 (\/ reconfigure_again
                  \/ last_handled_reconfigure_request[e] = reconfigure_request)
    <3>1. Done' = Done
      BY <1>0, <2>3 DEF Done, ids
    <3>2. Done # Encoders
      BY <1>1, <2>1, <2>3, CountersTell
    <3>3. pending' \cap Done' # {} => reconfigure_again'
      <4>1. pending \cap Done # {} \/ e \in Done => reconfigure_again'
        BY <2>1, <2>3 DEF Owed, Done
      <4>. QED  BY <1>0, <3>1, <4>1
    <3>. QED  BY <1>4, <3>1, <3>2, <3>3 DEF Owed
  <2>. QED  BY <2>2, <2>3 DEF Update
<1>6. ASSUME Whole, start_timestamp # Unset, NobodyLeftOut PROVE InTime'
  <2>1. PICK since \in Nat : since = Since' /\ since >= now /\ since >= start_timestamp
    <3>1. PICK t \in Nat : t = (IF now > start_timestamp THEN now ELSE start_timestamp)
                           /\ t >= now /\ t >= start_timestamp
      BY <1>1
    <3>2. t = Since'
      BY <1>0, <3>1, Zenon DEF Since
    <3>. QED  BY <3>1, <3>2, Zenon
  <2>2. PICK d \in Int : /\ d = Deadline' /\ d >= start_timestamp
                         /\ d >= now + frame_rate_divisors_lcm - 1
    <3>1. Deadline' = IF reconfigure_again' THEN since + frame_rate_divisors_lcm - 1
                      ELSE since + 2 * MaxLead + 3 * frame_rate_divisors_lcm - 3
      BY <1>0, <2>1, Zenon DEF Deadline
    <3>2. since \in Nat /\ since >= now /\ since >= start_timestamp
      BY <2>1, Zenon
    <3>3. /\ since + frame_rate_divisors_lcm - 1 \in Int
          /\ since + frame_rate_divisors_lcm - 1 >= start_timestamp
          /\ since + frame_rate_divisors_lcm - 1 >= now + frame_rate_divisors_lcm - 1
          /\ since + 2 * MaxLead + 3 * frame_rate_divisors_lcm - 3 \in Int
          /\ since + 2 * MaxLead + 3 * frame_rate_divisors_lcm - 3 >= start_timestamp
          /\ since + 2 * MaxLead + 3 * frame_rate_divisors_lcm - 3
                >= now + frame_rate_divisors_lcm - 1
      BY <1>1, <3>2
    <3>. QED  BY <3>1, <3>3, Zenon
  <2>3. d \in Int /\ d >= start_timestamp /\ d >= now + frame_rate_divisors_lcm - 1
    BY <2>2, Zenon
  <2>4. ASSUME NEW f \in Encoders PROVE start_timestamp + cur_pts[f] <= d
    <3>1. \/ start_timestamp + cur_pts[f] = start_timestamp
          \/ start_timestamp + cur_pts[f] <= now + frame_rate_divisors_lcm - 1
      BY <1>0, <1>6, StandsNear
    <3>2. cur_pts[f] \in Nat
      BY <1>1
    <3>. QED  BY <1>1, <2>3, <3>1, <3>2
  <2>5. ASSUME NEW f \in Encoders
        PROVE  \E c : c = cur_pts'[f] /\ start_timestamp + c <= d
    BY <1>0, <2>4, Zenon
  <2>6. start_timestamp + next_pts <= now - 1 + frame_rate_divisors_lcm
    BY <1>6 DEF UpdateInv, InTime
  <2>7. start_timestamp + next_pts <= d + MaxLead - 1 + frame_rate_divisors_lcm
    BY <1>1, <2>3, <2>6
  <2>8. next_pts = next_pts' /\ d = Deadline'
        /\ UNCHANGED <<start_timestamp, now, frame_rate_divisors_lcm>>
    BY <1>0, <2>2, Zenon
  <2>. QED  BY <2>5, <2>6, <2>7, <2>8, StillInTime
<1>. QED  BY <1>0, <1>2, <1>3, <1>4, <1>5, <1>6 DEF UpdateInv

(* The other steps: the clock goes on only as far as the frames may wait,  *)
(* and the start of the group sets the deadline.                           *)
LEMMA OtherUpdates ==
    ASSUME UpdateInv, Begin \/ End \/ Tick \/ AudioArrives \/ UNCHANGED vars, RequestInv'
    PROVE  UpdateInv'
<1>0. /\ RequestInv /\ Lead /\ now \in Nat /\ MaxLead \in Nat /\ frame \in [Encoders -> Nat]
      /\ active \subseteq Encoders
      /\ UNCHANGED <<requested, pending, asked, frame_rate_divisors_lcm, active, frame, start_ts>>
  <2>1. RequestInv /\ Lead
    BY DEF UpdateInv
  <2>2. UNCHANGED <<requested, pending, asked, frame_rate_divisors_lcm, active, frame, start_ts>>
    BY DEF Begin, End, Tick, AudioArrives, vars, start, feed, history, requested
  <2>. QED  BY <2>1, <2>2, LeadTypes
<1>1. CASE Begin
  <2>1. active = {} /\ UNCHANGED <<now, request>>
    BY <1>0, <1>1 DEF RequestInv, GroupInv, Phases, Begin
  <2>2. ~Whole' /\ Lead'
    BY <1>0, <2>1, EncodersAssumption DEF Whole, Lead
  <2>3. pending' # {} => reconfigure_request' > 0
    BY <1>0, <2>1 DEF UpdateInv, request
  <2>. QED  BY <2>2, <2>3 DEF UpdateInv
<1>2. CASE Tick
  <2>1. now' = now + 1 /\ UNCHANGED sessions /\ \A f \in active : now - frame[f] < MaxLead
    BY <1>2 DEF Tick, control
  <2>2. Lead'
    <3>1. ASSUME NEW f \in active PROVE now + 1 <= frame[f] + MaxLead
      BY <1>0, <2>1
    <3>2. asked <= now + 1
      <4>1. asked <= now /\ asked \in Nat
        BY <1>0, LeadTypes DEF Lead
      <4>. QED  BY <1>0, <4>1
    <3>3. now' = now + 1 /\ UNCHANGED <<asked, active, frame>>
      BY <1>0, <2>1
    <3>. QED  BY <3>1, <3>2, <3>3, Zenon DEF Lead
  <2>3. now' \in Nat /\ now' >= now
    BY <1>0, <2>1
  <2>4. NobodyLeftOut' => start_timestamp' # start_timestamp \/ NobodyLeftOut
    BY <1>0 DEF NobodyLeftOut
  <2>5. \/ start_timestamp' = start_timestamp
        \/ start_timestamp = Unset /\ start_timestamp' <= now' /\ start_timestamp' # Unset
    <3>1. now + 1 <= now + 1 /\ now + 1 # Unset
      BY <1>0
    <3>2. \/ start_timestamp' = start_timestamp
          \/ start_timestamp = Unset /\ start_timestamp' = now + 1
      BY <1>2, Zenon DEF Tick, StartFrame
    <3>. QED  BY <2>1, <3>1, <3>2, Zenon
  <2>. QED  BY <1>0, <2>1, <2>2, <2>3, <2>4, <2>5, UpdatesStay
<1>3. CASE End \/ AudioArrives \/ UNCHANGED vars
  <2>1. UNCHANGED <<now, sessions, start_timestamp>>
    BY <1>3 DEF End, AudioArrives, vars, control, start
  <2>2. Lead' /\ (NobodyLeftOut' => NobodyLeftOut)
    BY <1>0, <2>1 DEF Lead, NobodyLeftOut
  <2>3. now' \in Nat /\ now' >= now
    BY <1>0, <2>1
  <2>. QED  BY <1>0, <2>1, <2>2, <2>3, UpdatesStay
<1>. QED  BY <1>1, <1>2, <1>3

(* A step keeps the deadline.                                              *)
LEMMA StepUpdates ==
    ASSUME UpdateInv, [Next]_vars
    PROVE  UpdateInv'
<1>1. RequestInv'
  BY StepRequests DEF UpdateInv
<1>2. CASE Begin \/ End \/ Tick \/ AudioArrives \/ UNCHANGED vars
  BY <1>1, <1>2, OtherUpdates
<1>3. ASSUME NEW e \in Encoders, StartEncoder(e) \/ Receive(e) \/ Update(e) PROVE UpdateInv'
  BY <1>1, <1>3, StartUpdates, ReceiveUpdates, UpdateUpdates
<1>4. ASSUME NEW e \in Encoders, StopEncoder(e) \/ Fail(e) PROVE UpdateInv'
  <2>1. e \in active /\ RemoveConnection(e) /\ UNCHANGED <<now, frame>>
    BY <1>4 DEF StopEncoder, Fail
  <2>. QED  BY <1>1, <2>1, LeaveUpdates
<1>. QED  BY <1>2, <1>3, <1>4 DEF Next

(* While an update is pending some encoder has not reached its deadline.   *)
LEMMA OneIsBehind ==
    ASSUME UpdateInv, sessions <= 1, \A e \in Encoders : Running(e), pending # {}
    PROVE  UpdateApplied
<1>1. RequestInv /\ Whole /\ start_timestamp # Unset /\ NobodyLeftOut
  <2>1. RequestInv /\ active = Encoders /\ \A e \in Encoders : start_ts[e] # Unset
    <3>1. active \subseteq Encoders
      BY DEF UpdateInv, RequestInv, GroupInv, Clocks
    <3>. QED  BY <3>1 DEF UpdateInv, Running
  <2>2. PICK e \in Encoders : TRUE
    BY EncodersAssumption
  <2>3. start_ts[e] = start_timestamp
    BY <2>1, <2>2 DEF RequestInv, GroupInv, InStep
  <2>. QED  BY <2>1, <2>3 DEF Whole, NobodyLeftOut
<1>2. InTime /\ Owed /\ NobodyPast /\ Within /\ reconfigure_request > 0
  <2>1. InTime /\ Owed /\ NobodyPast /\ reconfigure_request > 0
    BY <1>1 DEF UpdateInv, RequestInv, FirstSession, Requests
  <2>. QED  BY <2>1 DEF InTime
<1>3. /\ MaxLead \in Nat /\ asked \in Nat /\ start_timestamp \in Nat /\ Since \in {asked, start_timestamp}
      /\ frame \in [Encoders -> Nat] /\ cur_pts \in [Encoders -> Nat] /\ next_pts \in Nat
      /\ frame_rate_divisors_lcm \in Nat \ {0}
  BY <1>1, LeadTypes DEF Since
<1>4. PICK d \in Int : d = Deadline /\ d <= Since + 2 * MaxLead + 3 * frame_rate_divisors_lcm - 3
  BY <1>3 DEF Deadline
<1>5. ASSUME NEW f \in Encoders PROVE frame[f] <= start_timestamp + cur_pts[f]
  <2>1. InStep(f) /\ start_ts[f] # Unset /\ Clocks
    BY <1>1 DEF RequestInv, GroupInv, Running, Whole
  <2>2. start_timestamp + cur_pts[f] = frame[f] + UntilNext(f) /\ UntilNext(f) \in Nat
    <3>1. counter[f] \in Nat /\ counter[f] < Divisor[f] /\ Divisor[f] \in Nat
      BY <2>1 DEF Clocks
    <3>. QED  BY <2>1, <3>1 DEF InStep, UntilNext
  <2>. QED  BY <1>3, <2>2
<1>6. PICK f \in Encoders :
        start_timestamp + cur_pts[f] <= d + MaxLead - 1 + frame_rate_divisors_lcm
        \/ start_timestamp + cur_pts[f] <= d
  <2>1. CASE Seen # Encoders
    <3>1. PICK f \in Encoders : f \notin Seen
      BY <2>1 DEF Seen
    <3>. QED  BY <1>2, <1>4, <3>1 DEF Within
  <2>2. CASE Seen = Encoders
    <3>1. PICK f \in Encoders : f \notin Done
      BY <1>2 DEF Owed, Done
    <3>2. cur_pts[f] <= next_pts /\ cur_pts[f] \in Nat
      BY <1>2, <1>3, <2>2, <3>1 DEF NobodyPast
    <3>3. start_timestamp + next_pts <= d + MaxLead - 1 + frame_rate_divisors_lcm
      BY <1>2, <1>4, <2>2 DEF Within, InProgress
    <3>4. start_timestamp + cur_pts[f] <= d + MaxLead - 1 + frame_rate_divisors_lcm
      BY <1>3, <3>2, <3>3
    <3>. QED  BY <3>4
  <2>. QED  BY <2>1, <2>2
<1>7. frame[f] < Since + Patience
  <2>1. cur_pts[f] \in Nat /\ frame[f] \in Nat /\ Since \in Nat
    BY <1>3
  <2>. QED  BY <1>3, <1>4, <1>5, <1>6, <2>1 DEF Patience
<1>. QED  BY <1>3, <1>7 DEF UpdateApplied

(* obs_encoder_update: in its first session a group that encodes applies   *)
(* an update within two rounds of a request, each of them a lead and two   *)
(* common intervals at most.                                               *)
THEOREM UpdatesApplied == Spec => [](sessions <= 1 => UpdateApplied)
<1>1. UpdateInv => (sessions <= 1 => UpdateApplied)
  BY OneIsBehind DEF UpdateApplied
<1>. QED  BY InitUpdates, StepUpdates, <1>1, PTL DEF Spec
=============================================================================
