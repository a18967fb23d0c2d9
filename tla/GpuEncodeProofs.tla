---------------------------- MODULE GpuEncodeProofs ----------------------------
(***************************************************************************)
(* Proofs about GpuEncode for every number of encoders, textures and       *)
(* ticks: raw frames go out under their own time, a texture that waits to  *)
(* be encoded keeps its picture, no tick is lost, and an encoder that was  *)
(* stopped is given no more frames.                                        *)
(***************************************************************************)
EXTENDS GpuEncode, FoldLemmas, FiniteSetTheorems, TLAPS

-----------------------------------------------------------------------------
(* The queues of textures                                                  *)

\* e is one of the elements of s.
InList(s, e) == \E i \in DOMAIN s : s[i] = e

\* The queues of textures, as queue_frame changes them.
QType == [avail : Seq(Textures), queue : Seq(TexFrames), convert : Textures,
          contents : [Textures -> Nat], posts : Nat]

\* No texture is in two places: free, waiting, rendered into, or among those
\* in hand, H.
Apart(q, H) ==
    /\ \A i, j \in DOMAIN q.avail : q.avail[i] = q.avail[j] => i = j
    /\ \A i, j \in DOMAIN q.queue : q.queue[i].tex = q.queue[j].tex => i = j
    /\ \A i \in DOMAIN q.avail, j \in DOMAIN q.queue : q.avail[i] # q.queue[j].tex
    /\ \A i \in DOMAIN q.avail : q.avail[i] # q.convert /\ q.avail[i] \notin H
    /\ \A j \in DOMAIN q.queue : q.queue[j].tex # q.convert /\ q.queue[j].tex \notin H
    /\ q.convert \notin H

\* A frame that waits has ticks left and its picture.
Whole(q) ==
    \A j \in DOMAIN q.queue : /\ q.queue[j].tex \in Textures /\ q.queue[j].count > 0
                              /\ q.contents[q.queue[j].tex] = q.queue[j].picture

\* No texture is lost.
Covers(q, H) ==
    \A t \in Textures : \/ t = q.convert \/ t \in H
                        \/ \E i \in DOMAIN q.avail : q.avail[i] = t
                        \/ \E j \in DOMAIN q.queue : q.queue[j].tex = t

(* A frame has a number of ticks.                                          *)
LEMMA TexFrameCount == \A x \in TexFrames : x.count \in Nat
BY DEF TexFrames

(* An empty queue has no tick to encode.                                   *)
LEMMA TicksOfEmpty == TicksOf(<<>>) = 0
<1>1. [i \in DOMAIN <<>> |-> <<>>[i].count] = <<>>
  OBVIOUS
<1>. QED  BY <1>1, SumEmpty, Zenon DEF TicksOf

(* The ticks of a queue are a number.                                      *)
LEMMA TicksOfType ==
    ASSUME NEW w \in Seq(TexFrames)
    PROVE  TicksOf(w) \in Int
<1>0. \A i \in 1..Len(w) : w[i].count \in Int
  BY TexFrameCount
<1>1. [i \in DOMAIN w |-> w[i].count] \in Seq(Int)
  BY <1>0
<1>. QED  BY <1>1, SumType DEF TicksOf

(* A queued frame adds its ticks to the others.                            *)
LEMMA TicksOfAppend ==
    ASSUME NEW w \in Seq(TexFrames), NEW f \in TexFrames
    PROVE  TicksOf(Append(w, f)) = TicksOf(w) + f.count
<1> DEFINE g == [i \in DOMAIN w |-> w[i].count]
<1> DEFINE r == [i \in DOMAIN Append(w, f) |-> Append(w, f)[i].count]
<1>1. f.count \in Int /\ \A i \in 1..Len(w) : w[i].count \in Int
  BY TexFrameCount
<1>2. g \in Seq(Int) /\ f.count \in Int
  BY <1>1
<1>4. r = Append(g, f.count)
  OBVIOUS
<1>5. FoldLeft(+, 0, r) = FoldLeft(+, 0, g) + f.count
  <2> HIDE DEF g, r
  <2>. QED  BY <1>2, <1>4, SumAppend
<1>. QED  BY <1>5, Zenon DEF TicksOf

(* The oldest frame and the rest share the ticks.                          *)
LEMMA TicksOfPrepend ==
    ASSUME NEW w \in Seq(TexFrames), NEW f \in TexFrames
    PROVE  TicksOf(<<f>> \o w) = f.count + TicksOf(w)
<1> DEFINE g == [i \in DOMAIN w |-> w[i].count]
<1> DEFINE r == [i \in DOMAIN (<<f>> \o w) |-> (<<f>> \o w)[i].count]
<1>1. f.count \in Int /\ \A i \in 1..Len(w) : w[i].count \in Int
  BY TexFrameCount
<1>2. g \in Seq(Int) /\ f.count \in Int
  BY <1>1
<1>4. r = <<f.count>> \o g
  OBVIOUS
<1>5. FoldLeft(+, 0, r) = f.count + FoldLeft(+, 0, g)
  <2> HIDE DEF g, r
  <2>. QED  BY <1>2, <1>4, SumPrepend
<1>. QED  BY <1>5, Zenon DEF TicksOf

(* queue_frame, a texture of its own: the texture comes from the free      *)
(* ones, the picture goes with it, and there is one tick and one post      *)
(* more.                                                                   *)
LEMMA QueueNewGood ==
    ASSUME NEW q \in QType, NEW H, Apart(q, H), Whole(q), q.avail # <<>>,
           NEW timestamp \in Nat, NEW copy \in BOOLEAN
    PROVE  LET r == QueueNew(q, timestamp, copy)
           IN /\ r \in QType /\ Apart(r, H) /\ Whole(r) /\ (Covers(q, H) => Covers(r, H))
              /\ \A t \in H : r.contents[t] = q.contents[t]
              /\ r.posts = q.posts + 1 /\ TicksOf(r.queue) = TicksOf(q.queue) + 1
<1> DEFINE head == Head(q.avail)
<1> DEFINE tex == IF copy THEN head ELSE q.convert
<1> DEFINE f == [tex |-> tex, timestamp |-> timestamp, count |-> 1,
                 picture |-> q.contents[q.convert]]
<1> DEFINE r == QueueNew(q, timestamp, copy)
<1>0. /\ q.avail \in Seq(Textures) /\ q.queue \in Seq(TexFrames) /\ q.convert \in Textures
      /\ q.contents \in [Textures -> Nat] /\ q.posts \in Nat
  BY DEF QType
<1>1. /\ head \in Textures /\ head = q.avail[1] /\ Len(q.avail) \in Nat \ {0}
      /\ Tail(q.avail) \in Seq(Textures) /\ Len(Tail(q.avail)) = Len(q.avail) - 1
      /\ \A i \in 1..Len(q.avail) - 1 : Tail(q.avail)[i] = q.avail[i + 1]
  BY <1>0
<1>2. f \in TexFrames /\ f.tex = tex /\ f.count = 1 /\ f.picture = q.contents[q.convert] /\ tex \in Textures
  BY <1>0, <1>1 DEF TexFrames
<1>3. /\ r.avail = Tail(q.avail) /\ r.queue = Append(q.queue, f)
      /\ r.convert = (IF copy THEN q.convert ELSE head)
      /\ r.contents = [q.contents EXCEPT ![tex] = q.contents[q.convert]]
      /\ r.posts = q.posts + 1
  BY Zenon DEF QueueNew, Exchanged
<1>4. r \in QType
  <2>1. Append(q.queue, f) \in Seq(TexFrames) /\ r.convert \in Textures /\ q.posts + 1 \in Nat
    BY <1>0, <1>1, <1>2, <1>3
  <2>2. [q.contents EXCEPT ![tex] = q.contents[q.convert]] \in [Textures -> Nat]
    BY <1>0, <1>2
  <2>3. r = [avail |-> r.avail, queue |-> r.queue, convert |-> r.convert, contents |-> r.contents,
             posts |-> r.posts]
    BY DEF QueueNew
  <2>. QED  BY <1>1, <1>3, <2>1, <2>2, <2>3 DEF QType
<1>5. /\ Append(q.queue, f) \in Seq(TexFrames) /\ Len(Append(q.queue, f)) = Len(q.queue) + 1
      /\ \A j \in 1..Len(q.queue) : Append(q.queue, f)[j] = q.queue[j]
      /\ Append(q.queue, f)[Len(q.queue) + 1] = f
      /\ Len(q.queue) \in Nat
  <2> HIDE DEF f
  <2>. QED  BY <1>0, <1>2
<1>6. TicksOf(r.queue) = TicksOf(q.queue) + 1
  BY <1>0, <1>2, <1>3, TicksOfAppend
<1>7. /\ DOMAIN r.avail = 1..Len(q.avail) - 1
      /\ \A i \in 1..Len(q.avail) - 1 : r.avail[i] = q.avail[i + 1]
      /\ DOMAIN r.queue = 1..Len(q.queue) + 1
      /\ \A j \in 1..Len(q.queue) + 1 : r.queue[j] = IF j = Len(q.queue) + 1 THEN f ELSE q.queue[j]
      /\ DOMAIN q.avail = 1..Len(q.avail) /\ DOMAIN q.queue = 1..Len(q.queue)
  <2> HIDE DEF f, r
  <2>. QED  BY <1>0, <1>1, <1>3, <1>5
<1>8. /\ \A i \in 1..Len(q.avail) : q.avail[i] = head => i = 1
      /\ \A t \in Textures : r.contents[t] = IF t = tex THEN q.contents[q.convert] ELSE q.contents[t]
      /\ \A j \in 1..Len(q.queue) : q.queue[j].tex # tex
      /\ tex \notin H
  <2>1. \A i \in 1..Len(q.avail) : q.avail[i] = head => i = 1
    <3> HIDE DEF r, f, head
    <3>1. \A i, j \in 1..Len(q.avail) : q.avail[i] = q.avail[j] => i = j
      BY <1>7, Zenon DEF Apart
    <3>2. 1 \in 1..Len(q.avail) /\ head = q.avail[1]
      BY <1>1
    <3>. QED  BY <3>1, <3>2, Zenon
  <2>2. \A t \in Textures : r.contents[t] = IF t = tex THEN q.contents[q.convert] ELSE q.contents[t]
    <3> HIDE DEF r, f, head
    <3>. QED  BY <1>0, <1>2, <1>3
  <2>3. (\A j \in 1..Len(q.queue) : q.queue[j].tex # tex) /\ tex \notin H
    <3> HIDE DEF r, f, head
    <3>. QED  BY <1>1, <1>7 DEF Apart
  <2>. QED  BY <2>1, <2>2, <2>3, Zenon
<1> HIDE DEF r, f, head
<1>9. Apart(r, H)
  <2>1. /\ \A i, j \in 1..Len(q.avail) : q.avail[i] = q.avail[j] => i = j
        /\ \A i, j \in 1..Len(q.queue) : q.queue[i].tex = q.queue[j].tex => i = j
        /\ \A i \in 1..Len(q.avail), j \in 1..Len(q.queue) : q.avail[i] # q.queue[j].tex
        /\ \A i \in 1..Len(q.avail) : q.avail[i] # q.convert /\ q.avail[i] \notin H
        /\ \A j \in 1..Len(q.queue) : q.queue[j].tex # q.convert /\ q.queue[j].tex \notin H
        /\ q.convert \notin H
    BY <1>7, Zenon DEF Apart
  <2>2. \A i, j \in DOMAIN r.avail : r.avail[i] = r.avail[j] => i = j
    <3> SUFFICES ASSUME NEW i \in 1..Len(q.avail) - 1, NEW j \in 1..Len(q.avail) - 1,
                        r.avail[i] = r.avail[j]
                 PROVE  i = j
      BY <1>7, Zenon
    <3>1. i + 1 \in 1..Len(q.avail) /\ j + 1 \in 1..Len(q.avail)
      BY <1>1
    <3>2. q.avail[i + 1] = q.avail[j + 1]
      BY <1>7, Zenon
    <3>3. i + 1 = j + 1
      BY <2>1, <3>1, <3>2, Zenon
    <3>. QED  BY <3>3
  <2>3. \A i, j \in DOMAIN r.queue : r.queue[i].tex = r.queue[j].tex => i = j
    <3>1. \A j \in 1..Len(q.queue) + 1 : j # Len(q.queue) + 1 => j \in 1..Len(q.queue)
      BY <1>5
    <3>2. \A j \in 1..Len(q.queue) + 1 :
              r.queue[j].tex = IF j = Len(q.queue) + 1 THEN tex ELSE q.queue[j].tex
      BY <1>2, <1>7
    <3> DEFINE m == Len(q.queue) + 1
    <3> HIDE DEF m
    <3>3. \A i, j \in 1..m : r.queue[i].tex = r.queue[j].tex => i = j
      BY <1>8, <2>1, <3>1, <3>2 DEF m
    <3>. QED  BY <1>7, <3>3, Zenon DEF m
  <2>4. \A i \in 1..Len(q.avail) - 1 : /\ i + 1 \in 1..Len(q.avail) /\ r.avail[i] = q.avail[i + 1]
                                      /\ r.avail[i] # head /\ r.avail[i] # q.convert /\ r.avail[i] \notin H
    <3>1. ASSUME NEW i \in 1..Len(q.avail) - 1 PROVE i + 1 \in 1..Len(q.avail) /\ i + 1 # 1
      BY <1>1
    <3>. QED  BY <1>7, <1>8, <2>1, <3>1
  <2>5. \A i \in DOMAIN r.avail, j \in DOMAIN r.queue : r.avail[i] # r.queue[j].tex
    <3> SUFFICES ASSUME NEW i \in DOMAIN r.avail, NEW j \in DOMAIN r.queue
                 PROVE  r.avail[i] # r.queue[j].tex
      OBVIOUS
    <3>1. CASE j = Len(q.queue) + 1
      BY <1>2, <1>7, <2>4, <3>1
    <3>2. CASE j # Len(q.queue) + 1
      <4>1. j \in 1..Len(q.queue) /\ r.queue[j] = q.queue[j]
        BY <1>5, <1>7, <3>2
      <4>. QED  BY <1>7, <2>1, <2>4, <4>1
    <3>. QED  BY <3>1, <3>2
  <2>6. \A i \in DOMAIN r.avail : r.avail[i] # r.convert /\ r.avail[i] \notin H
    BY <1>3, <1>7, <2>4
  <2>7. r.convert # tex /\ r.convert \notin H /\ \A j \in 1..Len(q.queue) : q.queue[j].tex # r.convert
    <3>1. 1 \in 1..Len(q.avail) /\ head = q.avail[1]
      BY <1>1
    <3>. QED  BY <1>3, <2>1, <3>1
  <2>8. \A j \in DOMAIN r.queue : r.queue[j].tex # r.convert /\ r.queue[j].tex \notin H
    BY <1>2, <1>5, <1>7, <1>8, <2>1, <2>7
  <2>. QED  BY <2>2, <2>3, <2>5, <2>6, <2>7, <2>8, Zenon DEF Apart
<1>10. Whole(r)
  BY <1>1, <1>2, <1>3, <1>7, <1>8 DEF Whole
<1>11. ASSUME Covers(q, H) PROVE Covers(r, H)
  <2> SUFFICES ASSUME NEW t \in Textures, t # r.convert, t \notin H
               PROVE  \/ \E i \in DOMAIN r.avail : r.avail[i] = t
                      \/ \E j \in DOMAIN r.queue : r.queue[j].tex = t
    BY DEF Covers
  <2>1. CASE t = tex
    BY <1>2, <1>5, <1>7, <2>1
  <2>2. CASE t # tex
    <3>1. t # head /\ t # q.convert
      BY <1>3, <2>2
    <3>2. CASE \E i \in DOMAIN q.avail : q.avail[i] = t
      <4>1. PICK i \in DOMAIN q.avail : q.avail[i] = t
        BY <3>2
      <4>2. i # 1 /\ i - 1 \in 1..Len(q.avail) - 1 /\ (i - 1) + 1 = i
        BY <1>1, <1>7, <3>1, <4>1
      <4>. QED  BY <1>7, <4>1, <4>2
    <3>3. CASE \E j \in DOMAIN q.queue : q.queue[j].tex = t
      BY <1>5, <1>7, <3>3
    <3>. QED  BY <1>11, <3>1, <3>2, <3>3 DEF Covers
  <2>. QED  BY <2>1, <2>2
<1>12. \A t \in H : r.contents[t] = q.contents[t]
  <2>1. ASSUME NEW t \in H PROVE r.contents[t] = q.contents[t]
    <3>1. t # tex
      BY <1>8
    <3>. QED  BY <1>0, <1>2, <1>3, <3>1
  <2>. QED  BY <2>1
<1>. QED  BY <1>3, <1>4, <1>6, <1>9, <1>10, <1>11, <1>12 DEF r

(* queue_frame, a duplicate: the youngest frame gets the tick, with a      *)
(* post.                                                                   *)
LEMMA QueueDuplicateGood ==
    ASSUME NEW q \in QType, NEW H, Apart(q, H), Whole(q), q.queue # <<>>
    PROVE  LET r == QueueDuplicate(q)
           IN /\ r \in QType /\ Apart(r, H) /\ Whole(r) /\ (Covers(q, H) => Covers(r, H))
              /\ \A t \in H : r.contents[t] = q.contents[t]
              /\ r.posts = q.posts + 1 /\ TicksOf(r.queue) = TicksOf(q.queue) + 1
<1> DEFINE n == Len(q.queue)
<1> DEFINE last == q.queue[n]
<1> DEFINE more == [last EXCEPT !.count = @ + 1]
<1> DEFINE r == QueueDuplicate(q)
<1>0. /\ q.avail \in Seq(Textures) /\ q.queue \in Seq(TexFrames) /\ q.convert \in Textures
      /\ q.contents \in [Textures -> Nat] /\ q.posts \in Nat
  BY DEF QType
<1>1. n \in Nat \ {0} /\ last \in TexFrames /\ DOMAIN q.queue = 1..n
  BY <1>0
<1>2. more \in TexFrames /\ more.count = last.count + 1 /\ more.tex = last.tex
      /\ more.picture = last.picture /\ last.count \in Nat
  <2> HIDE DEF last
  <2>. QED  BY <1>1 DEF TexFrames
<1>3. /\ r.avail = q.avail /\ r.convert = q.convert /\ r.contents = q.contents /\ r.posts = q.posts + 1
      /\ r.queue = [q.queue EXCEPT ![n] = more]
  BY <1>0, <1>1 DEF QueueDuplicate, PostDuplicate, QType
<1>4. r = [q EXCEPT !.queue = [q.queue EXCEPT ![n] = more], !.posts = q.posts + 1]
  BY DEF QueueDuplicate, PostDuplicate, QType
<1>5. PICK front \in Seq(TexFrames) : q.queue = Append(front, last)
  BY <1>0, SplitLast
<1> HIDE DEF n, last, more, r
<1>6. n = Len(front) + 1
  BY <1>1, <1>5 DEF n
<1>7. r.queue = Append(front, more)
  BY <1>1, <1>2, <1>3, <1>5, <1>6, ReplaceLast
<1>8. TicksOf(r.queue) = TicksOf(q.queue) + 1
  <2>1. TicksOf(r.queue) = TicksOf(front) + more.count
    BY <1>2, <1>7, TicksOfAppend
  <2>2. TicksOf(q.queue) = TicksOf(front) + last.count /\ TicksOf(front) \in Int
    BY <1>1, <1>5, TicksOfAppend, TicksOfType
  <2>. QED  BY <1>2, <2>1, <2>2
<1>9. r \in QType
  <2>1. r.queue \in Seq(TexFrames) /\ q.posts + 1 \in Nat
    BY <1>0, <1>2, <1>7
  <2>. QED  BY <1>3, <1>4, <2>1 DEF QType
<1>10. /\ DOMAIN r.queue = DOMAIN q.queue
       /\ \A j \in DOMAIN q.queue : /\ r.queue[j].tex = q.queue[j].tex
                                    /\ r.queue[j].picture = q.queue[j].picture
                                    /\ (q.queue[j].count > 0 => r.queue[j].count > 0)
  BY <1>0, <1>1, <1>2, <1>3 DEF last, n
<1>11. Apart(r, H)
  BY <1>3, <1>10 DEF Apart
<1>12. Whole(r)
  BY <1>3, <1>10 DEF Whole
<1>13. Covers(q, H) => Covers(r, H)
  BY <1>3, <1>10 DEF Covers
<1>. QED  BY <1>3, <1>8, <1>9, <1>11, <1>12, <1>13 DEF r

\* At most one texture is in hand.
Small(H) == \E h : H \subseteq {h}

(* With more than two textures, the one rendered into and the one in hand  *)
(* are not all.                                                            *)
LEMMA ManyTextures ==
    ASSUME NEW H, Small(H), NEW x
    PROVE  \E t \in Textures : t # x /\ t \notin H
<1>1. PICK h : H \subseteq {h}
  BY DEF Small
<1>2. IsFiniteSet({x, h}) /\ Cardinality({x, h}) <= 2
  <2>1. IsFiniteSet({x}) /\ Cardinality({x}) = 1
    BY FS_Singleton, Zenon
  <2>2. {x, h} = {x} \cup {h}
    OBVIOUS
  <2>3. IsFiniteSet({x} \cup {h}) /\ Cardinality({x} \cup {h}) = IF h \in {x} THEN Cardinality({x}) ELSE Cardinality({x}) + 1
    BY <2>1, FS_AddElement, Zenon
  <2>. QED  BY <2>1, <2>2, <2>3
<1>3. SUFFICES ASSUME Textures \subseteq {x, h} PROVE FALSE
  BY <1>1
<1>4. Cardinality(Textures) <= Cardinality({x, h})
  BY <1>2, <1>3, FS_Subset, Zenon
<1>. QED
  BY <1>2, <1>4, TexturesAssumption, FS_CardinalityType

\* What the queues are between two steps.
Good(H) == {q \in QType : Apart(q, H) /\ Whole(q)}

\* n more ticks went from q to r.
Fed(q, r, H, n) ==
    /\ \A t \in H : r.contents[t] = q.contents[t]
    /\ Covers(q, H) /\ Small(H) =>
          /\ Covers(r, H)
          /\ r.posts = q.posts + n /\ TicksOf(r.queue) = TicksOf(q.queue) + n
    /\ q.avail = <<>> /\ q.queue = <<>> => r = q
    /\ q.queue # <<>> => r.queue # <<>>

(* queue_frame removes nothing.                                            *)
LEMMA AddsToQueue ==
    ASSUME NEW q \in QType, NEW timestamp, NEW copy
    PROVE  /\ QueueNew(q, timestamp, copy).queue # <<>>
           /\ q.queue # <<>> => QueueDuplicate(q).queue # <<>>
<1>0. q.queue \in Seq(TexFrames)
  BY DEF QType
<1>1. \A x : Append(q.queue, x) # <<>>
  BY <1>0
<1>2. QueueNew(q, timestamp, copy).queue # <<>>
  BY <1>1 DEF QueueNew
<1>3. ASSUME q.queue # <<>> PROVE QueueDuplicate(q).queue # <<>>
  <2>1. \E c : QueueDuplicate(q).queue = [q.queue EXCEPT ![Len(q.queue)].count = c]
    BY DEF QueueDuplicate, QType
  <2>2. DOMAIN QueueDuplicate(q).queue = DOMAIN q.queue
    BY <2>1
  <2>3. DOMAIN q.queue # {}
    <3>1. PICK w \in Seq(TexFrames) : w = q.queue
      BY <1>0
    <3>2. Len(w) # 0 /\ DOMAIN w = 1..Len(w) /\ Len(w) \in Nat
      BY <1>3, <3>1
    <3>3. 1 \in 1..Len(w)
      BY <3>2
    <3>. QED  BY <3>1, <3>2, <3>3
  <2>4. DOMAIN <<>> = {}
    OBVIOUS
  <2>. QED  BY <2>2, <2>3, <2>4, Zenon
<1>. QED  BY <1>2, <1>3, Zenon

(* queue_frame never finds both queues empty while the textures are shared *)
(* out, so each call queues one tick and posts once.                       *)
LEMMA QueueFrameGood ==
    ASSUME NEW H, NEW q \in Good(H), NEW count \in Nat, NEW timestamp \in Nat,
           raw_was_active \in BOOLEAN
    PROVE  /\ QueueFrame(q, count, timestamp) \in Good(H)
           /\ Fed(q, QueueFrame(q, count, timestamp), H, 1)
<1>0. q \in QType /\ Apart(q, H) /\ Whole(q)
  BY DEF Good
<1>1. CASE q.avail = <<>> /\ q.queue = <<>>
  <2>1. QueueFrame(q, count, timestamp) = q
    BY <1>1 DEF QueueFrame
  <2>2. ~(Covers(q, H) /\ Small(H))
    <3>1. DOMAIN q.avail = {} /\ DOMAIN q.queue = {}
      BY <1>1
    <3>2. ASSUME Small(H) PROVE \E t \in Textures : t # q.convert /\ t \notin H
      BY <3>2, ManyTextures
    <3>. QED  BY <3>1, <3>2, Zenon DEF Covers
  <2>. QED  BY <1>0, <2>1, <2>2, Zenon DEF Fed, Good
<1>2. CASE q.queue # <<>> /\ (q.avail = <<>> \/ (q.queue # <<>> /\ count > 1))
  <2>1. QueueFrame(q, count, timestamp) = QueueDuplicate(q)
    BY <1>2, Zenon DEF QueueFrame
  <2> DEFINE r == QueueDuplicate(q)
  <2>3. /\ r \in QType /\ Apart(r, H) /\ Whole(r) /\ (Covers(q, H) => Covers(r, H))
        /\ \A t \in H : r.contents[t] = q.contents[t]
        /\ r.posts = q.posts + 1 /\ TicksOf(r.queue) = TicksOf(q.queue) + 1
    BY <1>0, <1>2, QueueDuplicateGood
  <2>4. QueueFrame(q, count, timestamp) = r
    BY <2>1, Zenon
  <2> HIDE DEF r
  <2>5. Fed(q, r, H, 1)
    <3>1. r.queue # <<>>
      BY <1>0, <1>2, AddsToQueue, Zenon DEF r
    <3>. QED  BY <1>2, <2>3, <3>1, Zenon DEF Fed
  <2>6. r \in Good(H)
    BY <2>3, Zenon DEF Good
  <2>. QED  BY <2>4, <2>5, <2>6, Zenon
<1>3. CASE q.avail # <<>> /\ ~(q.queue # <<>> /\ count > 1)
  <2>1. PICK copy \in BOOLEAN : copy = (raw_was_active \/ count > 1)
    OBVIOUS
  <2>2. QueueFrame(q, count, timestamp) = QueueNew(q, timestamp, copy)
    BY <1>3, <2>1, Zenon DEF QueueFrame
  <2> DEFINE r == QueueNew(q, timestamp, copy)
  <2>3. /\ r \in QType /\ Apart(r, H) /\ Whole(r) /\ (Covers(q, H) => Covers(r, H))
        /\ \A t \in H : r.contents[t] = q.contents[t]
        /\ r.posts = q.posts + 1 /\ TicksOf(r.queue) = TicksOf(q.queue) + 1
    BY <1>0, <1>3, QueueNewGood
  <2>4. QueueFrame(q, count, timestamp) = r
    BY <2>2, Zenon
  <2> HIDE DEF r
  <2>5. Fed(q, r, H, 1)
    <3>1. r.queue # <<>>
      BY <1>0, AddsToQueue, Zenon DEF r
    <3>. QED  BY <1>3, <2>3, <3>1, Zenon DEF Fed
  <2>6. r \in Good(H)
    BY <2>3, Zenon DEF Good
  <2>. QED  BY <2>4, <2>5, <2>6, Zenon
<1>. QED  BY <1>1, <1>2, <1>3

(* What is counted in a queue is a number.                                 *)
LEMMA FedType ==
    ASSUME NEW H, NEW q \in Good(H)
    PROVE  q.posts \in Int /\ TicksOf(q.queue) \in Int
BY TicksOfType DEF Good, QType

(* encode_gpu: all ticks of a late frame are queued, one post each.        *)
LEMMA EncodeGpuGood ==
    ASSUME NEW H, NEW q \in Good(H), NEW info \in [timestamp : Nat, count : Nat \ {0}],
           raw_was_active \in BOOLEAN
    PROVE  EncodeGpu(q, info) \in Good(H) /\ Fed(q, EncodeGpu(q, info), H, info.count)
<1> DEFINE n == info.count
<1> DEFINE ts == info.timestamp
<1> DEFINE X == Good(H)
<1> DEFINE Eq(f) == f = [i \in 0..n |-> IF i = 0 THEN q ELSE QueueFrame(f[i - 1], n + 1 - i, ts)]
<1> DEFINE after == CHOOSE f : Eq(f)
<1> DEFINE step == [k \in 1..n |-> [x \in X |-> QueueFrame(x, n + 1 - k, ts)]]
<1>0. n \in Nat \ {0} /\ ts \in Nat
  OBVIOUS
<1>1. EncodeGpu(q, info) = after[n]
  BY Zenon DEF EncodeGpu
<1> HIDE DEF n, ts
<1>2. \A k \in 1..n : n + 1 - k \in Nat
  BY <1>0
<1>3. \A k \in 1..n, x \in X : QueueFrame(x, n + 1 - k, ts) \in X /\ Fed(x, QueueFrame(x, n + 1 - k, ts), H, 1)
  BY <1>0, <1>2, QueueFrameGood
<1>4. step \in [1..n -> [X -> X]] /\ \A k \in 1..n, x \in X : step[k][x] = QueueFrame(x, n + 1 - k, ts)
  <2> HIDE DEF X
  <2>. QED  BY <1>3
<1> HIDE DEF step, X
<1>5. PICK f : Solves(f, n, X, q, step)
  <2>1. q \in X /\ n \in Nat
    BY <1>0 DEF X
  <2>. QED  BY <1>4, <2>1, RecursionHasSolution
<1>6. f \in [0..n -> X] /\ f[0] = q /\ \A k \in 1..n : f[k] = QueueFrame(f[k - 1], n + 1 - k, ts)
  <2>1. f \in [0..n -> X] /\ f[0] = q /\ \A k \in 1..n : f[k] = step[k][f[k - 1]]
    BY <1>5, Zenon DEF Solves
  <2>2. \A k \in 1..n : f[k - 1] \in X
    BY <1>0, <2>1
  <2>. QED  BY <1>4, <2>1, <2>2, Zenon
<1>7. Eq(f)
  <2>1. \A i \in 0..n : f[i] = IF i = 0 THEN q ELSE QueueFrame(f[i - 1], n + 1 - i, ts)
    <3>1. \A i \in 0..n : i # 0 => i \in 1..n
      BY <1>0
    <3>. QED  BY <1>6, <3>1, Zenon
  <2>2. f = [i \in 0..n |-> f[i]]
    BY <1>6
  <2>. QED  BY <2>1, <2>2
<1>8. Eq(after)
  <2> HIDE DEF Eq
  <2>. QED  BY <1>7, Zenon
<1> HIDE DEF after
<1>9. after[0] = q /\ \A k \in 1..n : after[k] = QueueFrame(after[k - 1], n + 1 - k, ts)
  <2>1. 0 \in 0..n /\ \A k \in 1..n : k \in 0..n /\ k # 0
    BY <1>0
  <2>. QED  BY <1>8, <2>1
<1> HIDE DEF Eq
<1> DEFINE S == {k \in 0..n : after[k] \in X /\ Fed(q, after[k], H, k)}
<1>10. 0 \in S
  <2>1. q \in X /\ 0 \in 0..n
    BY <1>0 DEF X
  <2>2. Fed(q, q, H, 0)
    BY FedType DEF Fed
  <2>. QED  BY <1>9, <2>1, <2>2
<1>11. ASSUME NEW k \in 0..n - 1, k \in S PROVE k + 1 \in S
  <2>1. k + 1 \in 1..n /\ k + 1 \in 0..n /\ (k + 1) - 1 = k /\ k \in Int
    BY <1>0
  <2>2. after[k] \in X /\ Fed(q, after[k], H, k)
    BY <1>11
  <2> DEFINE a == after[k]
  <2> DEFINE b == after[k + 1]
  <2>3. b = QueueFrame(a, n + 1 - (k + 1), ts)
    <3>1. after[k + 1] = QueueFrame(after[(k + 1) - 1], n + 1 - (k + 1), ts)
      BY <1>9, <2>1, Zenon
    <3>. QED  BY <2>1, <3>1
  <2>4. b \in X /\ Fed(a, b, H, 1)
    BY <1>3, <2>1, <2>2, <2>3, Zenon
  <2>5. /\ q.posts \in Int /\ a.posts \in Int /\ b.posts \in Int /\ TicksOf(q.queue) \in Int
        /\ TicksOf(a.queue) \in Int /\ TicksOf(b.queue) \in Int
    <3> HIDE DEF a, b
    <3>. QED  BY <2>2, <2>4, FedType DEF X, a
  <2>6. Fed(q, a, H, k)
    BY <2>2
  <2> HIDE DEF a, b
  <2>7. Fed(q, b, H, k + 1)
    <3>1. \A t \in H : b.contents[t] = q.contents[t]
      BY <2>4, <2>6, Zenon DEF Fed
    <3>2. ASSUME Covers(q, H), Small(H)
          PROVE  /\ Covers(b, H) /\ b.posts = q.posts + (k + 1)
                 /\ TicksOf(b.queue) = TicksOf(q.queue) + (k + 1)
      <4>1. Covers(a, H) /\ a.posts = q.posts + k /\ TicksOf(a.queue) = TicksOf(q.queue) + k
        BY <2>6, <3>2, Zenon DEF Fed
      <4>2. Covers(b, H) /\ b.posts = a.posts + 1 /\ TicksOf(b.queue) = TicksOf(a.queue) + 1
        BY <2>4, <3>2, <4>1, Zenon DEF Fed
      <4>. QED  BY <2>1, <2>5, <4>1, <4>2
    <3>3. q.avail = <<>> /\ q.queue = <<>> => b = q
      BY <2>4, <2>6, Zenon DEF Fed
    <3>4. q.queue # <<>> => b.queue # <<>>
      BY <2>4, <2>6, Zenon DEF Fed
    <3>. QED  BY <3>1, <3>2, <3>3, <3>4, Zenon DEF Fed
  <2>. QED  BY <2>1, <2>4, <2>7 DEF b
<1>12. n \in S
  <2> HIDE DEF S
  <2>1. 0..n \subseteq S
    BY <1>0, <1>10, <1>11, UpToInduction
  <2>. QED  BY <1>0, <2>1
<1>. QED  BY <1>1, <1>12 DEF X, n

\* r is q but for the textures that wait.
SamePlace(q, r) == q \in QType /\ r \in QType /\ r.convert = q.convert /\ r.contents = q.contents

\* h is taken out of q, which leaves r.
Takes(q, r, h, t) ==
    /\ q \in Good({}) /\ SamePlace(q, r) /\ r.avail = q.avail /\ q.queue # <<>>
    /\ h = Head(q.queue) /\ r.queue = Tail(q.queue) /\ t = h.tex

\* What that leaves.
Took(q, r, h, t) ==
    /\ r \in Good({t}) /\ (Covers(q, {}) => Covers(r, {t}))
    /\ h \in TexFrames /\ t \in Textures /\ h.count > 0 /\ r.contents[t] = h.picture
    /\ TicksOf(q.queue) = TicksOf(r.queue) + h.count

(* gpu_encode_thread takes the oldest frame out of the queue.              *)
LEMMA TakeGood ==
    ASSUME NEW q, NEW r, NEW h, NEW t, Takes(q, r, h, t)
    PROVE  Took(q, r, h, t)
<1> SUFFICES ASSUME q \in Good({}), SamePlace(q, r), r.avail = q.avail, q.queue # <<>>,
                    h = Head(q.queue), r.queue = Tail(q.queue), t = h.tex
             PROVE  Took(q, r, h, t)
  BY Zenon DEF Takes
<1> DEFINE n == Len(q.queue)
<1>0. /\ q \in QType /\ Apart(q, {}) /\ Whole(q) /\ r \in QType
      /\ q.avail \in Seq(Textures) /\ q.queue \in Seq(TexFrames)
  BY DEF Good, QType, SamePlace
<1>1. /\ h \in TexFrames /\ h = q.queue[1] /\ n \in Nat \ {0} /\ DOMAIN q.queue = 1..n
      /\ DOMAIN r.queue = 1..n - 1 /\ \A j \in 1..n - 1 : r.queue[j] = q.queue[j + 1]
      /\ r.queue \in Seq(TexFrames)
  BY <1>0
<1>2. q.queue = <<h>> \o r.queue
  BY <1>0, SplitFirst
<1>3. h.count \in Nat /\ TicksOf(q.queue) = h.count + TicksOf(r.queue) /\ TicksOf(r.queue) \in Int
  BY <1>1, <1>2, TicksOfPrepend, TicksOfType, TexFrameCount
<1> HIDE DEF n
<1>4. /\ 1 \in 1..n
      /\ \A j \in 1..n - 1 : j + 1 \in 1..n /\ j + 1 # 1
      /\ \A j \in 1..n : j # 1 => j - 1 \in 1..n - 1 /\ (j - 1) + 1 = j
  BY <1>1
<1>5. t \in Textures /\ h.count > 0 /\ r.contents[t] = h.picture
  BY <1>0, <1>1, <1>4 DEF Whole, SamePlace
<1>6. Apart(r, {t})
  <2>1. /\ \A i, j \in DOMAIN q.avail : q.avail[i] = q.avail[j] => i = j
        /\ \A i, j \in 1..n : q.queue[i].tex = q.queue[j].tex => i = j
        /\ \A i \in DOMAIN q.avail, j \in 1..n : q.avail[i] # q.queue[j].tex
        /\ \A i \in DOMAIN q.avail : q.avail[i] # q.convert
        /\ \A j \in 1..n : q.queue[j].tex # q.convert
    BY <1>0, <1>1, Zenon DEF Apart
  <2>2. \A i, j \in DOMAIN r.queue : r.queue[i].tex = r.queue[j].tex => i = j
    BY <1>1, <1>4, <2>1
  <2>3. \A j \in DOMAIN r.queue : r.queue[j].tex # t
    BY <1>1, <1>4, <2>1
  <2>4. /\ \A i \in DOMAIN r.avail, j \in DOMAIN r.queue : r.avail[i] # r.queue[j].tex
        /\ \A i \in DOMAIN r.avail : r.avail[i] # r.convert /\ r.avail[i] # t
        /\ \A j \in DOMAIN r.queue : r.queue[j].tex # r.convert
        /\ r.convert # t
    BY <1>1, <1>4, <2>1 DEF SamePlace
  <2>5. \A i, j \in DOMAIN r.avail : r.avail[i] = r.avail[j] => i = j
    BY <2>1
  <2>6. \A x : x \in {t} <=> x = t
    OBVIOUS
  <2>. QED  BY <2>2, <2>3, <2>4, <2>5, <2>6, Zenon DEF Apart
<1>7. Whole(r)
  BY <1>0, <1>1, <1>4 DEF Whole, SamePlace
<1>8. ASSUME Covers(q, {}) PROVE Covers(r, {t})
  <2> SUFFICES ASSUME NEW x \in Textures, x # r.convert, x # t
               PROVE  \/ \E i \in DOMAIN r.avail : r.avail[i] = x
                      \/ \E j \in DOMAIN r.queue : r.queue[j].tex = x
    BY DEF Covers
  <2>1. CASE \E i \in DOMAIN q.avail : q.avail[i] = x
    BY <2>1
  <2>2. CASE \E j \in DOMAIN q.queue : q.queue[j].tex = x
    <3>1. PICK j \in 1..n : q.queue[j].tex = x
      BY <1>1, <2>2
    <3>2. j # 1 /\ j - 1 \in DOMAIN r.queue /\ r.queue[j - 1] = q.queue[j]
      BY <1>1, <1>4, <3>1
    <3>. QED  BY <3>1, <3>2
  <2>. QED  BY <1>8, <2>1, <2>2 DEF Covers, SamePlace
<1>9. r \in Good({t})
  BY <1>0, <1>6, <1>7 DEF Good
<1>10. TicksOf(q.queue) = TicksOf(r.queue) + h.count
  BY <1>3
<1>. QED  BY <1>1, <1>5, <1>8, <1>9, <1>10, Zenon DEF Took

(* A frame with ticks left goes back to the front.                         *)
LEMMA KeepGood ==
    ASSUME NEW q, NEW r, NEW f \in TexFrames, NEW t, q \in Good({t}), SamePlace(q, r), r.avail = q.avail,
           t \in Textures, t = f.tex, f.count > 0, q.contents[t] = f.picture,
           r.queue = <<f>> \o q.queue
    PROVE  /\ r \in Good({}) /\ (Covers(q, {t}) => Covers(r, {}))
           /\ TicksOf(r.queue) = TicksOf(q.queue) + f.count
<1> DEFINE n == Len(q.queue)
<1>0. /\ q \in QType /\ Apart(q, {t}) /\ Whole(q) /\ r \in QType
      /\ q.avail \in Seq(Textures) /\ q.queue \in Seq(TexFrames)
  BY DEF Good, QType, SamePlace
<1>1. /\ n \in Nat /\ DOMAIN q.queue = 1..n
      /\ DOMAIN r.queue = 1..n + 1 /\ r.queue[1] = f /\ \A j \in 1..n : r.queue[j + 1] = q.queue[j]
  BY <1>0
<1>2. TicksOf(r.queue) = TicksOf(q.queue) + f.count
  <2>1. TicksOf(r.queue) = f.count + TicksOf(q.queue) /\ TicksOf(q.queue) \in Int /\ f.count \in Nat
    BY <1>0, TicksOfPrepend, TicksOfType, TexFrameCount
  <2>. QED  BY <2>1
<1> HIDE DEF n
<1>3. \A j \in 1..n + 1 : j # 1 => j - 1 \in 1..n /\ r.queue[j] = q.queue[j - 1]
  <2>1. \A j \in 1..n + 1 : j # 1 => j - 1 \in 1..n /\ (j - 1) + 1 = j
    BY <1>1
  <2>. QED  BY <1>1, <2>1
<1>4. \A j \in 1..n : j + 1 \in 1..n + 1
  BY <1>1
<1>5. Apart(r, {})
  <2>1. /\ \A i, j \in DOMAIN q.avail : q.avail[i] = q.avail[j] => i = j
        /\ \A i, j \in 1..n : q.queue[i].tex = q.queue[j].tex => i = j
        /\ \A i \in DOMAIN q.avail, j \in 1..n : q.avail[i] # q.queue[j].tex
        /\ \A i \in DOMAIN q.avail : q.avail[i] # q.convert /\ q.avail[i] \notin {t}
        /\ \A j \in 1..n : q.queue[j].tex # q.convert /\ q.queue[j].tex \notin {t}
        /\ q.convert \notin {t}
    BY <1>0, <1>1, Zenon DEF Apart
  <2>2. \A i, j \in 1..n + 1 : r.queue[i].tex = r.queue[j].tex => i = j
    <3> SUFFICES ASSUME NEW i \in 1..n + 1, NEW j \in 1..n + 1, r.queue[i].tex = r.queue[j].tex
                 PROVE  i = j
      OBVIOUS
    <3>. QED  BY <1>1, <1>3, <2>1
  <2>3. \A j \in 1..n + 1 : r.queue[j].tex = t \/ \E k \in 1..n : r.queue[j].tex = q.queue[k].tex
    BY <1>1, <1>3
  <2>4. \A i \in DOMAIN r.avail, j \in 1..n + 1 : r.avail[i] # r.queue[j].tex
    <3>1. \A i \in DOMAIN q.avail : q.avail[i] # t
      BY <2>1
    <3> SUFFICES ASSUME NEW i \in DOMAIN r.avail, NEW j \in 1..n + 1
                 PROVE  r.avail[i] # r.queue[j].tex
      OBVIOUS
    <3>2. r.avail[i] = q.avail[i] /\ i \in DOMAIN q.avail
      OBVIOUS
    <3>3. CASE r.queue[j].tex = t
      BY <3>1, <3>2, <3>3
    <3>4. ASSUME NEW k \in 1..n, r.queue[j].tex = q.queue[k].tex PROVE r.avail[i] # r.queue[j].tex
      BY <2>1, <3>2, <3>4, ZenonT(30)
    <3>. QED  BY <2>3, <3>3, <3>4
  <2>5. \A j \in 1..n + 1 : r.queue[j].tex # r.convert
    BY <2>1, <2>3 DEF SamePlace
  <2>6. \A x : x \notin {}
    OBVIOUS
  <2>. QED  BY <1>1, <2>1, <2>2, <2>4, <2>5, <2>6, Zenon DEF Apart, SamePlace
<1>6. Whole(r)
  <2>1. \A j \in 1..n + 1 : r.queue[j] = f \/ \E k \in 1..n : r.queue[j] = q.queue[k]
    BY <1>1, <1>3
  <2>2. \A k \in 1..n : /\ q.queue[k].tex \in Textures /\ q.queue[k].count > 0
                         /\ r.contents[q.queue[k].tex] = q.queue[k].picture
    BY <1>0, <1>1 DEF Whole, SamePlace
  <2>3. f.tex \in Textures /\ f.count > 0 /\ r.contents[f.tex] = f.picture
    BY DEF SamePlace
  <2>. QED  BY <1>1, <2>1, <2>2, <2>3 DEF Whole
<1>7. ASSUME Covers(q, {t}) PROVE Covers(r, {})
  <2> SUFFICES ASSUME NEW x \in Textures, x # r.convert
               PROVE  \/ \E i \in DOMAIN r.avail : r.avail[i] = x
                      \/ \E j \in DOMAIN r.queue : r.queue[j].tex = x
    BY DEF Covers
  <2>1. CASE x = t
    <3>1. 1 \in DOMAIN r.queue /\ r.queue[1].tex = x
      BY <1>1, <2>1
    <3>. QED  BY <3>1
  <2>2. CASE \E i \in DOMAIN q.avail : q.avail[i] = x
    BY <2>2
  <2>3. CASE \E j \in DOMAIN q.queue : q.queue[j].tex = x
    BY <1>1, <1>4, <2>3
  <2>. QED  BY <1>7, <2>1, <2>2, <2>3 DEF Covers, SamePlace
<1>. QED  BY <1>0, <1>2, <1>5, <1>6, <1>7 DEF Good

(* The texture of a frame that is through is free again.                   *)
LEMMA FreeGood ==
    ASSUME NEW q, NEW r, NEW t \in Textures, q \in Good({t}), SamePlace(q, r),
           r.queue = q.queue, r.avail = Append(q.avail, t)
    PROVE  r \in Good({}) /\ (Covers(q, {t}) => Covers(r, {}))
<1> DEFINE n == Len(q.avail)
<1>0. /\ q \in QType /\ Apart(q, {t}) /\ Whole(q) /\ r \in QType
      /\ q.avail \in Seq(Textures) /\ q.queue \in Seq(TexFrames)
  BY DEF Good, QType, SamePlace
<1>1. /\ n \in Nat /\ DOMAIN q.avail = 1..n
      /\ DOMAIN r.avail = 1..n + 1 /\ r.avail[n + 1] = t /\ \A j \in 1..n : r.avail[j] = q.avail[j]
  BY <1>0
<1> HIDE DEF n
<1>3. \A j \in 1..n + 1 : j = n + 1 \/ j \in 1..n
  BY <1>1
<1>5. Apart(r, {})
  <2>1. /\ \A i, j \in 1..n : q.avail[i] = q.avail[j] => i = j
        /\ \A i, j \in DOMAIN q.queue : q.queue[i].tex = q.queue[j].tex => i = j
        /\ \A i \in 1..n, j \in DOMAIN q.queue : q.avail[i] # q.queue[j].tex
        /\ \A i \in 1..n : q.avail[i] # q.convert /\ q.avail[i] \notin {t}
        /\ \A j \in DOMAIN q.queue : q.queue[j].tex # q.convert /\ q.queue[j].tex \notin {t}
        /\ q.convert \notin {t}
    BY <1>0, <1>1, Zenon DEF Apart
  <2>2. \A i, j \in 1..n + 1 : r.avail[i] = r.avail[j] => i = j
    <3> SUFFICES ASSUME NEW i \in 1..n + 1, NEW j \in 1..n + 1, r.avail[i] = r.avail[j]
                 PROVE  i = j
      OBVIOUS
    <3>. QED  BY <1>1, <1>3, <2>1
  <2>3. \A j \in 1..n + 1 : r.avail[j] = t \/ \E k \in 1..n : r.avail[j] = q.avail[k]
    BY <1>1, <1>3
  <2>. QED  BY <1>1, <2>1, <2>2, <2>3 DEF Apart, SamePlace
<1>6. Whole(r)
  BY <1>0 DEF Whole, SamePlace
<1>7. ASSUME Covers(q, {t}) PROVE Covers(r, {})
  <2> SUFFICES ASSUME NEW x \in Textures, x # r.convert
               PROVE  \/ \E i \in DOMAIN r.avail : r.avail[i] = x
                      \/ \E j \in DOMAIN r.queue : r.queue[j].tex = x
    BY DEF Covers
  <2>1. CASE x = t
    <3>1. n + 1 \in DOMAIN r.avail
      BY <1>1
    <3>. QED  BY <1>1, <2>1, <3>1
  <2>2. CASE \E i \in DOMAIN q.avail : q.avail[i] = x
    <3>1. PICK i \in 1..n : q.avail[i] = x
      BY <1>1, <2>2
    <3>2. i \in DOMAIN r.avail
      BY <1>1
    <3>. QED  BY <1>1, <3>1, <3>2
  <2>3. CASE \E j \in DOMAIN q.queue : q.queue[j].tex = x
    BY <2>3
  <2>. QED  BY <1>7, <2>1, <2>2, <2>3 DEF Covers, SamePlace
<1>. QED  BY <1>0, <1>5, <1>6, <1>7 DEF Good

(* SetToSeq lists every element of a finite set once.                      *)
LEMMA AllTextures ==
    ASSUME NEW S, IsFiniteSet(S)
    PROVE  /\ SetToSeq(S) \in Seq(S)
           /\ \A i, j \in DOMAIN SetToSeq(S) : SetToSeq(S)[i] = SetToSeq(S)[j] => i = j
           /\ \A x \in S : \E i \in DOMAIN SetToSeq(S) : SetToSeq(S)[i] = x
<1> DEFINE n == Cardinality(S)
<1> DEFINE Is(f) == f \in [1..n -> S] /\ \A a, b \in DOMAIN f : f[a] = f[b] => a = b
<1> DEFINE s == CHOOSE f : Is(f)
<1>1. n \in Nat /\ ExistsBijection(1..n, S)
  BY FS_CardinalityType
<1>2. PICK f \in Bijection(1..n, S) : TRUE
  BY <1>1, Zenon DEF ExistsBijection
<1>3. Is(f)
  BY <1>2, Zenon DEF Bijection, Injection, Surjection, IsInjective
<1>4. SetToSeq(S) = s
  <2>1. SetToSeq(S) = CHOOSE g \in [1..Cardinality(S) -> S] : \A a, b \in DOMAIN g : g[a] = g[b] => a = b
    BY Zenon DEF SetToSeq, IsInjective
  <2>. QED  BY <2>1, Zenon
<1>5. Is(s)
  <2> HIDE DEF Is
  <2>. QED  BY <1>3, Zenon
<1> HIDE DEF s
<1>6. s \in Injection(1..n, S) /\ IsFiniteSet(1..n) /\ Cardinality(1..n) = n
  <2>1. IsFiniteSet(1..n) /\ Cardinality(1..n) = n
    BY <1>1, FS_Interval
  <2>. QED  BY <1>5, <2>1, Zenon DEF Injection, IsInjective
<1>7. s \in Surjection(1..n, S)
  <2> HIDE DEF Is
  <2>. QED  BY <1>6, FS_Injection
<1>8. \A x \in S : \E i \in DOMAIN s : s[i] = x
  BY <1>5, <1>7, Zenon DEF Surjection
<1>9. s \in Seq(S)
  BY <1>1, <1>5
<1>. QED  BY <1>4, <1>5, <1>8, <1>9

(* Erasing an encoder leaves every other one listed.                       *)
LEMMA RemovedKeeps ==
    ASSUME NEW S, NEW seq \in Seq(S), NEW k \in DOMAIN seq, NEW j \in DOMAIN seq, j # k
    PROVE  InList(RemoveAt(seq, k), seq[j])
<1> DEFINE a == SubSeq(seq, 1, k - 1)
           b == SubSeq(seq, k + 1, Len(seq))
<1>1. /\ a \in Seq(S) /\ Len(a) = k - 1 /\ \A i \in 1..(k - 1) : a[i] = seq[i]
      /\ b \in Seq(S) /\ Len(b) = Len(seq) - k
      /\ \A i \in 1..(Len(seq) - k) : b[i] = seq[i + k]
  OBVIOUS
<1>2. RemoveAt(seq, k) = a \o b
  BY DEF RemoveAt
<1>3. k \in 1..Len(seq) /\ j \in 1..Len(seq) /\ Len(seq) \in Nat
  OBVIOUS
<1> HIDE DEF a, b
<1>4. /\ DOMAIN (a \o b) = 1..Len(seq) - 1
      /\ \A i \in 1..Len(seq) - 1 : (a \o b)[i] = IF i <= k - 1 THEN a[i] ELSE b[i - (k - 1)]
  <2>1. /\ a \o b \in Seq(S) /\ Len(a \o b) = Len(a) + Len(b)
        /\ \A i \in 1..Len(a) + Len(b) : (a \o b)[i] = IF i <= Len(a) THEN a[i] ELSE b[i - Len(a)]
    BY <1>1, ConcatElements
  <2>2. Len(a) + Len(b) = Len(seq) - 1
    BY <1>1, <1>3
  <2>3. DOMAIN (a \o b) = 1..Len(seq) - 1
    BY <2>1, <2>2
  <2>. QED  BY <1>1, <2>1, <2>2, <2>3, Zenon
<1>5. CASE j < k
  <2>1. j \in 1..Len(seq) - 1 /\ j \in 1..k - 1 /\ j <= k - 1
    BY <1>3, <1>5
  <2>2. (a \o b)[j] = seq[j]
    BY <1>1, <1>4, <2>1
  <2>. QED  BY <1>2, <1>4, <2>1, <2>2 DEF InList
<1>6. CASE ~(j < k)
  <2>1. j - 1 \in 1..Len(seq) - 1 /\ j - k \in 1..Len(seq) - k /\ ~(j - 1 <= k - 1)
        /\ (j - 1) - (k - 1) = j - k /\ (j - k) + k = j
    BY <1>3, <1>6
  <2>2. (a \o b)[j - 1] = seq[j]
    BY <1>1, <1>4, <2>1
  <2>. QED  BY <1>2, <1>4, <2>1, <2>2 DEF InList
<1>. QED  BY <1>5, <1>6

-----------------------------------------------------------------------------

USE DEF None, NUM_TEXTURES, Surfaces

-----------------------------------------------------------------------------
(* The frame loop                                                          *)

\* The time of picture p is the one that waits, and p is staged in the
\* surface that is downloaded next.
Staged(p) ==
    /\ p # None /\ textures_copied[PrevTexture] = p
    /\ \E n \in Nat : /\ vframe_info_buffer = <<[timestamp |-> p, count |-> n]>>
                      /\ video_time = p + n
    /\ raw_out # NoFrame => raw_out.timestamp + raw_out.count = p

\* Raw output has just begun.
Fresh == /\ vframe_info_buffer = <<>> /\ raw_out = NoFrame
         /\ textures_copied = [s \in Surfaces |-> None]

\* The picture staged in this frame has no time yet.
Unslept ==
    /\ vframe_info_buffer = <<>> /\ textures_copied[PrevTexture] = video_time
    /\ raw_out # NoFrame => raw_out.timestamp + raw_out.count = video_time

LoopInv ==
    /\ cur_texture \in Surfaces /\ textures_copied \in [Surfaces -> Nat]
    /\ video_time \in Nat \ {0}
    /\ gpc = "update" /\ raw_was_active => \E p \in Nat : Staged(p)
    /\ gpc = "output" /\ raw_was_active => Fresh \/ \E p \in Nat : Staged(p)
    /\ gpc = "sleep" /\ raw_was_active => Unslept

(* The loop starts with raw output off.                                    *)
LEMMA InitLoopInv == Init => LoopInv
BY DEF Init, MixInit, LoopInv

(* What the other threads do leaves the loop alone.                        *)
LEMMA OthersLoopInv ==
    ASSUME LoopInv,
           UNCHANGED <<gpc, video_time, raw_was_active, vframe_info_buffer, cur_texture,
                       textures_copied, raw_out>>
    PROVE  LoopInv'
BY DEF LoopInv, Staged, Fresh, Unslept, PrevTexture

(* update_active_state: a frame that waits keeps its time.                 *)
LEMMA UpdateLoopInv ==
    ASSUME LoopInv, UpdateActiveState
    PROVE  LoopInv'
<1>1. cur_texture' \in Surfaces /\ textures_copied' \in [Surfaces -> Nat]
  BY DEF LoopInv, UpdateActiveState
<1>2. CASE raw_active /\ ~raw_was_active
  BY <1>1, <1>2 DEF UpdateActiveState, LoopInv, Fresh
<1>3. CASE raw_active /\ raw_was_active
  <2>1. UNCHANGED <<video_time, vframe_info_buffer, cur_texture, textures_copied, raw_out>>
    BY <1>3 DEF UpdateActiveState
  <2>2. PICK p \in Nat : Staged(p)
    BY <1>3 DEF UpdateActiveState, LoopInv
  <2>3. Staged(p)'
    BY <2>1, <2>2 DEF Staged, PrevTexture
  <2> QED  BY <1>1, <2>1, <2>3 DEF LoopInv, UpdateActiveState
<1>4. CASE ~raw_active
  BY <1>1, <1>4 DEF UpdateActiveState, LoopInv
<1> QED  BY <1>2, <1>3, <1>4

(* output_frame: the picture that goes out has its own time, and the one   *)
(* staged now will be next.                                                *)
LEMMA OutputLoopInv ==
    ASSUME LoopInv, OutputRaw, ~MapMayFail
    PROVE  /\ LoopInv'
           /\ raw_out' \notin {raw_out, NoFrame} =>
                 /\ raw_out'.picture = raw_out'.timestamp
                 /\ raw_out # NoFrame => raw_out'.timestamp = raw_out.timestamp + raw_out.count
<1>0. /\ cur_texture \in Surfaces /\ cur_texture' \in Surfaces
      /\ PrevTexture \in Surfaces /\ PrevTexture # cur_texture
      /\ PrevTexture' = cur_texture /\ UNCHANGED <<video_time, raw_was_active>>
      /\ video_time \in Nat \ {0} /\ gpc = "output" /\ gpc' = "sleep"
  BY DEF LoopInv, OutputRaw, NextTexture, PrevTexture
<1>1. CASE ~raw_was_active
  BY <1>0, <1>1 DEF OutputRaw, LoopInv
<1>2. CASE raw_was_active
  <2> DEFINE staged == [textures_copied EXCEPT ![cur_texture] = video_time]
  <2>1. /\ textures_copied' = staged /\ staged \in [Surfaces -> Nat]
        /\ staged[PrevTexture] = textures_copied[PrevTexture]
        /\ textures_copied'[PrevTexture'] = video_time'
    BY <1>0, <1>2 DEF OutputRaw, StageAndDownload, LoopInv
  <2>2. CASE Fresh
    <3>1. UNCHANGED <<raw_out, vframe_info_buffer>>
      BY <1>0, <1>2, <2>1, <2>2 DEF OutputRaw, StageAndDownload, Fresh
    <3> QED  BY <1>0, <2>1, <2>2, <3>1 DEF LoopInv, Unslept, Fresh
  <2>3. CASE ~Fresh
    <3>1. PICK p \in Nat : Staged(p)
      BY <1>0, <1>2, <2>3 DEF LoopInv
    <3>2. PICK n \in Nat : /\ vframe_info_buffer = <<[timestamp |-> p, count |-> n]>>
                           /\ video_time = p + n
      BY <3>1 DEF Staged
    <3>3. Head(vframe_info_buffer) = [timestamp |-> p, count |-> n]
          /\ Tail(vframe_info_buffer) = <<>>
      BY <3>2
    <3>4. /\ raw_out' = [picture |-> p, timestamp |-> p, count |-> n]
          /\ vframe_info_buffer' = <<>>
      BY <1>0, <1>2, <2>1, <3>1, <3>3 DEF OutputRaw, StageAndDownload, Staged
    <3>5. Unslept'
      BY <1>0, <2>1, <3>2, <3>4 DEF Unslept
    <3> QED  BY <1>0, <2>1, <3>1, <3>4, <3>5 DEF LoopInv, Staged
  <2> QED  BY <2>2, <2>3
<1> QED  BY <1>1, <1>2

(* video_sleep: the picture staged in this frame gets its time.            *)
LEMMA SleepLoopInv ==
    ASSUME LoopInv, VideoSleep
    PROVE  LoopInv'
<1>0. PICK count \in 1..MaxCount :
        /\ gpc = "sleep" /\ gpc' = "update"
        /\ video_time' = video_time + count
        /\ vframe_info_buffer' = vframe_info_buffer \o
             (IF raw_was_active THEN <<FrameInfo(count)>> ELSE <<>>)
        /\ UNCHANGED <<raw_was_active, cur_texture, textures_copied, raw_out>>
  BY DEF VideoSleep
<1>1. count \in Nat /\ video_time \in Nat \ {0} /\ video_time' \in Nat \ {0}
  BY <1>0, CountAssumption DEF LoopInv
<1>2. CASE ~raw_was_active
  BY <1>0, <1>1, <1>2 DEF LoopInv
<1>3. CASE raw_was_active
  <2>1. Unslept
    BY <1>0, <1>3 DEF LoopInv
  <2>2. vframe_info_buffer' = <<[timestamp |-> video_time, count |-> count]>>
    BY <1>0, <1>3, <2>1 DEF Unslept, FrameInfo
  <2>3. PICK p \in Nat : p = video_time
    BY <1>1
  <2>4. Staged(p)'
    <3>1. /\ p # None /\ textures_copied'[PrevTexture'] = p
          /\ raw_out' # NoFrame => raw_out'.timestamp + raw_out'.count = p
      BY <1>0, <1>1, <2>1, <2>3 DEF Unslept, PrevTexture, NoFrame
    <3>2. \E n \in Nat : /\ vframe_info_buffer' = <<[timestamp |-> p, count |-> n]>>
                         /\ video_time' = p + n
      BY <1>0, <1>1, <2>2, <2>3
    <3> QED  BY <3>1, <3>2 DEF Staged
  <2> QED  BY <1>0, <1>1, <2>4 DEF LoopInv
<1> QED  BY <1>2, <1>3

-----------------------------------------------------------------------------
(* The encoders and the thread that serves them                            *)

\* Where an encoder that starts or stops stands, the list says too; the thread
\* holds frames only while gpu_encode_inactive is down, and encoders only with
\* a frame.
ServiceInv ==
    /\ gpu_encoders \in Seq(Encoders) /\ todo \in Seq(Encoders)
    /\ spc \in [Encoders -> {"off", "added", "on", "leaving", "waiting", "last",
                             "joining", "freeing"}]
    /\ \A i, j \in DOMAIN gpu_encoders : gpu_encoders[i] = gpu_encoders[j] => i = j
    /\ \A i \in DOMAIN gpu_encoders : spc[gpu_encoders[i]] \in {"added", "on", "leaving"}
    /\ \A i \in DOMAIN todo : spc[todo[i]] # "off"
    /\ todo # <<>> => tpc \in {"encode", "failing"}
    /\ tpc \in {"take", "encode", "failing"} => gpu_encode_inactive = FALSE
    /\ (\E e \in Encoders : spc[e] = "freeing") => tpc = "none"

(* Nothing is started in the beginning.                                    *)
LEMMA InitServiceInv == Init => ServiceInv
BY DEF Init, ServiceInv

(* Erasing the only occurrence of an encoder leaves the others.            *)
LEMMA RemovedOnce ==
    ASSUME NEW S, NEW seq \in Seq(S), NEW k \in DOMAIN seq,
           \A i, j \in DOMAIN seq : seq[i] = seq[j] => i = j
    PROVE  /\ RemoveAt(seq, k) \in Seq(S)
           /\ \A i, j \in DOMAIN RemoveAt(seq, k) :
                 RemoveAt(seq, k)[i] = RemoveAt(seq, k)[j] => i = j
           /\ \A i \in DOMAIN RemoveAt(seq, k) :
                 \E j \in DOMAIN seq : j # k /\ RemoveAt(seq, k)[i] = seq[j]
<1> DEFINE a == SubSeq(seq, 1, k - 1)
           b == SubSeq(seq, k + 1, Len(seq))
<1>1. /\ a \in Seq(S) /\ Len(a) = k - 1 /\ \A i \in 1..(k - 1) : a[i] = seq[i]
      /\ b \in Seq(S) /\ Len(b) = Len(seq) - k
      /\ \A i \in 1..(Len(seq) - k) : b[i] = seq[i + k]
  OBVIOUS
<1>2. RemoveAt(seq, k) = a \o b
  BY DEF RemoveAt
<1>3. /\ RemoveAt(seq, k) \in Seq(S) /\ DOMAIN RemoveAt(seq, k) = 1..(Len(seq) - 1)
      /\ \A i \in 1..(Len(seq) - 1) :
            RemoveAt(seq, k)[i] = seq[IF i < k THEN i ELSE i + 1]
  <2> HIDE DEF a, b
  <2>0. k \in 1..Len(seq) /\ Len(seq) \in Nat
    OBVIOUS
  <2>1. a \o b \in Seq(S) /\ Len(a \o b) = Len(seq) - 1 /\ DOMAIN (a \o b) = 1..(Len(seq) - 1)
    BY <1>1, <2>0
  <2>2. \A i \in 1..(Len(seq) - 1) : (a \o b)[i] = IF i < k THEN a[i] ELSE b[i - (k - 1)]
    BY <1>1, <2>0, SMTT(30)
  <2>3. ASSUME NEW i \in 1..(Len(seq) - 1)
        PROVE  (a \o b)[i] = seq[IF i < k THEN i ELSE i + 1]
    <3>1. CASE i < k
      BY <1>1, <2>2, <3>1
    <3>2. CASE ~(i < k)
      <4>1. i - (k - 1) \in 1..(Len(seq) - k) /\ (i - (k - 1)) + k = i + 1
        BY <3>2
      <4> QED  BY <1>1, <2>2, <3>2, <4>1
    <3> QED  BY <3>1, <3>2
  <2> QED  BY <1>2, <2>1, <2>3
<1>4. \A i \in 1..(Len(seq) - 1) : LET j == IF i < k THEN i ELSE i + 1
                                  IN j \in DOMAIN seq /\ j # k
  OBVIOUS
<1>5. \A i, j \in 1..(Len(seq) - 1) :
          RemoveAt(seq, k)[i] = RemoveAt(seq, k)[j] => i = j
  BY <1>3, <1>4
<1> QED  BY <1>3, <1>4, <1>5

(* The frame loop and the first half of the thread touch no encoder.       *)
LEMMA LoopServiceInv ==
    ASSUME ServiceInv, UNCHANGED <<gpu_encoders, todo, spc, tpc, gpu_encode_inactive>>
    PROVE  ServiceInv'
BY DEF ServiceInv

(* gpu_encode_thread: gpu_encode_inactive is reset before the encoders of  *)
(* a frame are taken, and signalled when it has none in hand.              *)
LEMMA ThreadServiceInv ==
    ASSUME ServiceInv, Thread \/ EncodeFails
    PROVE  ServiceInv'
<1> USE DEF ServiceInv, sync, queues, thread
<1>1. CASE SemWait
  BY <1>1 DEF SemWait
<1>2. CASE Woken
  BY <1>2 DEF Woken
<1>3. CASE ResetInactive
  BY <1>3 DEF ResetInactive
<1>4. CASE Take
  BY <1>4 DEF Take
<1>5. CASE EncodeNext
  <2>1. todo' \in Seq(Encoders) /\ \A i \in DOMAIN todo' : \E j \in DOMAIN todo : todo'[i] = todo[j]
    BY <1>5 DEF EncodeNext
  <2> QED  BY <1>5, <2>1 DEF EncodeNext
<1>6. CASE Return
  BY <1>6 DEF Return
<1>7. CASE SignalInactive
  BY <1>7 DEF SignalInactive
<1>8. CASE EncodeFails
  BY <1>8 DEF EncodeFails
<1> QED  BY <1>1, <1>2, <1>3, <1>4, <1>5, <1>6, <1>7, <1>8 DEF Thread

(* start_gpu_encode: an encoder that is off is nowhere in the lists.       *)
LEMMA StartServiceInv ==
    ASSUME ServiceInv, NEW e \in Encoders, StartGpuEncode(e) \/ Started(e) \/ StopGpuEncode(e)
    PROVE  ServiceInv'
<1>1. CASE StartGpuEncode(e)
  <2>1. /\ gpu_encoders' \in Seq(Encoders)
        /\ DOMAIN gpu_encoders' = 1..(Len(gpu_encoders) + 1)
        /\ \A i \in DOMAIN gpu_encoders : gpu_encoders'[i] = gpu_encoders[i]
        /\ gpu_encoders'[Len(gpu_encoders) + 1] = e
        /\ DOMAIN gpu_encoders = 1..Len(gpu_encoders) /\ Len(gpu_encoders) \in Nat
    BY <1>1 DEF StartGpuEncode, ServiceInv
  <2>2. \A i \in DOMAIN gpu_encoders : gpu_encoders[i] # e
    BY <1>1 DEF StartGpuEncode, ServiceInv
  <2>3. todo' = todo /\ spc' = [spc EXCEPT ![e] = "added"] /\ spc[e] = "off"
    BY <1>1 DEF StartGpuEncode
  <2>4. CASE gpu_encoders = <<>>
    <3>1. tpc' = "wait" /\ gpu_encode_inactive' = TRUE /\ todo = <<>>
          /\ \A f \in Encoders : spc'[f] \in {"off", "added"}
      BY <1>1, <2>3, <2>4 DEF StartGpuEncode, InitGpuEncoding, ServiceInv
    <3> QED  BY <2>1, <2>2, <2>3, <3>1, SMTT(30) DEF ServiceInv
  <2>5. CASE gpu_encoders # <<>>
    <3>1. UNCHANGED <<tpc, gpu_encode_inactive>>
      BY <1>1, <2>5 DEF StartGpuEncode, sync
    <3> QED  BY <2>1, <2>2, <2>3, <3>1, SMTT(30) DEF ServiceInv
  <2> QED  BY <2>4, <2>5
<1>2. CASE Started(e)
  BY <1>2 DEF Started, ServiceInv, sync, thread
<1>3. CASE StopGpuEncode(e)
  BY <1>3 DEF StopGpuEncode, ServiceInv, sync, thread
<1> QED  BY <1>1, <1>2, <1>3

(* stop_gpu_encode: when it returns, the thread is between frames or gone. *)
LEMMA StopServiceInv ==
    ASSUME ServiceInv, NEW e \in Encoders, Stopping(e)
    PROVE  ServiceInv'
<1>1. CASE Erase(e)
  <2>1. PICK k \in DOMAIN gpu_encoders : /\ gpu_encoders[k] = e
                                         /\ gpu_encoders' = RemoveAt(gpu_encoders, k)
    BY <1>1 DEF Erase
  <2>2. /\ gpu_encoders' \in Seq(Encoders)
        /\ \A i, j \in DOMAIN gpu_encoders' : gpu_encoders'[i] = gpu_encoders'[j] => i = j
        /\ \A i \in DOMAIN gpu_encoders' :
              \E j \in DOMAIN gpu_encoders : j # k /\ gpu_encoders'[i] = gpu_encoders[j]
    BY <2>1, RemovedOnce DEF ServiceInv
  <2>3. \A i \in DOMAIN gpu_encoders' : gpu_encoders'[i] # e /\ gpu_encoders'[i] \in Encoders
                 /\ spc[gpu_encoders'[i]] \in {"added", "on", "leaving"}
    BY <2>1, <2>2 DEF ServiceInv
  <2>4. UNCHANGED <<todo, tpc, gpu_encode_inactive>> /\ spc[e] = "leaving"
        /\ \E w \in {"last", "waiting"} : spc' = [spc EXCEPT ![e] = w]
    BY <1>1 DEF Erase, sync, thread
  <2> QED  BY <2>2, <2>3, <2>4 DEF ServiceInv
<1>2. CASE WaitInactive(e)
  <2>1. todo = <<>> /\ ~Fails(e)
    BY <1>2 DEF WaitInactive, Inactive, Fails, ServiceInv
  <2>2. UNCHANGED <<gpu_encoders, todo, tpc, gpu_encode_inactive>>
        /\ spc[e] = "waiting" /\ spc' = [spc EXCEPT ![e] = "off"]
    BY <1>2, <2>1 DEF WaitInactive, sync
  <2> QED  BY <2>1, <2>2 DEF ServiceInv
<1>3. CASE StopThread(e)
  BY <1>3 DEF StopThread, ServiceInv, thread
<1>4. CASE Join(e)
  BY <1>4 DEF Join, ServiceInv, sync
<1>5. CASE Free(e)
  BY <1>5 DEF Free, ServiceInv, sync, thread
<1> QED  BY <1>1, <1>2, <1>3, <1>4, <1>5 DEF Stopping

(* So every step keeps it.                                                 *)
LEMMA NextServiceInv ==
    ASSUME ServiceInv, [Next]_vars
    PROVE  ServiceInv'
<1>1. CASE Thread \/ EncodeFails
  BY <1>1, ThreadServiceInv
<1>2. CASE \E e \in Encoders : \/ StartGpuEncode(e) \/ Started(e)
                              \/ StopGpuEncode(e) \/ Stopping(e)
  BY <1>2, StartServiceInv, StopServiceInv
<1>3. CASE Loop \/ Client \/ UNCHANGED vars
  <2>1. UNCHANGED <<gpu_encoders, todo, spc, tpc, gpu_encode_inactive>>
    BY <1>3 DEF Loop, Client, OutputFrame, vars, gpu, sync, thread
  <2> QED  BY <2>1, LoopServiceInv
<1> QED  BY <1>1, <1>2, <1>3 DEF Next

-----------------------------------------------------------------------------
(* The textures between the loop and gpu_encode_thread                     *)

\* While raw output goes on, the frame that is staged has a time buffered.
BufInv ==
    /\ gpc = "update" /\ raw_was_active => vframe_info_buffer # <<>>
    /\ gpc = "output" /\ raw_was_active =>
          vframe_info_buffer # <<>> \/ textures_copied = [s \in Surfaces |-> None]

\* MixTypeOK without the count of the encoders.
MixInv ==
    /\ gpc \in {"update", "output", "sleep"}
    /\ video_time \in Nat /\ toggles \in Nat
    /\ raw_active \in BOOLEAN /\ raw_was_active \in BOOLEAN /\ gpu_was_active \in BOOLEAN
    /\ vframe_info_buffer \in Infos /\ vframe_info_buffer_gpu \in Infos
    /\ cur_texture \in Surfaces /\ textures_copied \in [Surfaces -> Nat]
    /\ raw_out \in [picture : Nat, timestamp : Nat, count : Nat]
    /\ BufInv

(* The loop starts with nothing buffered.                                  *)
LEMMA InitMixInv == ASSUME Init PROVE MixInv
<1>1. vframe_info_buffer \in Infos /\ vframe_info_buffer_gpu \in Infos
  BY DEF Init, MixInit, Infos
<1>2. textures_copied \in [Surfaces -> Nat] /\ raw_out \in [picture : Nat, timestamp : Nat, count : Nat]
  BY DEF Init, MixInit, NoFrame
<1>3. /\ gpc = "update" /\ video_time = 1 /\ toggles = 0 /\ cur_texture = 0
      /\ raw_active \in BOOLEAN /\ raw_was_active = FALSE /\ gpu_was_active = FALSE
  BY DEF Init, MixInit
<1>4. video_time \in Nat /\ toggles \in Nat /\ cur_texture \in Surfaces
  BY <1>3
<1>5. raw_was_active \in BOOLEAN /\ gpu_was_active \in BOOLEAN /\ BufInv
  BY <1>3 DEF BufInv
<1>. QED  BY <1>1, <1>2, <1>3, <1>4, <1>5, Zenon DEF MixInv

(* What the encoders and their thread do leaves the loop alone.            *)
LEMMA MixSame ==
    ASSUME MixInv,
           UNCHANGED <<gpc, video_time, toggles, raw_active, raw_was_active, gpu_was_active,
                       vframe_info_buffer, vframe_info_buffer_gpu, cur_texture,
                       textures_copied, raw_out>>
    PROVE  MixInv'
BY Zenon DEF MixInv, BufInv

(* update_active_state: raw output begins with the surfaces empty.         *)
LEMMA MixUpdate ==
    ASSUME MixInv, UpdateActiveState, gpu_encoder_active \in Nat
    PROVE  MixInv'
<1>1. /\ gpc = "update" /\ gpc' = "output" /\ video_time' = video_time /\ toggles' = toggles
      /\ raw_active' = raw_active /\ raw_was_active' = raw_active
  BY DEF UpdateActiveState
<1>2. gpu_was_active' \in BOOLEAN
  BY DEF UpdateActiveState
<1>3. vframe_info_buffer' \in Infos /\ vframe_info_buffer_gpu' \in Infos
  <2>1. <<>> \in Infos
    BY DEF Infos
  <2>. QED  BY <2>1 DEF MixInv, UpdateActiveState
<1>4. cur_texture' \in Surfaces /\ textures_copied' \in [Surfaces -> Nat]
  BY DEF MixInv, UpdateActiveState
<1>5. raw_out' \in [picture : Nat, timestamp : Nat, count : Nat]
  <2>1. NoFrame \in [picture : Nat, timestamp : Nat, count : Nat]
    BY DEF NoFrame
  <2>. QED  BY <2>1 DEF MixInv, UpdateActiveState
<1>6. BufInv'
  <2>1. CASE raw_active /\ ~raw_was_active
    BY <1>1, <2>1 DEF UpdateActiveState, BufInv
  <2>2. CASE raw_active /\ raw_was_active
    BY <1>1, <2>2 DEF UpdateActiveState, BufInv, MixInv
  <2>3. CASE ~raw_active
    BY <1>1, <2>3 DEF BufInv
  <2>. QED  BY <2>1, <2>2, <2>3
<1>. QED  BY <1>1, <1>2, <1>3, <1>4, <1>5, <1>6, Zenon DEF MixInv

(* output_frame takes a time only while one is buffered.                   *)
LEMMA MixOutput ==
    ASSUME MixInv, OutputRaw, vframe_info_buffer_gpu' \in Infos
    PROVE  MixInv'
<1>1. /\ gpc = "output" /\ gpc' = "sleep" /\ video_time' = video_time /\ toggles' = toggles
      /\ raw_active' = raw_active /\ raw_was_active' = raw_was_active
      /\ gpu_was_active' = gpu_was_active
  BY DEF OutputRaw
<1>2. cur_texture' \in Surfaces
  BY DEF OutputRaw, NextTexture, MixInv
<1>3. /\ textures_copied' \in [Surfaces -> Nat] /\ vframe_info_buffer' \in Infos
      /\ raw_out' \in [picture : Nat, timestamp : Nat, count : Nat]
  <2>1. CASE ~raw_was_active
    BY <2>1 DEF OutputRaw, MixInv
  <2>2. CASE raw_was_active
    <3> DEFINE staged == [textures_copied EXCEPT ![cur_texture] = video_time]
    <3>1. staged \in [Surfaces -> Nat] /\ textures_copied' = staged
      BY <2>2 DEF OutputRaw, StageAndDownload, MixInv
    <3>2. PrevTexture \in Surfaces /\ PrevTexture # cur_texture
      BY DEF PrevTexture, MixInv
    <3>3. staged[PrevTexture] = textures_copied[PrevTexture]
      BY <3>2 DEF MixInv
    <3>4. CASE /\ staged[PrevTexture] # None
               /\ raw_out' = [picture |-> staged[PrevTexture],
                              timestamp |-> Head(vframe_info_buffer).timestamp,
                              count |-> Head(vframe_info_buffer).count]
               /\ vframe_info_buffer' = Tail(vframe_info_buffer)
      <4>1. vframe_info_buffer # <<>> /\ vframe_info_buffer \in Seq([timestamp : Nat, count : Nat \ {0}])
        BY <1>1, <2>2, <3>2, <3>3, <3>4 DEF MixInv, BufInv, Infos
      <4>2. /\ Head(vframe_info_buffer) \in [timestamp : Nat, count : Nat \ {0}]
            /\ Tail(vframe_info_buffer) \in Seq([timestamp : Nat, count : Nat \ {0}])
        <5> DEFINE I == [timestamp : Nat, count : Nat \ {0}]
        <5> HIDE DEF I
        <5>1. \A w \in Seq(I) : w # <<>> => Head(w) \in I /\ Tail(w) \in Seq(I)
          OBVIOUS
        <5>. QED  BY <4>1, <5>1, Zenon DEF I
      <4>3. /\ Head(vframe_info_buffer).timestamp \in Nat /\ Head(vframe_info_buffer).count \in Nat
            /\ staged[PrevTexture] \in Nat
        BY <3>1, <3>2, <4>2
      <4>4. raw_out' \in [picture : Nat, timestamp : Nat, count : Nat]
        BY <3>4, <4>3
      <4>. QED  BY <3>1, <3>4, <4>2, <4>4, Zenon DEF Infos
    <3>5. CASE UNCHANGED <<raw_out, vframe_info_buffer>>
      BY <3>1, <3>5 DEF MixInv
    <3>6. \/ /\ staged[PrevTexture] # None
             /\ raw_out' = [picture |-> staged[PrevTexture],
                            timestamp |-> Head(vframe_info_buffer).timestamp,
                            count |-> Head(vframe_info_buffer).count]
             /\ vframe_info_buffer' = Tail(vframe_info_buffer)
          \/ UNCHANGED <<raw_out, vframe_info_buffer>>
      BY <2>2, Zenon DEF OutputRaw, StageAndDownload
    <3>. QED  BY <3>4, <3>5, <3>6
  <2>. QED  BY <2>1, <2>2
<1>4. BufInv'
  BY <1>1 DEF BufInv
<1>. QED  BY <1>1, <1>2, <1>3, <1>4 DEF MixInv

(* video_sleep buffers a time for every frame that is staged.              *)
LEMMA MixSleep ==
    ASSUME MixInv, VideoSleep
    PROVE  MixInv'
<1>0. PICK count \in 1..MaxCount :
        /\ gpc = "sleep" /\ gpc' = "update"
        /\ video_time' = video_time + count
        /\ vframe_info_buffer' = vframe_info_buffer \o
             (IF raw_was_active THEN <<FrameInfo(count)>> ELSE <<>>)
        /\ vframe_info_buffer_gpu' = vframe_info_buffer_gpu \o
             (IF gpu_was_active THEN <<FrameInfo(count)>> ELSE <<>>)
        /\ UNCHANGED <<raw_active, gpu_encoder_active, raw_was_active,
                       gpu_was_active, cur_texture, textures_copied, toggles, raw_out>>
  BY Zenon DEF VideoSleep
<1>1. count \in Nat \ {0}
  BY CountAssumption
<1> DEFINE I == [timestamp : Nat, count : Nat \ {0}]
<1>2. FrameInfo(count) \in I
  BY <1>1 DEF FrameInfo, MixInv
<1>3. vframe_info_buffer \in Seq(I) /\ vframe_info_buffer_gpu \in Seq(I)
  BY DEF MixInv, Infos
<1> DEFINE f == FrameInfo(count)
<1> HIDE DEF I, f
<1>4. /\ vframe_info_buffer' \in Seq(I) /\ vframe_info_buffer_gpu' \in Seq(I)
      /\ (raw_was_active => vframe_info_buffer' # <<>>)
  <2>1. \A w \in Seq(I) : /\ w \o <<f>> \in Seq(I) /\ w \o <<f>> # <<>> /\ w \o <<>> \in Seq(I)
    BY <1>2 DEF f
  <2>. QED  BY <1>0, <1>3, <2>1, Zenon DEF f
<1>5. video_time' \in Nat
  BY <1>0, <1>1 DEF MixInv
<1>6. BufInv'
  BY <1>0, <1>4 DEF BufInv
<1>. QED  BY <1>0, <1>4, <1>5, <1>6 DEF MixInv, Infos, I

\* The queues now, and the texture gpu_encode_thread has in hand.
QNow == [avail |-> gpu_encoder_avail_queue, queue |-> gpu_encoder_queue,
         convert |-> convert_texture, contents |-> contents, posts |-> gpu_encode_semaphore]
Holding == tpc \in {"encode", "failing"}
InHand == IF Holding THEN {tf.tex} ELSE {}

\* The post the thread has taken and not yet worked off.
Busy == IF tpc \in {"woken", "reset", "take", "encode", "failing"} THEN 1 ELSE 0
\* Every tick is served, in a frame that waits, or in hand; each has a post.
CountInv ==
    tpc # "none" /\ ~gpu_encode_stop =>
        /\ handed = served + (TicksOf(gpu_encoder_queue) + tf.count)
        /\ TicksOf(gpu_encoder_queue) + tf.count = gpu_encode_semaphore + (1 - wait_frames) + Busy

ThreadTypes ==
    /\ tpc \in {"none", "wait", "woken", "reset", "take", "encode", "failing", "signal", "done"}
    /\ wait_frames \in 0..1 /\ gpu_encode_stop \in BOOLEAN /\ gpu_encode_inactive \in BOOLEAN
    /\ handed \in Nat /\ served \in Nat /\ encoder_starts \in Nat

\* The frame in hand.
TakenInv ==
    /\ tf \in TexFrames
    /\ ~Holding => tf = NoTexFrame
    /\ Holding => tf.tex \in Textures /\ tf.count > 0 /\ contents[tf.tex] = tf.picture

\* The inductive invariant of the queues: every texture is in one place, and
\* the ticks are counted.  The textures are all there while the thread runs;
\* that is why queue_frame always finds a texture or a frame to add a tick to.
QueueInv ==
    /\ ThreadTypes /\ TakenInv
    /\ QNow \in Good(InHand)
    /\ tpc # "none" => Covers(QNow, InHand)
    /\ tpc \in {"reset", "take"} => gpu_encoder_queue # <<>>
    /\ CountInv

(* The types of the queues now.                                            *)
LEMMA QNowTypes ==
    QNow \in QType <=> /\ gpu_encoder_avail_queue \in Seq(Textures) /\ gpu_encoder_queue \in Seq(TexFrames)
                       /\ convert_texture \in Textures /\ contents \in [Textures -> Nat]
                       /\ gpu_encode_semaphore \in Nat
BY DEF QNow, QType

(* The parts of the queues now.                                            *)
LEMMA QNowParts ==
    /\ QNow.avail = gpu_encoder_avail_queue /\ QNow.queue = gpu_encoder_queue
    /\ QNow.convert = convert_texture /\ QNow.contents = contents /\ QNow.posts = gpu_encode_semaphore
BY DEF QNow

(* A post changes nothing about the textures.                              *)
LEMMA GoodSame ==
    ASSUME NEW q, NEW r \in QType, NEW H, q \in Good(H), r.avail = q.avail, r.queue = q.queue,
           r.convert = q.convert, r.contents = q.contents
    PROVE  r \in Good(H) /\ (Covers(q, H) => Covers(r, H))
<1>1. Apart(q, H) /\ Whole(q)
  BY Zenon DEF Good
<1>2. Apart(r, H)
  BY <1>1 DEF Apart
<1>3. Whole(r)
  BY <1>1, Zenon DEF Whole
<1>4. Covers(q, H) => Covers(r, H)
  BY Zenon DEF Covers
<1>. QED  BY <1>2, <1>3, <1>4, Zenon DEF Good

(* Rendering changes the picture of no texture that waits or is in hand.   *)
LEMMA RenderGood ==
    ASSUME NEW q, NEW r \in QType, NEW H, NEW t \in Nat, q \in Good(H), r.avail = q.avail, r.queue = q.queue,
           r.convert = q.convert, r.posts = q.posts, r.contents = [q.contents EXCEPT ![q.convert] = t]
    PROVE  /\ r \in Good(H) /\ (Covers(q, H) => Covers(r, H))
           /\ \A x \in H : r.contents[x] = q.contents[x]
<1>1. Apart(q, H) /\ Whole(q) /\ q \in QType
  BY Zenon DEF Good
<1>2. Apart(r, H)
  BY <1>1 DEF Apart
<1>3. \A x : x # q.convert => r.contents[x] = q.contents[x]
  BY <1>1 DEF QType
<1>4. Whole(r)
  <2>1. \A j \in DOMAIN q.queue : q.queue[j].tex # q.convert
    BY <1>1, Zenon DEF Apart
  <2>. QED  BY <1>1, <1>3, <2>1 DEF Whole
<1>5. Covers(q, H) => Covers(r, H)
  BY Zenon DEF Covers
<1>6. q.convert \notin H
  BY <1>1, Zenon DEF Apart
<1>. QED  BY <1>2, <1>3, <1>4, <1>5, <1>6, Zenon DEF Good

(* The thread holds at most one texture.                                   *)
LEMMA InHandSmall == Small(InHand)
BY DEF Small, InHand

(* output_gpu_encoders: the textures stay shared out, those that wait or   *)
(* are in hand keep their pictures, and each tick handed over is queued    *)
(* and posted.                                                             *)
LEMMA OutputGpuGood ==
    ASSUME QueueInv, OutputGpu, video_time \in Nat, raw_was_active \in BOOLEAN,
           vframe_info_buffer_gpu \in Infos
    PROVE  /\ QNow' \in Good(InHand) /\ (Covers(QNow, InHand) => Covers(QNow', InHand))
           /\ \A x \in InHand : contents'[x] = contents[x]
           /\ (gpu_encoder_avail_queue = <<>> /\ gpu_encoder_queue = <<>>) =>
                 (gpu_encoder_avail_queue' = <<>> /\ gpu_encoder_queue' = <<>>)
           /\ gpu_encoder_queue # <<>> => gpu_encoder_queue' # <<>>
           /\ vframe_info_buffer_gpu' \in Infos /\ handed' \in Nat
           /\ Covers(QNow, InHand) =>
                 \E n \in Nat : /\ TicksOf(gpu_encoder_queue') = TicksOf(gpu_encoder_queue) + n
                                /\ gpu_encode_semaphore' = gpu_encode_semaphore + n
                                /\ handed' = IF tpc = "none" THEN handed ELSE handed + n
<1>0. QNow \in Good(InHand) /\ handed \in Nat /\ QNow \in QType
  BY DEF QueueInv, ThreadTypes, Good
<1>1. CASE UNCHANGED <<queues, gpu_encode_semaphore, vframe_info_buffer_gpu, handed>>
  <2>1. /\ UNCHANGED <<gpu_encoder_avail_queue, gpu_encoder_queue, convert_texture, contents,
                       gpu_encode_semaphore, vframe_info_buffer_gpu, handed>>
        /\ QNow' = QNow
    BY <1>1 DEF queues, QNow
  <2>2. TicksOf(gpu_encoder_queue) \in Int /\ gpu_encode_semaphore \in Nat
    BY <1>0, QNowTypes, TicksOfType
  <2>. QED  BY <1>0, <2>1, <2>2
<1>2. CASE gpu_was_active
  <2> DEFINE rendered == [avail |-> gpu_encoder_avail_queue, queue |-> gpu_encoder_queue,
                     convert |-> convert_texture,
                     contents |-> [contents EXCEPT ![convert_texture] = video_time],
                     posts |-> gpu_encode_semaphore]
  <2> DEFINE q == IF vframe_info_buffer_gpu = <<>> THEN rendered
                  ELSE EncodeGpu(rendered, Head(vframe_info_buffer_gpu))
  <2>1. /\ gpu_encoder_avail_queue' = q.avail /\ gpu_encoder_queue' = q.queue
        /\ convert_texture' = q.convert /\ contents' = q.contents
        /\ gpu_encode_semaphore' = q.posts
        /\ IF vframe_info_buffer_gpu = <<>>
           THEN UNCHANGED <<vframe_info_buffer_gpu, handed>>
           ELSE /\ vframe_info_buffer_gpu' = Tail(vframe_info_buffer_gpu)
                /\ handed' = IF tpc = "none" THEN handed
                             ELSE handed + Head(vframe_info_buffer_gpu).count
    BY <1>2, Zenon DEF OutputGpu
  <2>2. /\ rendered \in QType /\ rendered.avail = QNow.avail /\ rendered.queue = QNow.queue
        /\ rendered.convert = QNow.convert /\ rendered.posts = QNow.posts
        /\ rendered.contents = [QNow.contents EXCEPT ![QNow.convert] = video_time]
    <3>1. [contents EXCEPT ![convert_texture] = video_time] \in [Textures -> Nat]
      BY <1>0, QNowTypes
    <3>. QED  BY <1>0, <3>1, QNowTypes, QNowParts DEF QType
  <2> HIDE DEF rendered
  <2>3. /\ rendered \in Good(InHand) /\ (Covers(QNow, InHand) => Covers(rendered, InHand))
        /\ \A x \in InHand : rendered.contents[x] = QNow.contents[x]
    <3>1. PICK a : a = QNow
      OBVIOUS
    <3>2. PICK H : H = InHand
      OBVIOUS
    <3>3. PICK r \in QType : r = rendered
      BY <2>2
    <3>4. /\ a \in Good(H) /\ r.avail = a.avail /\ r.queue = a.queue
          /\ r.convert = a.convert /\ r.posts = a.posts
          /\ r.contents = [a.contents EXCEPT ![a.convert] = video_time]
      BY <1>0, <2>2, <3>1, <3>2, <3>3, Zenon
    <3>5. /\ r \in Good(H) /\ (Covers(a, H) => Covers(r, H))
          /\ \A x \in H : r.contents[x] = a.contents[x]
      BY <3>4, RenderGood
    <3>. QED  BY <3>1, <3>2, <3>3, <3>5, Zenon
  <2>4. ASSUME NEW n \in Nat, q \in Good(InHand), Fed(rendered, q, InHand, n),
               vframe_info_buffer_gpu' \in Infos,
               handed' = IF tpc = "none" THEN handed ELSE handed + n
        PROVE  /\ QNow' \in Good(InHand) /\ (Covers(QNow, InHand) => Covers(QNow', InHand))
               /\ \A x \in InHand : contents'[x] = contents[x]
               /\ (gpu_encoder_avail_queue = <<>> /\ gpu_encoder_queue = <<>>) =>
                     (gpu_encoder_avail_queue' = <<>> /\ gpu_encoder_queue' = <<>>)
               /\ gpu_encoder_queue # <<>> => gpu_encoder_queue' # <<>>
               /\ vframe_info_buffer_gpu' \in Infos /\ handed' \in Nat
               /\ Covers(QNow, InHand) =>
                     \E m \in Nat : /\ TicksOf(gpu_encoder_queue') = TicksOf(gpu_encoder_queue) + m
                                    /\ gpu_encode_semaphore' = gpu_encode_semaphore + m
                                    /\ handed' = IF tpc = "none" THEN handed ELSE handed + m
    <3> HIDE DEF q
    <3>1. q \in QType
      BY <2>4 DEF Good
    <3>2. QNow' = q
      <4>1. q = [avail |-> q.avail, queue |-> q.queue, convert |-> q.convert,
                 contents |-> q.contents, posts |-> q.posts]
        BY <3>1 DEF QType
      <4>. QED  BY <2>1, <4>1, Zenon DEF QNow
    <3>3. Covers(QNow, InHand) => Covers(q, InHand) /\ q.posts = rendered.posts + n
                                  /\ TicksOf(q.queue) = TicksOf(rendered.queue) + n
      BY <2>3, <2>4, InHandSmall, Zenon DEF Fed
    <3>4. \A x \in InHand : q.contents[x] = QNow.contents[x]
      BY <2>3, <2>4, Zenon DEF Fed
    <3>5. rendered.avail = <<>> /\ rendered.queue = <<>> => q = rendered
      BY <2>4, Zenon DEF Fed
    <3>6. handed' \in Nat
      BY <1>0, <2>4
    <3>7. rendered.queue # <<>> => q.queue # <<>>
      BY <2>4, Zenon DEF Fed
    <3>. QED  BY <2>1, <2>2, <2>4, <3>2, <3>3, <3>4, <3>5, <3>6, <3>7, QNowParts
  <2>5. CASE vframe_info_buffer_gpu = <<>>
    <3>1. q = rendered
      BY <2>5
    <3>2. Fed(rendered, rendered, InHand, 0)
      BY <2>3, FedType DEF Fed
    <3>3. handed' = (IF tpc = "none" THEN handed ELSE handed + 0) /\ vframe_info_buffer_gpu' \in Infos
      BY <1>0, <2>1, <2>5
    <3>4. 0 \in Nat
      OBVIOUS
    <3> HIDE DEF q
    <3>. QED  BY <2>3, <2>4, <3>1, <3>2, <3>3, <3>4, Zenon
  <2>6. CASE vframe_info_buffer_gpu # <<>>
    <3> DEFINE I == [timestamp : Nat, count : Nat \ {0}]
    <3> DEFINE info == Head(vframe_info_buffer_gpu)
    <3>1. info \in I /\ vframe_info_buffer_gpu' \in Infos
      <4> HIDE DEF I
      <4>1. \A w \in Seq(I) : w # <<>> => Head(w) \in I /\ Tail(w) \in Seq(I)
        OBVIOUS
      <4>. QED  BY <2>1, <2>6, <4>1 DEF Infos, I
    <3>2. q = EncodeGpu(rendered, info)
      BY <2>6, Zenon
    <3>3. handed' = IF tpc = "none" THEN handed ELSE handed + info.count
      BY <2>1, <2>6, Zenon
    <3>4. info.count \in Nat
      <4> HIDE DEF info
      <4>. QED  BY <3>1
    <3> HIDE DEF info, q
    <3>5. q \in Good(InHand) /\ Fed(rendered, q, InHand, info.count)
      BY <2>3, <3>1, <3>2, EncodeGpuGood
    <3>. QED  BY <2>4, <3>1, <3>3, <3>4, <3>5, Zenon
  <2>. QED  BY <2>5, <2>6
<1>3. gpu_was_active \/ UNCHANGED <<queues, gpu_encode_semaphore, vframe_info_buffer_gpu, handed>>
  BY Zenon DEF OutputGpu
<1>. QED  BY <1>1, <1>2, <1>3

(* The types the proofs below need.                                        *)
LEMMA GoodTypes ==
    ASSUME QueueInv
    PROVE  /\ gpu_encoder_avail_queue \in Seq(Textures) /\ gpu_encoder_queue \in Seq(TexFrames)
           /\ convert_texture \in Textures /\ contents \in [Textures -> Nat]
           /\ gpu_encode_semaphore \in Nat /\ TicksOf(gpu_encoder_queue) \in Int
           /\ tf.count \in Nat
<1>1. QNow \in QType
  BY DEF QueueInv, Good
<1>2. tf.count \in Nat
  BY TexFrameCount DEF QueueInv, TakenInv
<1>. QED  BY <1>1, <1>2, QNowTypes, TicksOfType

(* A step that leaves the queues and the frame in hand alone keeps the     *)
(* invariant as far as it keeps the count.                                 *)
LEMMA SameQueues ==
    ASSUME QueueInv, UNCHANGED <<queues, tf>>, gpu_encode_semaphore' \in Nat,
           ThreadTypes', Holding' = Holding, tpc' # "none" => tpc # "none",
           tpc' \in {"reset", "take"} => gpu_encoder_queue # <<>>,
           CountInv'
    PROVE  QueueInv'
<1>1. UNCHANGED <<gpu_encoder_avail_queue, gpu_encoder_queue, convert_texture, contents>>
  BY DEF queues
<1>2. InHand' = InHand
  BY DEF InHand
<1>3. QNow' \in QType
  BY <1>1, QNowTypes, GoodTypes DEF QNow, QType
<1>4. /\ QNow'.avail = QNow.avail /\ QNow'.queue = QNow.queue
      /\ QNow'.convert = QNow.convert /\ QNow'.contents = QNow.contents
  BY <1>1, Zenon DEF QNow
<1>5. QNow' \in Good(InHand) /\ (Covers(QNow, InHand) => Covers(QNow', InHand))
  <2>1. PICK r \in QType : r = QNow'
    BY <1>3
  <2>2. PICK q : q = QNow
    OBVIOUS
  <2>3. PICK H : H = InHand
    OBVIOUS
  <2>4. q \in Good(H) /\ r.avail = q.avail /\ r.queue = q.queue /\ r.convert = q.convert /\ r.contents = q.contents
    BY <1>4, <2>1, <2>2, <2>3, Zenon DEF QueueInv
  <2>5. r \in Good(H) /\ (Covers(q, H) => Covers(r, H))
    BY <2>4, GoodSame
  <2>. QED  BY <2>1, <2>2, <2>3, <2>5, Zenon
<1>6. TakenInv'
  BY <1>1, Zenon DEF QueueInv, TakenInv, Holding
<1>. QED  BY <1>1, <1>2, <1>5, <1>6, Zenon DEF QueueInv

(* No queue, no place of the thread and no post changes.                   *)
LEMMA NoQueueStep ==
    ASSUME QueueInv, UNCHANGED <<queues, sync, tpc, wait_frames, tf, handed, served>>,
           encoder_starts' \in Nat
    PROVE  QueueInv'
<1>1. ThreadTypes' /\ Holding' = Holding /\ tpc' = tpc
  BY Zenon DEF QueueInv, ThreadTypes, Holding, sync
<1>2. gpu_encoder_queue' = gpu_encoder_queue /\ gpu_encode_semaphore' = gpu_encode_semaphore
  BY Zenon DEF queues, sync
<1>3. CountInv'
  BY <1>2, Zenon DEF QueueInv, CountInv, Busy, sync
<1>4. UNCHANGED <<queues, tf>> /\ gpu_encode_semaphore' \in Nat
  BY <1>2, GoodTypes
<1>5. tpc' \in {"reset", "take"} => gpu_encoder_queue # <<>>
  BY <1>1 DEF QueueInv
<1>. QED  BY <1>1, <1>3, <1>4, <1>5, SameQueues, Zenon

(* A post is spent on the tick the thread goes for.                        *)
LEMMA SemWaitQueue ==
    ASSUME QueueInv, SemWait
    PROVE  QueueInv'
<1>1. /\ tpc = "wait" /\ tpc' = "woken" /\ gpu_encode_semaphore \in Nat
      /\ gpu_encode_semaphore > 0 /\ gpu_encode_semaphore' = gpu_encode_semaphore - 1
      /\ UNCHANGED <<queues, gpu_encode_inactive, gpu_encode_stop, wait_frames, tf,
                     encoder_starts, handed, served>>
  BY GoodTypes DEF SemWait, gpuHistory
<1>2. ThreadTypes'
  BY <1>1 DEF QueueInv, ThreadTypes
<1>3. Holding' = Holding /\ gpu_encode_semaphore' \in Nat
  BY <1>1 DEF Holding
<1>4. gpu_encoder_queue' = gpu_encoder_queue
  BY <1>1 DEF queues
<1>5. CountInv'
  BY <1>1, <1>4, GoodTypes DEF QueueInv, CountInv, Busy, ThreadTypes
<1>. QED  BY <1>1, <1>2, <1>3, <1>5, SameQueues

(* The thread finds a frame when it looks for one: the post it was woken   *)
(* by is the one of a tick that waits.                                     *)
LEMMA WokenQueue ==
    ASSUME QueueInv, Woken
    PROVE  QueueInv'
<1>1. /\ tpc = "woken" /\ UNCHANGED <<queues, gpu_encode_semaphore, gpu_encode_inactive, gpu_encode_stop,
                                      tf, encoder_starts, handed, served>>
      /\ \/ gpu_encode_stop /\ tpc' = "done" /\ wait_frames' = wait_frames
         \/ /\ ~gpu_encode_stop /\ wait_frames > 0
            /\ wait_frames' = wait_frames - 1 /\ tpc' = "wait"
         \/ ~gpu_encode_stop /\ wait_frames = 0 /\ tpc' = "reset" /\ wait_frames' = wait_frames
  BY Zenon DEF Woken, sync, gpuHistory
<1>2. ThreadTypes'
  BY <1>1 DEF QueueInv, ThreadTypes
<1>3. Holding' = Holding /\ gpu_encode_semaphore' \in Nat /\ ~Holding
  BY <1>1, GoodTypes DEF Holding
<1>4. gpu_encoder_queue' = gpu_encoder_queue
  BY <1>1 DEF queues
<1>5. CountInv'
  BY <1>1, <1>4, GoodTypes, SMTT(30) DEF QueueInv, CountInv, Busy, ThreadTypes
<1>6. tpc' \in {"reset", "take"} => gpu_encoder_queue # <<>>
  <2> SUFFICES ASSUME tpc' = "reset", gpu_encoder_queue = <<>> PROVE FALSE
    BY <1>1
  <2>1. ~gpu_encode_stop /\ wait_frames = 0
    BY <1>1
  <2>2. tf = NoTexFrame
    BY <1>3 DEF QueueInv, TakenInv
  <2>3. TicksOf(gpu_encoder_queue) = 0
    BY TicksOfEmpty
  <2>4. tf.count = 0
    BY <2>2 DEF NoTexFrame
  <2>. QED  BY <1>1, <2>1, <2>3, <2>4, GoodTypes DEF QueueInv, CountInv, Busy
<1>. QED  BY <1>1, <1>2, <1>3, <1>5, <1>6, SameQueues

(* gpu_encode_inactive takes no part in the count.                         *)
LEMMA PlaceQueue ==
    ASSUME QueueInv, ResetInactive \/ SignalInactive
    PROVE  QueueInv'
<1>1. /\ (tpc = "reset" /\ tpc' = "take") \/ (tpc = "signal" /\ tpc' = "wait")
      /\ UNCHANGED <<queues, gpu_encode_semaphore, gpu_encode_stop, wait_frames, tf,
                     encoder_starts, handed, served>>
      /\ gpu_encode_inactive' \in BOOLEAN
  BY Zenon DEF ResetInactive, SignalInactive, gpuHistory
<1>2. ThreadTypes'
  BY <1>1 DEF QueueInv, ThreadTypes
<1>3. Holding' = Holding /\ gpu_encode_semaphore' \in Nat
  BY <1>1, GoodTypes DEF Holding
<1>4. gpu_encoder_queue' = gpu_encoder_queue
  BY <1>1 DEF queues
<1>5. CountInv'
  BY <1>1, <1>4 DEF QueueInv, CountInv, Busy
<1>6. tpc' \in {"reset", "take"} => gpu_encoder_queue # <<>>
  BY <1>1 DEF QueueInv
<1>. QED  BY <1>1, <1>2, <1>3, <1>5, <1>6, SameQueues

(* While the frame goes to the encoders it stays in hand.                  *)
LEMMA EncodeQueue ==
    ASSUME QueueInv, EncodeNext \/ EncodeFails
    PROVE  QueueInv'
<1>1. /\ tpc = "encode" /\ tpc' \in {"encode", "failing"}
      /\ UNCHANGED <<queues, gpu_encode_semaphore, gpu_encode_inactive, gpu_encode_stop, wait_frames, tf,
                     encoder_starts, handed, served>>
  BY DEF EncodeNext, EncodeFails, gpuHistory, sync
<1>2. ThreadTypes'
  BY <1>1 DEF QueueInv, ThreadTypes
<1>3. Holding' = Holding /\ gpu_encode_semaphore' \in Nat
  BY <1>1, GoodTypes DEF Holding
<1>4. gpu_encoder_queue' = gpu_encoder_queue
  BY <1>1 DEF queues
<1>5. CountInv'
  BY <1>1, <1>4 DEF QueueInv, CountInv, Busy
<1>. QED  BY <1>1, <1>2, <1>3, <1>5, SameQueues

(* Once gpu_encode_stop is up, posts are no longer counted.                *)
LEMMA StopThreadQueue ==
    ASSUME QueueInv, NEW e \in Encoders, StopThread(e)
    PROVE  QueueInv'
<1>1. /\ gpu_encode_stop' = TRUE /\ gpu_encode_semaphore' = gpu_encode_semaphore + 1
      /\ UNCHANGED <<queues, tpc, gpu_encode_inactive, wait_frames, tf, encoder_starts, handed, served>>
  BY DEF StopThread, PostStop, thread, gpuHistory
<1>2. ThreadTypes'
  BY <1>1 DEF QueueInv, ThreadTypes
<1>3. Holding' = Holding /\ gpu_encode_semaphore' \in Nat
  BY <1>1, GoodTypes DEF Holding
<1>5. CountInv'
  BY <1>1 DEF CountInv
<1>6. tpc' \in {"reset", "take"} => gpu_encoder_queue # <<>>
  BY <1>1 DEF QueueInv
<1>. QED  BY <1>1, <1>2, <1>3, <1>5, <1>6, SameQueues

(* The thread is gone.                                                     *)
LEMMA JoinQueue ==
    ASSUME QueueInv, NEW e \in Encoders, Join(e)
    PROVE  QueueInv'
<1>1. /\ tpc = "done" /\ tpc' = "none"
      /\ UNCHANGED <<queues, gpu_encode_semaphore, gpu_encode_inactive, gpu_encode_stop, wait_frames, tf,
                     encoder_starts, handed, served>>
  BY DEF Join, sync, gpuHistory
<1>2. ThreadTypes'
  BY <1>1 DEF QueueInv, ThreadTypes
<1>3. Holding' = Holding /\ gpu_encode_semaphore' \in Nat
  BY <1>1, GoodTypes DEF Holding
<1>5. CountInv'
  BY <1>1 DEF CountInv
<1>. QED  BY <1>1, <1>2, <1>3, <1>5, SameQueues

(* output_frame keeps the invariants, and leaves the queues of an encoding *)
(* that has not begun empty.                                               *)
LEMMA OutputQueue ==
    ASSUME QueueInv, MixInv, OutputFrame
    PROVE  /\ QueueInv' /\ MixInv'
           /\ (gpu_encoder_avail_queue = <<>> /\ gpu_encoder_queue = <<>>) =>
                 (gpu_encoder_avail_queue' = <<>> /\ gpu_encoder_queue' = <<>>)
<1>0. /\ OutputRaw /\ OutputGpu
      /\ UNCHANGED <<gpu_encode_inactive, gpu_encode_stop, tpc, wait_frames, tf, encoder_starts, served>>
  BY DEF OutputFrame, thread
<1>1. /\ QNow' \in Good(InHand) /\ (Covers(QNow, InHand) => Covers(QNow', InHand))
      /\ \A x \in InHand : contents'[x] = contents[x]
      /\ (gpu_encoder_avail_queue = <<>> /\ gpu_encoder_queue = <<>>) =>
            (gpu_encoder_avail_queue' = <<>> /\ gpu_encoder_queue' = <<>>)
      /\ gpu_encoder_queue # <<>> => gpu_encoder_queue' # <<>>
      /\ vframe_info_buffer_gpu' \in Infos /\ handed' \in Nat
      /\ Covers(QNow, InHand) =>
            \E n \in Nat : /\ TicksOf(gpu_encoder_queue') = TicksOf(gpu_encoder_queue) + n
                           /\ gpu_encode_semaphore' = gpu_encode_semaphore + n
                           /\ handed' = IF tpc = "none" THEN handed ELSE handed + n
  BY <1>0, OutputGpuGood DEF MixInv
<1>2. MixInv'
  BY <1>0, <1>1, MixOutput
<1>3. ThreadTypes'
  BY <1>0, <1>1, Zenon DEF QueueInv, ThreadTypes
<1>4. TakenInv' /\ InHand' = InHand
  <2>1. Holding' = Holding /\ InHand' = InHand
    BY <1>0 DEF Holding, InHand
  <2>2. Holding => tf.tex \in InHand
    BY DEF InHand
  <2>. QED  BY <1>0, <1>1, <2>1, <2>2, Zenon DEF QueueInv, TakenInv
<1>5. ASSUME tpc # "none"
      PROVE  /\ Covers(QNow, InHand)
             /\ \E n \in Nat : /\ TicksOf(gpu_encoder_queue') = TicksOf(gpu_encoder_queue) + n
                               /\ gpu_encode_semaphore' = gpu_encode_semaphore + n
                               /\ handed' = handed + n
  BY <1>1, <1>5 DEF QueueInv
<1>6. CountInv'
  <2> SUFFICES ASSUME tpc # "none", ~gpu_encode_stop
               PROVE  /\ handed' = served + (TicksOf(gpu_encoder_queue') + tf.count)
                      /\ TicksOf(gpu_encoder_queue') + tf.count
                            = gpu_encode_semaphore' + (1 - wait_frames) + Busy
    BY <1>0, Zenon DEF CountInv, Busy
  <2>1. PICK n \in Nat : /\ TicksOf(gpu_encoder_queue') = TicksOf(gpu_encoder_queue) + n
                         /\ gpu_encode_semaphore' = gpu_encode_semaphore + n
                         /\ handed' = handed + n
    BY <1>5
  <2>2. Busy \in Int /\ served \in Int /\ handed \in Int /\ wait_frames \in Int
    BY DEF Busy, QueueInv, ThreadTypes
  <2>3. /\ handed = served + (TicksOf(gpu_encoder_queue) + tf.count)
        /\ TicksOf(gpu_encoder_queue) + tf.count = gpu_encode_semaphore + (1 - wait_frames) + Busy
    BY Zenon DEF QueueInv, CountInv
  <2>4. TicksOf(gpu_encoder_queue) \in Int /\ tf.count \in Int /\ gpu_encode_semaphore \in Int
    BY GoodTypes
  <2> DEFINE t == TicksOf(gpu_encoder_queue)
             u == TicksOf(gpu_encoder_queue')
             c == tf.count
  <2> HIDE DEF t, u, c
  <2>5. handed = served + (t + c) /\ t + c = gpu_encode_semaphore + (1 - wait_frames) + Busy
        /\ u = t + n /\ t \in Int /\ c \in Int
    BY <2>1, <2>3, <2>4, Zenon DEF t, u, c
  <2>6. handed' = served + (u + c) /\ u + c = gpu_encode_semaphore' + (1 - wait_frames) + Busy
    BY <2>1, <2>2, <2>4, <2>5
  <2>. QED  BY <2>6, Zenon DEF t, u, c
<1>7. tpc' \in {"reset", "take"} => gpu_encoder_queue' # <<>>
  BY <1>0, <1>1 DEF QueueInv
<1>. QED  BY <1>0, <1>1, <1>2, <1>3, <1>4, <1>6, <1>7, Zenon DEF QueueInv

(* The taken frame counts as waiting until it was encoded.                 *)
LEMMA TakeQueue ==
    ASSUME QueueInv, Take
    PROVE  QueueInv'
<1>1. /\ tpc = "take" /\ tpc' = "encode" /\ tf' = Head(gpu_encoder_queue)
      /\ gpu_encoder_queue' = Tail(gpu_encoder_queue)
      /\ UNCHANGED <<gpu_encoder_avail_queue, convert_texture, contents, gpu_encode_semaphore,
                     gpu_encode_inactive, gpu_encode_stop, wait_frames,
                     encoder_starts, handed, served>>
  BY DEF Take, sync, gpuHistory
<1>2. gpu_encoder_queue # <<>> /\ InHand = {} /\ Holding' /\ InHand' = {tf'.tex}
  BY <1>1 DEF QueueInv, InHand, Holding
<1>3. QNow' \in QType
  <2>1. \A w \in Seq(TexFrames) : w # <<>> => Tail(w) \in Seq(TexFrames)
    OBVIOUS
  <2>2. gpu_encoder_queue' \in Seq(TexFrames)
    BY <1>1, <1>2, <2>1, GoodTypes, Zenon
  <2>3. /\ gpu_encoder_avail_queue' \in Seq(Textures) /\ convert_texture' \in Textures
        /\ contents' \in [Textures -> Nat] /\ gpu_encode_semaphore' \in Nat
    BY <1>1, GoodTypes, Zenon
  <2>. QED  BY <2>2, <2>3 DEF QNow, QType
<1>4. /\ QNow' \in Good({tf'.tex}) /\ (Covers(QNow, {}) => Covers(QNow', {tf'.tex}))
      /\ tf' \in TexFrames /\ tf'.tex \in Textures /\ tf'.count > 0 /\ contents'[tf'.tex] = tf'.picture
      /\ TicksOf(gpu_encoder_queue) = TicksOf(gpu_encoder_queue') + tf'.count
  <2>1. PICK q : q = QNow
    OBVIOUS
  <2>2. PICK r : r = QNow'
    OBVIOUS
  <2>3. PICK h : h = tf'
    OBVIOUS
  <2>4. PICK t : t = h.tex
    OBVIOUS
  <2>5. /\ q.avail = gpu_encoder_avail_queue /\ q.queue = gpu_encoder_queue
        /\ q.convert = convert_texture /\ q.contents = contents
        /\ r.avail = gpu_encoder_avail_queue' /\ r.queue = gpu_encoder_queue'
        /\ r.convert = convert_texture' /\ r.contents = contents'
    BY <2>1, <2>2 DEF QNow
  <2>6. q \in Good({}) /\ q \in QType
    BY <1>2, <2>1 DEF QueueInv, Good
  <2>7. SamePlace(q, r)
    BY <1>1, <1>3, <2>2, <2>5, <2>6 DEF SamePlace
  <2>8. r.avail = q.avail /\ q.queue # <<>> /\ h = Head(q.queue) /\ r.queue = Tail(q.queue)
    BY <1>1, <1>2, <2>3, <2>5, Zenon
  <2>9. Takes(q, r, h, t)
    BY <2>4, <2>6, <2>7, <2>8, Zenon DEF Takes
  <2>10. Took(q, r, h, t)
    BY <2>9, TakeGood, Zenon
  <2>. QED  BY <2>1, <2>2, <2>3, <2>4, <2>5, <2>10, Zenon DEF Took
<1>5. ThreadTypes'
  BY <1>1 DEF QueueInv, ThreadTypes
<1>6. TakenInv'
  BY <1>2, <1>4 DEF TakenInv
<1>7. CountInv'
  <2>1. tf.count = 0
    BY <1>1 DEF QueueInv, TakenInv, Holding, NoTexFrame
  <2>2. tf'.count \in Nat /\ TicksOf(gpu_encoder_queue') \in Int
    BY <1>3, <1>4, TexFrameCount, TicksOfType DEF QNow, QType
  <2>3. TicksOf(gpu_encoder_queue) + tf.count = TicksOf(gpu_encoder_queue') + tf'.count
    BY <1>4, <2>1, <2>2
  <2>4. Busy' = Busy
    BY <1>1 DEF Busy
  <2>. QED  BY <1>1, <2>3, <2>4 DEF QueueInv, CountInv
<1>. QED  BY <1>1, <1>2, <1>4, <1>5, <1>6, <1>7, Zenon DEF QueueInv

(* The frame with its first tick served.                                   *)
LEMMA OneTickLess ==
    ASSUME NEW f \in TexFrames
    PROVE  [f EXCEPT !.count = @ - 1, !.timestamp = @ + 1] =
             [tex |-> f.tex, timestamp |-> f.timestamp + 1, count |-> f.count - 1,
              picture |-> f.picture]
<1> DEFINE c == f.count - 1
           s == f.timestamp + 1
<1> HIDE DEF c, s
<1>1. PICK g : g = [f EXCEPT !.count = c]
  OBVIOUS
<1>2. g = [tex |-> f.tex, timestamp |-> f.timestamp, count |-> c, picture |-> f.picture]
  BY <1>1 DEF TexFrames
<1>3. [g EXCEPT !.timestamp = s] =
         [tex |-> f.tex, timestamp |-> s, count |-> c, picture |-> f.picture]
  BY <1>2
<1>4. [f EXCEPT !.count = c, !.timestamp = s] = [g EXCEPT !.timestamp = s]
  BY <1>1, Zenon
<1>. QED  BY <1>3, <1>4, Zenon DEF c, s

(* A tick is served: the count goes down with the post it had.             *)
LEMMA ReturnQueue ==
    ASSUME QueueInv, Return
    PROVE  QueueInv'
<1>1. /\ tpc = "encode" /\ tpc' = "signal" /\ tf' = NoTexFrame /\ served' = served + 1
      /\ UNCHANGED <<convert_texture, contents, gpu_encode_semaphore,
                     gpu_encode_inactive, gpu_encode_stop, wait_frames, encoder_starts, handed>>
  BY DEF Return, sync
<1>2. /\ Holding /\ InHand = {tf.tex} /\ ~Holding' /\ InHand' = {}
      /\ tf \in TexFrames /\ tf.tex \in Textures /\ tf.count > 0 /\ contents[tf.tex] = tf.picture
      /\ tf.count \in Nat
  BY <1>1, GoodTypes DEF QueueInv, TakenInv, InHand, Holding
<1>3. PICK q : q = QNow
  OBVIOUS
<1>4. PICK r : r = QNow'
  OBVIOUS
<1>5. PICK t \in Textures : t = tf.tex
  BY <1>2
<1>6. /\ q.avail = gpu_encoder_avail_queue /\ q.queue = gpu_encoder_queue
      /\ q.convert = convert_texture /\ q.contents = contents
      /\ r.avail = gpu_encoder_avail_queue' /\ r.queue = gpu_encoder_queue'
      /\ r.convert = convert_texture' /\ r.contents = contents' /\ r.posts = gpu_encode_semaphore'
      /\ r.convert = q.convert /\ r.contents = q.contents
  BY <1>1, <1>3, <1>4 DEF QNow
<1>7. q \in Good({t}) /\ q \in QType
  BY <1>2, <1>3, <1>5 DEF QueueInv, Good
<1>8. ASSUME gpu_encoder_avail_queue' \in Seq(Textures), gpu_encoder_queue' \in Seq(TexFrames)
      PROVE  SamePlace(q, r)
  <2>1. convert_texture' \in Textures /\ contents' \in [Textures -> Nat] /\ gpu_encode_semaphore' \in Nat
    BY <1>1, GoodTypes, Zenon
  <2>2. r \in QType
    BY <1>4, <1>8, <2>1 DEF QNow, QType
  <2>. QED  BY <1>6, <1>7, <2>2 DEF SamePlace
<1>9. /\ r \in Good({}) /\ (Covers(q, {t}) => Covers(r, {}))
      /\ TicksOf(gpu_encoder_queue') = TicksOf(gpu_encoder_queue) + (tf.count - 1)
  <2>1. CASE tf.count > 1
    <3> DEFINE f == [tf EXCEPT !.count = @ - 1, !.timestamp = @ + 1]
    <3>1. gpu_encoder_queue' = <<f>> \o gpu_encoder_queue /\ gpu_encoder_avail_queue' = gpu_encoder_avail_queue
      BY <2>1 DEF Return
    <3>2. f \in TexFrames /\ f.tex = tf.tex /\ f.count = tf.count - 1 /\ f.count > 0 /\ f.picture = tf.picture
      <4>1. tf.timestamp \in Nat /\ tf.picture \in Nat /\ tf.count \in Nat /\ tf.tex \in Textures \cup {None}
        BY <1>2 DEF TexFrames
      <4>2. f = [tex |-> tf.tex, timestamp |-> tf.timestamp + 1, count |-> tf.count - 1, picture |-> tf.picture]
        BY <1>2, OneTickLess, Zenon DEF f
      <4>3. tf.timestamp + 1 \in Nat /\ tf.count - 1 \in Nat /\ tf.count - 1 > 0
        BY <2>1, <4>1
      <4> HIDE DEF f
      <4>. QED  BY <4>1, <4>2, <4>3 DEF TexFrames
    <3> HIDE DEF f
    <3>3. gpu_encoder_queue' \in Seq(TexFrames) /\ gpu_encoder_avail_queue' \in Seq(Textures)
      <4>1. \A w \in Seq(TexFrames) : <<f>> \o w \in Seq(TexFrames)
        BY <3>2
      <4>. QED  BY <3>1, <4>1, GoodTypes, Zenon
    <3>4. PICK g \in TexFrames : g = f
      BY <3>2
    <3>5. /\ SamePlace(q, r) /\ r.avail = q.avail /\ t = g.tex /\ g.count > 0
          /\ q.contents[t] = g.picture /\ r.queue = <<g>> \o q.queue
      BY <1>2, <1>5, <1>6, <1>8, <3>1, <3>2, <3>3, <3>4, Zenon
    <3>6. /\ r \in Good({}) /\ (Covers(q, {t}) => Covers(r, {}))
          /\ TicksOf(r.queue) = TicksOf(q.queue) + g.count
      BY <1>7, <3>5, KeepGood
    <3>. QED  BY <1>6, <3>2, <3>4, <3>6, Zenon
  <2>2. CASE ~(tf.count > 1)
    <3>1. gpu_encoder_queue' = gpu_encoder_queue
          /\ gpu_encoder_avail_queue' = Append(gpu_encoder_avail_queue, tf.tex)
      BY <2>2 DEF Return
    <3>2. gpu_encoder_queue' \in Seq(TexFrames) /\ gpu_encoder_avail_queue' \in Seq(Textures)
      BY <1>2, <3>1, GoodTypes
    <3>3. SamePlace(q, r) /\ r.queue = q.queue /\ r.avail = Append(q.avail, t)
      BY <1>5, <1>6, <1>8, <3>1, <3>2, Zenon
    <3>4. r \in Good({}) /\ (Covers(q, {t}) => Covers(r, {}))
      BY <1>7, <3>3, FreeGood
    <3>5. tf.count - 1 = 0 /\ TicksOf(gpu_encoder_queue) \in Int
      BY <1>2, <2>2, GoodTypes
    <3>6. TicksOf(gpu_encoder_queue') = TicksOf(gpu_encoder_queue) + (tf.count - 1)
      BY <3>1, <3>5
    <3>. QED  BY <3>4, <3>6
  <2>. QED  BY <2>1, <2>2
<1>10. QNow' \in Good(InHand') /\ (Covers(QNow, InHand) => Covers(QNow', InHand'))
  BY <1>2, <1>3, <1>4, <1>5, <1>9, Zenon
<1>11. ThreadTypes'
  BY <1>1 DEF QueueInv, ThreadTypes
<1>12. TakenInv'
  <2>1. NoTexFrame \in TexFrames
    BY DEF NoTexFrame, TexFrames
  <2>. QED  BY <1>1, <1>2, <2>1, Zenon DEF TakenInv
<1>13. CountInv'
  <2> SUFFICES ASSUME tpc # "none", ~gpu_encode_stop
               PROVE  /\ handed = served' + (TicksOf(gpu_encoder_queue') + tf'.count)
                      /\ TicksOf(gpu_encoder_queue') + tf'.count
                            = gpu_encode_semaphore + (1 - wait_frames) + Busy'
    BY <1>1 DEF CountInv
  <2>1. tf'.count = 0 /\ Busy' = 0 /\ Busy = 1
    BY <1>1 DEF NoTexFrame, Busy
  <2>2. /\ handed = served + (TicksOf(gpu_encoder_queue) + tf.count)
        /\ TicksOf(gpu_encoder_queue) + tf.count = gpu_encode_semaphore + (1 - wait_frames) + Busy
    BY Zenon DEF QueueInv, CountInv
  <2>3. TicksOf(gpu_encoder_queue) \in Int /\ gpu_encode_semaphore \in Int
    BY GoodTypes
  <2>4. served \in Int /\ wait_frames \in Int
    BY DEF QueueInv, ThreadTypes
  <2> DEFINE a == TicksOf(gpu_encoder_queue)
             b == TicksOf(gpu_encoder_queue')
             c == tf.count
             d == tf'.count
  <2>5. /\ handed = served + (a + c) /\ a + c = gpu_encode_semaphore + (1 - wait_frames) + 1
        /\ b = a + (c - 1) /\ d = 0 /\ a \in Int /\ c \in Int
    BY <1>2, <1>9, <2>1, <2>2, <2>3
  <2> HIDE DEF a, b, c, d
  <2>6. handed = served' + (b + d) /\ b + d = gpu_encode_semaphore + (1 - wait_frames) + 0
    BY <1>1, <2>3, <2>4, <2>5
  <2>. QED  BY <2>1, <2>6, Zenon DEF b, d
<1>14. tpc' \notin {"reset", "take"} /\ tpc # "none"
  BY <1>1
<1>. QED  BY <1>10, <1>11, <1>12, <1>13, <1>14, Zenon DEF QueueInv

\* Where an encoder stands that is being stopped.
Ends == {"leaving", "waiting", "last", "joining", "freeing"}
On == {e \in Encoders : spc[e] = "on"}

\* One encoder is stopped at a time, the list says which are started, and
\* without any of them there is no thread and no texture.
PhaseInv ==
    /\ ServiceInv
    /\ \A e, f \in Encoders : spc[e] \in Ends /\ spc[f] \in Ends => e = f
    /\ \A e \in Encoders : spc[e] \in {"added", "on", "leaving"} => InList(gpu_encoders, e)
    /\ \A e \in Encoders : spc[e] = "waiting" => gpu_encoders # <<>>
    /\ gpu_encoders = <<>> /\ (\A e \in Encoders : spc[e] = "off") =>
          tpc = "none" /\ gpu_encoder_avail_queue = <<>> /\ gpu_encoder_queue = <<>>
    /\ gpu_encoder_active = Cardinality(On)

(* No encoder is started in the beginning.                                 *)
LEMMA InitPhaseInv == Init => PhaseInv
<1> SUFFICES ASSUME Init PROVE PhaseInv
  OBVIOUS
<1>1. On = {} /\ gpu_encoder_active = 0
  BY DEF Init, MixInit, On
<1>2. gpu_encoder_active = Cardinality(On)
  BY <1>1, FS_EmptySet
<1>3. ServiceInv
  BY InitServiceInv
<1>. QED  BY <1>2, <1>3 DEF Init, PhaseInv, Ends

(* The count of started encoders is one.                                   *)
LEMMA ActiveIsNat == ASSUME PhaseInv PROVE gpu_encoder_active \in Nat
<1>1. IsFiniteSet(On)
  BY EncodersAssumption, FS_Subset DEF On
<1>. QED  BY <1>1, FS_CardinalityType, Zenon DEF PhaseInv

(* gpu_encoder_active counts the encoders that are on.                     *)
LEMMA OnAfter ==
    ASSUME PhaseInv, NEW e \in Encoders, NEW v, spc' = [spc EXCEPT ![e] = v],
           \/ spc[e] # "on" /\ v # "on" /\ gpu_encoder_active' = gpu_encoder_active
           \/ spc[e] # "on" /\ v = "on" /\ gpu_encoder_active' = gpu_encoder_active + 1
           \/ spc[e] = "on" /\ v # "on" /\ gpu_encoder_active' = gpu_encoder_active - 1
    PROVE  gpu_encoder_active' = Cardinality(On')
<1>0. /\ IsFiniteSet(On) /\ Cardinality(On) \in Nat /\ gpu_encoder_active = Cardinality(On)
      /\ spc \in [Encoders -> {"off", "added", "on", "leaving", "waiting", "last",
                             "joining", "freeing"}]
  <2>1. IsFiniteSet(On)
    BY EncodersAssumption, FS_Subset DEF On
  <2>. QED  BY <2>1, FS_CardinalityType, Zenon DEF PhaseInv, ServiceInv
<1>1. CASE spc[e] # "on" /\ v # "on" /\ gpu_encoder_active' = gpu_encoder_active
  <2>1. On' = On
    BY <1>0, <1>1 DEF On
  <2>. QED  BY <1>0, <1>1, <2>1
<1>2. CASE spc[e] # "on" /\ v = "on" /\ gpu_encoder_active' = gpu_encoder_active + 1
  <2>1. On' = On \cup {e} /\ e \notin On
    BY <1>0, <1>2 DEF On
  <2>2. Cardinality(On \cup {e}) = Cardinality(On) + 1
    BY <1>0, <2>1, FS_AddElement
  <2>. QED  BY <1>0, <1>2, <2>1, <2>2
<1>3. CASE spc[e] = "on" /\ v # "on" /\ gpu_encoder_active' = gpu_encoder_active - 1
  <2>1. On' = On \ {e} /\ e \in On
    BY <1>0, <1>3 DEF On
  <2>2. Cardinality(On \ {e}) = Cardinality(On) - 1
    BY <1>0, <2>1, FS_RemoveElement
  <2>. QED  BY <1>0, <1>3, <2>1, <2>2
<1>. QED  BY <1>1, <1>2, <1>3

(* A step that starts and stops no encoder and no thread.                  *)
LEMMA SamePhase ==
    ASSUME PhaseInv, ServiceInv', UNCHANGED <<gpu_encoders, spc, gpu_encoder_active>>,
           tpc = "none" => tpc' = "none",
           gpu_encoder_avail_queue = <<>> /\ gpu_encoder_queue = <<>> =>
              tpc # "none" \/ (gpu_encoder_avail_queue' = <<>> /\ gpu_encoder_queue' = <<>>)
    PROVE  PhaseInv'
BY Zenon DEF PhaseInv, InList, On

(* gpu_encode_thread starts and stops no encoder.                          *)
LEMMA ThreadPhase ==
    ASSUME PhaseInv, ServiceInv', Thread
    PROVE  PhaseInv'
<1>1. UNCHANGED <<gpu_encoders, spc, gpu_encoder_active>> /\ tpc # "none"
  BY DEF Thread, SemWait, Woken, ResetInactive, Take, EncodeNext, Return, SignalInactive, mixVars
<1>. QED  BY <1>1, SamePhase

(* start_gpu_encode, and the first step of stop_gpu_encode.                *)
LEMMA StepPhase ==
    ASSUME PhaseInv, ServiceInv', NEW e \in Encoders,
           StartGpuEncode(e) \/ Started(e) \/ StopGpuEncode(e)
    PROVE  PhaseInv'
<1>0. spc \in [Encoders -> {"off", "added", "on", "leaving", "waiting", "last",
                             "joining", "freeing"}]
  BY DEF PhaseInv, ServiceInv
<1>1. CASE StartGpuEncode(e)
  <2>1. /\ spc[e] = "off" /\ spc' = [spc EXCEPT ![e] = "added"]
        /\ gpu_encoders' = Append(gpu_encoders, e) /\ gpu_encoder_active' = gpu_encoder_active
    BY <1>1 DEF StartGpuEncode, mixVars
  <2>2. gpu_encoder_active' = Cardinality(On')
    BY <2>1, OnAfter
  <2>3. \A f : (InList(gpu_encoders, f) \/ f = e) => InList(gpu_encoders', f)
    <3>1. /\ gpu_encoders \in Seq(Encoders) /\ DOMAIN gpu_encoders' = 1..Len(gpu_encoders) + 1
          /\ gpu_encoders'[Len(gpu_encoders) + 1] = e /\ Len(gpu_encoders) \in Nat
          /\ \A i \in DOMAIN gpu_encoders : i \in DOMAIN gpu_encoders' /\ gpu_encoders'[i] = gpu_encoders[i]
      BY <2>1 DEF PhaseInv, ServiceInv
    <3>2. Len(gpu_encoders) + 1 \in DOMAIN gpu_encoders'
      BY <3>1
    <3>. QED  BY <3>1, <3>2, Zenon DEF InList
  <2>4. gpu_encoders' # <<>>
    BY <2>1 DEF PhaseInv, ServiceInv
  <2>5. \A f \in Encoders : spc'[f] = IF f = e THEN "added" ELSE spc[f]
    BY <1>0, <2>1
  <2>. QED  BY <2>2, <2>3, <2>4, <2>5 DEF PhaseInv, Ends
<1>2. CASE Started(e)
  <2>1. /\ spc[e] = "added" /\ spc' = [spc EXCEPT ![e] = "on"]
        /\ gpu_encoders' = gpu_encoders /\ gpu_encoder_active' = gpu_encoder_active + 1
    BY <1>2 DEF Started
  <2>2. gpu_encoder_active' = Cardinality(On')
    BY <2>1, OnAfter
  <2>5. \A f \in Encoders : spc'[f] = IF f = e THEN "on" ELSE spc[f]
    BY <1>0, <2>1
  <2>6. \A f \in Encoders : spc'[f] \in {"added", "on", "leaving"} => InList(gpu_encoders', f)
    BY <2>1, <2>5 DEF PhaseInv, InList
  <2>. QED  BY <2>1, <2>2, <2>5, <2>6 DEF PhaseInv, Ends
<1>3. CASE StopGpuEncode(e)
  <2>1. /\ spc[e] = "on" /\ spc' = [spc EXCEPT ![e] = "leaving"]
        /\ \A f \in Encoders : spc[f] \in {"off", "added", "on"}
        /\ gpu_encoders' = gpu_encoders /\ gpu_encoder_active' = gpu_encoder_active - 1
    BY <1>3 DEF StopGpuEncode
  <2>2. gpu_encoder_active' = Cardinality(On')
    BY <2>1, OnAfter
  <2>5. \A f \in Encoders : spc'[f] = IF f = e THEN "leaving" ELSE spc[f]
    BY <1>0, <2>1
  <2>6. \A f \in Encoders : spc'[f] \in {"added", "on", "leaving"} => InList(gpu_encoders', f)
    BY <2>1, <2>5 DEF PhaseInv, InList
  <2>. QED  BY <2>1, <2>2, <2>5, <2>6 DEF PhaseInv, Ends
<1>. QED  BY <1>1, <1>2, <1>3

(* An encode error stops its encoder like any other stop.                  *)
LEMMA FailsPhase ==
    ASSUME PhaseInv, ServiceInv', EncodeFails
    PROVE  PhaseInv'
<1>0. /\ spc \in [Encoders -> {"off", "added", "on", "leaving", "waiting", "last",
                             "joining", "freeing"}]
      /\ todo \in Seq(Encoders) /\ todo # <<>>
  BY DEF PhaseInv, ServiceInv, EncodeFails
<1>1. PICK e \in Encoders : e = Head(todo)
  <2>1. \A w \in Seq(Encoders) : w # <<>> => Head(w) \in Encoders
    OBVIOUS
  <2>. QED  BY <1>0, <2>1, Zenon
<1>2. /\ spc[e] = "on" /\ spc' = [spc EXCEPT ![e] = "leaving"]
      /\ \A f \in Encoders : spc[f] \in {"off", "on"}
      /\ gpu_encoders' = gpu_encoders /\ gpu_encoder_active' = gpu_encoder_active - 1
  BY <1>1, Zenon DEF EncodeFails
<1>3. gpu_encoder_active' = Cardinality(On')
  BY <1>2, OnAfter
<1>5. \A f \in Encoders : spc'[f] = IF f = e THEN "leaving" ELSE spc[f]
  BY <1>0, <1>2
<1>6. \A f \in Encoders : spc'[f] \in {"added", "on", "leaving"} => InList(gpu_encoders', f)
  BY <1>2, <1>5 DEF PhaseInv, InList
<1>. QED  BY <1>2, <1>3, <1>5, <1>6 DEF PhaseInv, Ends

(* stop_gpu_encode: the queues are empty when the last stop is over, and   *)
(* one that waits is not the last.                                         *)
LEMMA StopPhase ==
    ASSUME PhaseInv, ServiceInv', NEW e \in Encoders, Stopping(e)
    PROVE  PhaseInv'
<1>0. /\ spc \in [Encoders -> {"off", "added", "on", "leaving", "waiting", "last",
                             "joining", "freeing"}]
      /\ gpu_encoders \in Seq(Encoders)
  BY DEF PhaseInv, ServiceInv
<1>1. CASE Erase(e)
  <2>1. PICK k \in DOMAIN gpu_encoders : /\ gpu_encoders[k] = e
                                         /\ gpu_encoders' = RemoveAt(gpu_encoders, k)
    BY <1>1 DEF Erase
  <2>2. PICK w \in {"last", "waiting"} : /\ spc' = [spc EXCEPT ![e] = w]
                                         /\ w = "waiting" => gpu_encoders' # <<>>
    BY <1>1 DEF Erase
  <2>3. spc[e] = "leaving" /\ gpu_encoder_active' = gpu_encoder_active
    BY <1>1 DEF Erase, mixVars
  <2>4. gpu_encoder_active' = Cardinality(On')
    BY <2>2, <2>3, OnAfter
  <2>5. \A f \in Encoders : spc'[f] = IF f = e THEN w ELSE spc[f]
    BY <1>0, <2>2
  <2>6. ASSUME NEW f \in Encoders, spc'[f] \in {"added", "on", "leaving"}
        PROVE  InList(gpu_encoders', f)
    <3>1. f # e /\ spc[f] \in {"added", "on", "leaving"}
      BY <2>5, <2>6
    <3>2. PICK j \in DOMAIN gpu_encoders : gpu_encoders[j] = f
      BY <3>1 DEF PhaseInv, InList
    <3>3. j # k
      BY <2>1, <3>1, <3>2
    <3>. QED  BY <1>0, <2>1, <3>2, <3>3, RemovedKeeps, Zenon
  <2>7. \A f \in Encoders : spc'[f] = "waiting" => f = e
    BY <2>3, <2>5 DEF PhaseInv, Ends
  <2>8. \A f, g \in Encoders : spc'[f] \in Ends /\ spc'[g] \in Ends => f = g
    BY <2>3, <2>5 DEF PhaseInv, Ends
  <2>. QED  BY <2>2, <2>4, <2>5, <2>6, <2>7, <2>8 DEF PhaseInv
<1>2. ASSUME NEW v \in {"off", "joining", "freeing"}, spc[e] \in Ends \ {"leaving"}, spc' = [spc EXCEPT ![e] = v],
             UNCHANGED <<gpu_encoders, gpu_encoder_active>>,
             v = "off" => gpu_encoders # <<>> \/ (tpc' = "none" /\ gpu_encoder_avail_queue' = <<>> /\ gpu_encoder_queue' = <<>>)
      PROVE  PhaseInv'
  <2>1. spc[e] # "on" /\ v # "on"
    BY <1>2 DEF Ends
  <2>4. gpu_encoder_active' = Cardinality(On')
    BY <1>2, <2>1, OnAfter
  <2>5. \A f \in Encoders : spc'[f] = IF f = e THEN v ELSE spc[f]
    BY <1>0, <1>2
  <2>6. \A f \in Encoders : spc'[f] \in {"added", "on", "leaving"} => InList(gpu_encoders', f)
    BY <1>2, <2>5 DEF PhaseInv, InList
  <2>8. \A f, g \in Encoders : spc'[f] \in Ends /\ spc'[g] \in Ends => f = g
    BY <1>2, <2>5 DEF PhaseInv, Ends
  <2>9. \A f \in Encoders : spc'[f] = "waiting" => gpu_encoders' # <<>>
    BY <1>2, <2>5 DEF PhaseInv
  <2>10. v # "off" => spc'[e] # "off"
    BY <2>5
  <2>. QED  BY <1>2, <2>4, <2>6, <2>8, <2>9, <2>10, Zenon DEF PhaseInv
<1>3. CASE WaitInactive(e)
  BY <1>2, <1>3 DEF WaitInactive, PhaseInv, Ends, mixVars
<1>4. CASE StopThread(e)
  BY <1>2, <1>4 DEF StopThread, Ends, mixVars
<1>5. CASE Join(e)
  BY <1>2, <1>5 DEF Join, Ends, mixVars
<1>6. CASE Free(e)
  <2>1. tpc' = "none"
    BY <1>6 DEF Free, thread, PhaseInv, ServiceInv
  <2>. QED  BY <1>2, <1>6, <2>1 DEF Free, Ends, mixVars
<1>. QED  BY <1>1, <1>3, <1>4, <1>5, <1>6 DEF Stopping

(* Empty queues share nothing.                                             *)
LEMMA EmptyGood ==
    ASSUME NEW q \in QType, q.avail = <<>>, q.queue = <<>>
    PROVE  q \in Good({})
<1>1. DOMAIN q.avail = {} /\ DOMAIN q.queue = {}
  OBVIOUS
<1>. QED  BY <1>1, Zenon DEF Good, Apart, Whole

(* init_gpu_encoding shares out all textures.                              *)
LEMMA FreshGood ==
    ASSUME NEW q \in QType, q.avail = SetToSeq(Textures \ {q.convert}), q.queue = <<>>
    PROVE  q \in Good({}) /\ Covers(q, {})
<1> DEFINE S == Textures \ {q.convert}
<1>1. IsFiniteSet(S)
  BY TexturesAssumption, FS_Subset
<1>2. DOMAIN q.queue = {} /\ q.convert \notin S
  OBVIOUS
<1> DEFINE s == SetToSeq(S)
<1>3. /\ s \in Seq(S)
      /\ \A i, j \in DOMAIN s : s[i] = s[j] => i = j
      /\ \A x \in S : \E i \in DOMAIN s : s[i] = x
  BY <1>1, AllTextures
<1>4. q.avail = s
  OBVIOUS
<1>5. \A x \in Textures : x = q.convert \/ x \in S
  OBVIOUS
<1> HIDE DEF S, s
<1>6. \A i \in DOMAIN s : s[i] \in S
  BY <1>3
<1>. QED  BY <1>2, <1>3, <1>4, <1>5, <1>6, Zenon DEF Good, Apart, Whole, Covers

(* The invariants hold in the beginning.                                   *)
LEMMA InitQueue == Init => QueueInv /\ MixInv /\ PhaseInv
<1> SUFFICES ASSUME Init PROVE QueueInv
  BY InitPhaseInv, InitMixInv
<1>1. /\ gpu_encoder_avail_queue = <<>> /\ gpu_encoder_queue = <<>> /\ gpu_encode_semaphore = 0
      /\ convert_texture = (CHOOSE t \in Textures : TRUE) /\ contents = [t \in Textures |-> None]
      /\ tpc = "none" /\ wait_frames = 0 /\ tf = NoTexFrame /\ handed = 0 /\ served = 0
      /\ encoder_starts = 0 /\ gpu_encode_stop = FALSE /\ gpu_encode_inactive = FALSE
  BY DEF Init
<1>2. Textures # {}
  BY TexturesAssumption, FS_EmptySet
<1>3. QNow \in QType
  BY <1>1, <1>2 DEF QNow, QType
<1>4. InHand = {} /\ ~Holding
  BY <1>1 DEF InHand, Holding
<1>5. QNow \in Good(InHand)
  <2>1. QNow.avail = <<>> /\ QNow.queue = <<>>
    BY <1>1 DEF QNow
  <2>. QED  BY <1>3, <1>4, <2>1, EmptyGood, Zenon
<1>6. ThreadTypes
  <2>1. gpu_encode_stop \in BOOLEAN /\ gpu_encode_inactive \in BOOLEAN
    BY <1>1, Zenon
  <2>2. wait_frames \in 0..1 /\ handed \in Nat /\ served \in Nat /\ encoder_starts \in Nat
    BY <1>1
  <2>. QED  BY <1>1, <2>1, <2>2, Zenon DEF ThreadTypes
<1>7. TakenInv
  BY <1>1, <1>4 DEF TakenInv, NoTexFrame, TexFrames
<1>8. CountInv
  BY <1>1 DEF CountInv
<1>. QED  BY <1>1, <1>5, <1>6, <1>7, <1>8 DEF QueueInv

(* free_gpu_encoding finds no thread.                                      *)
LEMMA FreeQueue ==
    ASSUME QueueInv, PhaseInv, NEW e \in Encoders, Free(e)
    PROVE  QueueInv'
<1>1. /\ tpc = "none" /\ gpu_encoder_queue' = <<>> /\ gpu_encoder_avail_queue' = <<>>
      /\ UNCHANGED <<convert_texture, contents, gpu_encode_semaphore, gpu_encode_inactive,
                     gpu_encode_stop, tpc, wait_frames, tf, encoder_starts, handed, served>>
  BY DEF Free, PhaseInv, ServiceInv, sync, thread, gpuHistory
<1>2. InHand' = {} /\ Holding' = Holding
  BY <1>1 DEF InHand, Holding
<1>3. QNow' \in QType
  <2>1. /\ convert_texture' \in Textures /\ contents' \in [Textures -> Nat]
        /\ gpu_encode_semaphore' \in Nat
    BY <1>1, GoodTypes, Zenon
  <2>. QED  BY <1>1, <2>1 DEF QNow, QType
<1>4. QNow' \in Good({})
  <2>1. QNow'.avail = <<>> /\ QNow'.queue = <<>>
    BY <1>1 DEF QNow
  <2>2. PICK q \in QType : q = QNow'
    BY <1>3
  <2>3. q \in Good({})
    BY <2>1, <2>2, EmptyGood, Zenon
  <2>. QED  BY <2>2, <2>3
<1>5. ThreadTypes'
  BY <1>1, Zenon DEF QueueInv, ThreadTypes
<1>6. TakenInv'
  BY <1>1, <1>2, Zenon DEF QueueInv, TakenInv
<1>7. CountInv'
  BY <1>1 DEF CountInv
<1>8. tpc' = "none"
  BY <1>1
<1>. QED  BY <1>2, <1>4, <1>5, <1>6, <1>7, <1>8 DEF QueueInv

(* start_gpu_encode: the first encoder finds the queues empty.             *)
LEMMA StartQueue ==
    ASSUME QueueInv, PhaseInv, NEW e \in Encoders, StartGpuEncode(e)
    PROVE  QueueInv'
<1>0. /\ encoder_starts \in Nat /\ encoder_starts' \in Nat
  BY DEF StartGpuEncode, QueueInv, ThreadTypes
<1>1. CASE gpu_encoders # <<>>
  <2>1. UNCHANGED <<queues, sync, tpc, wait_frames, tf, handed, served>>
    BY <1>1 DEF StartGpuEncode, queues
  <2>. QED  BY <1>0, <2>1, NoQueueStep
<1>2. CASE gpu_encoders = <<>>
  <2>1. /\ gpu_encoder_avail_queue' = SetToSeq(Textures \ {convert_texture})
        /\ gpu_encode_semaphore' = 0 /\ gpu_encode_inactive' = TRUE /\ gpu_encode_stop' = FALSE
        /\ tpc' = "wait" /\ wait_frames' = 1 /\ handed' = 0 /\ served' = 0
        /\ UNCHANGED <<gpu_encoder_queue, convert_texture, contents, tf>>
    BY <1>2 DEF StartGpuEncode, InitGpuEncoding
  <2>2. tpc = "none" /\ gpu_encoder_queue = <<>>
    BY <1>2 DEF StartGpuEncode, PhaseInv
  <2>3. ~Holding /\ ~Holding' /\ InHand' = {} /\ tf = NoTexFrame
    BY <2>1, <2>2 DEF Holding, InHand, QueueInv, TakenInv
  <2>4. QNow' \in QType
    <3>1. /\ convert_texture' \in Textures /\ contents' \in [Textures -> Nat]
          /\ gpu_encode_semaphore' \in Nat /\ gpu_encoder_queue' \in Seq(TexFrames)
      BY <2>1, GoodTypes
    <3>2. gpu_encoder_avail_queue' \in Seq(Textures)
      <4>1. IsFiniteSet(Textures \ {convert_texture})
        BY TexturesAssumption, FS_Subset
      <4> DEFINE S == Textures \ {convert_texture}
      <4>2. S \subseteq Textures
        OBVIOUS
      <4> HIDE DEF S
      <4>3. SetToSeq(S) \in Seq(S)
        BY <4>1, AllTextures DEF S
      <4>4. SetToSeq(S) \in Seq(Textures)
        BY <4>2, <4>3
      <4>. QED  BY <2>1, <4>4 DEF S
    <3>. QED  BY <3>1, <3>2 DEF QNow, QType
  <2>5. QNow' \in Good({}) /\ Covers(QNow', {})
    <3>1. QNow'.avail = SetToSeq(Textures \ {QNow'.convert}) /\ QNow'.queue = <<>>
      BY <2>1, <2>2 DEF QNow
    <3>2. PICK q \in QType : q = QNow'
      BY <2>4
    <3>3. q.avail = SetToSeq(Textures \ {q.convert}) /\ q.queue = <<>>
      BY <3>1, <3>2, Zenon
    <3>4. q \in Good({}) /\ Covers(q, {})
      BY <3>3, FreshGood
    <3>. QED  BY <3>2, <3>4, Zenon
  <2>6. ThreadTypes'
    <3>1. gpu_encode_stop' \in BOOLEAN /\ gpu_encode_inactive' \in BOOLEAN
      BY <2>1, Zenon
    <3>2. wait_frames' \in 0..1 /\ handed' \in Nat /\ served' \in Nat
      BY <2>1
    <3>. QED  BY <1>0, <2>1, <3>1, <3>2, Zenon DEF ThreadTypes
  <2>7. TakenInv'
    BY <2>1, <2>3, Zenon DEF QueueInv, TakenInv
  <2>8. CountInv'
    <3>1. TicksOf(gpu_encoder_queue') = 0 /\ tf'.count = 0 /\ Busy' = 0
      BY <2>1, <2>2, <2>3, TicksOfEmpty DEF NoTexFrame, Busy
    <3>. QED  BY <2>1, <3>1 DEF CountInv
  <2>9. tpc' \notin {"reset", "take"}
    BY <2>1
  <2>. QED  BY <2>3, <2>5, <2>6, <2>7, <2>8, <2>9, Zenon DEF QueueInv
<1>. QED  BY <1>1, <1>2

(* The rest of start_gpu_encode and stop_gpu_encode.                       *)
LEMMA StopQueue ==
    ASSUME QueueInv, PhaseInv, NEW e \in Encoders,
           Started(e) \/ StopGpuEncode(e) \/ Stopping(e)
    PROVE  QueueInv'
<1>0. encoder_starts \in Nat
  BY DEF QueueInv, ThreadTypes
<1>1. CASE Started(e) \/ StopGpuEncode(e) \/ Erase(e)
  BY <1>0, <1>1, NoQueueStep DEF Started, StopGpuEncode, Erase, thread, gpuHistory
<1>2. CASE WaitInactive(e)
  <2>1. ~Fails(e)
    BY <1>2 DEF WaitInactive, Inactive, Fails, PhaseInv, ServiceInv
  <2>. QED  BY <1>0, <1>2, <2>1, NoQueueStep DEF WaitInactive, gpuHistory
<1>3. CASE StopThread(e)
  BY <1>3, StopThreadQueue
<1>4. CASE Join(e)
  BY <1>4, JoinQueue
<1>5. CASE Free(e)
  BY <1>5, FreeQueue
<1>. QED  BY <1>1, <1>2, <1>3, <1>4, <1>5 DEF Stopping

\* The invariant of the whole system.
GpuInv == QueueInv /\ MixInv /\ PhaseInv

(* Every step keeps the invariants.                                        *)
LEMMA NextGpuInv ==
    ASSUME GpuInv, [Next]_vars
    PROVE  GpuInv'
<1>0. QueueInv /\ MixInv /\ PhaseInv /\ ServiceInv' /\ encoder_starts \in Nat
  BY NextServiceInv DEF GpuInv, PhaseInv, QueueInv, ThreadTypes
<1>1. CASE UNCHANGED vars \/ Client \/ (Loop /\ UNCHANGED gpu)
  <2>1. UNCHANGED gpu /\ gpu_encoder_active' = gpu_encoder_active
    BY <1>1 DEF vars, mixVars, gpu, Client, ToggleRaw, Loop, UpdateActiveState, VideoSleep, OutputFrame, OutputRaw
  <2>2. UNCHANGED <<queues, sync, tpc, wait_frames, tf, handed, served>> /\ encoder_starts' \in Nat
    BY <1>0, <2>1 DEF gpu, thread, gpuHistory
  <2>3. QueueInv'
    BY <1>0, <2>2, NoQueueStep
  <2>4. PhaseInv'
    <3>1. /\ UNCHANGED <<gpu_encoders, spc, gpu_encoder_active, tpc>>
          /\ gpu_encoder_avail_queue' = gpu_encoder_avail_queue /\ gpu_encoder_queue' = gpu_encoder_queue
      BY <2>1, Zenon DEF gpu, thread, queues
    <3>. QED  BY <1>0, <3>1, SamePhase
  <2>5. MixInv'
    <3>1. CASE UNCHANGED vars
      BY <1>0, <3>1, MixSame DEF vars, mixVars
    <3>2. CASE Client
      BY <1>0, <3>2 DEF Client, ToggleRaw, MixInv, BufInv
    <3>3. CASE UpdateActiveState
      BY <1>0, <3>3, MixUpdate, ActiveIsNat
    <3>4. CASE VideoSleep
      BY <1>0, <3>4, MixSleep
    <3>5. CASE OutputFrame
      BY <1>0, <3>5, OutputQueue
    <3>. QED  BY <1>1, <3>1, <3>2, <3>3, <3>4, <3>5 DEF Loop
  <2>. QED  BY <2>3, <2>4, <2>5 DEF GpuInv
<1>2. CASE OutputFrame
  <2>1. /\ QueueInv' /\ MixInv'
        /\ (gpu_encoder_avail_queue = <<>> /\ gpu_encoder_queue = <<>>) =>
              (gpu_encoder_avail_queue' = <<>> /\ gpu_encoder_queue' = <<>>)
    BY <1>0, <1>2, OutputQueue
  <2>2. UNCHANGED <<gpu_encoders, spc, gpu_encoder_active, tpc>>
    BY <1>2 DEF OutputFrame, OutputRaw, thread
  <2>. QED  BY <1>0, <2>1, <2>2, SamePhase DEF GpuInv
<1>3. CASE Thread
  <2>1. QueueInv'
    BY <1>0, <1>3, SemWaitQueue, WokenQueue, PlaceQueue, TakeQueue, EncodeQueue, ReturnQueue DEF Thread
  <2>2. MixInv'
    <3>1. UNCHANGED mixVars
      BY <1>3 DEF Thread, SemWait, Woken, ResetInactive, Take, EncodeNext, Return, SignalInactive
    <3>. QED  BY <1>0, <3>1, MixSame DEF mixVars
  <2>. QED  BY <1>0, <1>3, <2>1, <2>2, ThreadPhase DEF GpuInv
<1>4. CASE EncodeFails
  <2>1. MixInv'
    BY <1>0, <1>4, MixSame DEF EncodeFails
  <2>. QED  BY <1>0, <1>4, <2>1, EncodeQueue, FailsPhase DEF GpuInv
<1>5. ASSUME NEW e \in Encoders, StartGpuEncode(e) \/ Started(e) \/ StopGpuEncode(e) \/ Stopping(e)
      PROVE  GpuInv'
  <2>1. QueueInv'
    BY <1>0, <1>5, StartQueue, StopQueue
  <2>2. PhaseInv'
    BY <1>0, <1>5, StepPhase, StopPhase
  <2>3. MixInv'
    <3>1. UNCHANGED loop
      BY <1>5 DEF StartGpuEncode, Started, StopGpuEncode, Stopping, Erase, WaitInactive, StopThread,
         Join, Free, mixVars, loop
    <3>. QED  BY <1>0, <3>1, MixSame DEF loop
  <2>. QED  BY <2>1, <2>2, <2>3 DEF GpuInv
<1>. QED  BY <1>1, <1>2, <1>3, <1>4, <1>5 DEF Next, Loop, Client

(* So they hold throughout.                                                *)
LEMMA GpuInvHolds == Spec => []GpuInv
<1>1. Init => GpuInv
  BY InitQueue DEF GpuInv
<1>. QED  BY <1>1, NextGpuInv, PTL DEF Spec

(* What is waiting is the queue, and the frame in hand.                    *)
LEMMA FramesAre ==
    ASSUME GpuInv
    PROVE  /\ TicksWaiting = TicksOf(gpu_encoder_queue) + tf.count
           /\ tf = NoTexFrame => Frames = gpu_encoder_queue
           /\ tf # NoTexFrame => Frames = Append(gpu_encoder_queue, tf)
           /\ tf # NoTexFrame => Holding
<1>0. gpu_encoder_queue \in Seq(TexFrames) /\ tf \in TexFrames /\ TicksOf(gpu_encoder_queue) \in Int
      /\ (~Holding => tf = NoTexFrame)
  BY GoodTypes DEF GpuInv, QueueInv, TakenInv
<1>1. CASE tf = NoTexFrame
  <2>1. Frames = gpu_encoder_queue
    BY <1>0, <1>1 DEF Frames
  <2>2. tf.count = 0
    BY <1>1 DEF NoTexFrame
  <2>. QED  BY <1>0, <1>1, <2>1, <2>2 DEF TicksWaiting
<1>2. CASE tf # NoTexFrame
  <2>1. Frames = Append(gpu_encoder_queue, tf)
    <3>1. \A w \in Seq(TexFrames), x \in TexFrames : w \o <<x>> = Append(w, x)
      OBVIOUS
    <3>. QED  BY <1>0, <1>2, <3>1, Zenon DEF Frames
  <2>. QED  BY <1>0, <1>2, <2>1, TicksOfAppend DEF TicksWaiting
<1>. QED  BY <1>1, <1>2

-----------------------------------------------------------------------------
(* The theorems                                                            *)

(* stop_gpu_encode: an encoder whose stop has returned is given no more    *)
(* frames, however many start and stop and wherever the thread is.         *)
THEOREM StoppedIsQuiet == Spec => []QuietAfterStop
<1>1. ServiceInv => QuietAfterStop
  BY DEF ServiceInv, QuietAfterStop, Contains
<1> QED  BY InitServiceInv, NextServiceInv, <1>1, PTL DEF Spec

(* output_frame, where the surfaces can be mapped: a raw frame goes out    *)
(* under the time it was rendered at and begins where the last one ended,  *)
(* with raw output switched on and off and frames of any number of ticks.  *)
THEOREM RawFramesInTime ==
    ASSUME ~MapMayFail
    PROVE  Spec => RawTimeline
<1>1. ASSUME LoopInv, [Next]_vars
      PROVE  /\ LoopInv'
             /\ [raw_out' \notin {raw_out, NoFrame} =>
                    /\ raw_out'.picture = raw_out'.timestamp
                    /\ raw_out # NoFrame => raw_out'.timestamp = raw_out.timestamp + raw_out.count
                ]_mixVars
  <2> USE <1>1
  <2>1. CASE UpdateActiveState
    <3>1. raw_out' \in {raw_out, NoFrame}
      BY <2>1 DEF UpdateActiveState
    <3> QED  BY <2>1, <3>1, UpdateLoopInv
  <2>2. CASE OutputFrame
    BY <2>2, OutputLoopInv DEF OutputFrame
  <2>3. CASE VideoSleep
    BY <2>3, SleepLoopInv DEF VideoSleep
  <2>4. CASE ToggleRaw
    BY <2>4, OthersLoopInv DEF ToggleRaw
  <2>5. CASE \/ Thread \/ EncodeFails \/ UNCHANGED vars
             \/ \E e \in Encoders : \/ StartGpuEncode(e) \/ Started(e)
                                   \/ StopGpuEncode(e) \/ Stopping(e)
    <3>1. UNCHANGED <<gpc, video_time, raw_was_active, vframe_info_buffer, cur_texture,
                      textures_copied, raw_out>>
      <4>1. CASE Thread \/ EncodeFails \/ UNCHANGED vars
        BY <4>1 DEF Thread, SemWait, Woken, ResetInactive, Take, EncodeNext, Return,
           SignalInactive, EncodeFails, vars, mixVars
      <4>2. ASSUME NEW e \in Encoders,
                   StartGpuEncode(e) \/ Started(e) \/ StopGpuEncode(e) \/ Stopping(e)
            PROVE  UNCHANGED <<gpc, video_time, raw_was_active, vframe_info_buffer,
                               cur_texture, textures_copied, raw_out>>
        BY <4>2 DEF StartGpuEncode, Started, StopGpuEncode, Stopping, Erase, WaitInactive,
           StopThread, Join, Free, mixVars, loop
      <4> QED  BY <2>5, <4>1, <4>2
    <3> QED  BY <3>1, OthersLoopInv
  <2> QED  BY <2>1, <2>2, <2>3, <2>4, <2>5 DEF Next, Loop, Client
<1> QED  BY InitLoopInv, <1>1, PTL DEF Spec, RawTimeline

(* Every variable stays in its type; above all the semaphore and           *)
(* gpu_encoder_active never fall below zero and every index is in range.   *)
THEOREM TypeCorrect == Spec => []TypeOK
<1>1. ASSUME GpuInv PROVE TypeOK
  <2>1. gpu_encoder_active \in Nat
    BY <1>1, ActiveIsNat DEF GpuInv
  <2>2. MixTypeOK
    BY <1>1, <2>1 DEF GpuInv, MixInv, MixTypeOK
  <2>3. /\ gpu_encoder_avail_queue \in Seq(Textures) /\ gpu_encoder_queue \in Seq(TexFrames)
        /\ convert_texture \in Textures /\ contents \in [Textures -> Nat]
        /\ gpu_encode_semaphore \in Nat
    BY <1>1, GoodTypes DEF GpuInv
  <2>4. ThreadTypes /\ tf \in TexFrames /\ gpu_encoders \in Seq(Encoders) /\ todo \in Seq(Encoders)
        /\ spc \in [Encoders -> {"off", "added", "on", "leaving", "waiting", "last",
                             "joining", "freeing"}]
    BY <1>1 DEF GpuInv, QueueInv, TakenInv, PhaseInv, ServiceInv
  <2>5. {gpu_encode_inactive, gpu_encode_stop} \subseteq BOOLEAN
    BY <2>4 DEF ThreadTypes
  <2>6. {encoder_starts, handed, served} \subseteq Nat
    BY <2>4 DEF ThreadTypes
  <2>. QED  BY <2>2, <2>3, <2>4, <2>5, <2>6 DEF TypeOK, ThreadTypes
<1>. QED  BY <1>1, GpuInvHolds, PTL

(* queue_frame, gpu_encode_thread: with any number of textures above two,  *)
(* of encoders and of ticks, no texture that waits or is being encoded is  *)
(* rendered into or copied to; an encoder is given the picture that was    *)
(* queued.                                                                 *)
THEOREM PicturesIntact == Spec => []PictureIntact
<1>1. ASSUME GpuInv PROVE PictureIntact
  <2>1. gpu_encoder_queue \in Seq(TexFrames)
        /\ \A j \in DOMAIN gpu_encoder_queue :
              contents[gpu_encoder_queue[j].tex] = gpu_encoder_queue[j].picture
    BY <1>1, GoodTypes DEF GpuInv, QueueInv, Good, Whole, QNow
  <2>2. Holding => contents[tf.tex] = tf.picture
    BY <1>1 DEF GpuInv, QueueInv, TakenInv
  <2>3. CASE tf = NoTexFrame
    <3>1. Frames = gpu_encoder_queue
      BY <1>1, <2>3, FramesAre
    <3>. QED  BY <2>1, <3>1 DEF PictureIntact
  <2>4. CASE tf # NoTexFrame
    <3>1. Frames = Append(gpu_encoder_queue, tf) /\ Holding
      BY <1>1, <2>4, FramesAre
    <3>2. \A i \in DOMAIN Frames : \/ Frames[i] = tf
                                   \/ i \in DOMAIN gpu_encoder_queue /\ Frames[i] = gpu_encoder_queue[i]
      BY <2>1, <3>1
    <3>. QED  BY <2>1, <2>2, <3>1, <3>2, Zenon DEF PictureIntact
  <2>. QED  BY <2>3, <2>4
<1>. QED  BY <1>1, GpuInvHolds, PTL

(* queue_frame, gpu_encode_thread: every tick handed over is served or     *)
(* waits, in one frame and with one post, however far the encoders are     *)
(* behind; so the thread never wakes to an empty queue, and no tick is     *)
(* dropped for want of a texture.                                          *)
THEOREM TicksAreKept == Spec => []NoTickLost
<1>1. ASSUME GpuInv PROVE NoTickLost
  <2>1. TicksWaiting = TicksOf(gpu_encoder_queue) + tf.count
    BY <1>1, FramesAre
  <2>2. CountInv /\ (tpc = "take" => gpu_encoder_queue # <<>>)
    BY <1>1 DEF GpuInv, QueueInv
  <2>. QED  BY <2>1, <2>2, Zenon DEF CountInv, NoTickLost, Busy
<1>. QED  BY <1>1, GpuInvHolds, PTL
=============================================================================
