---------------------------- MODULE VideoIOProofs ----------------------------
(***************************************************************************)
(* Proofs about VideoIO for every ring size, every set of inputs and every *)
(* bound: the ring hand-over never tears a picture, never loses a wake-up  *)
(* and never strands a skipped tick; every skipped tick is counted once;   *)
(* and the ring implements the timeline of VideoTimeline.                  *)
(***************************************************************************)
EXTENDS VideoIORefinement, FoldLemmas, TLAPS

\* The facts about the constants the proofs use.
USE DEF Slots, NoSlot, Torn

(* NextSlot stays inside the ring. *)
LEMMA NextSlotInRing ==
    ASSUME NEW s \in Slots
    PROVE  NextSlot(s) \in Slots
BY CacheSizeAssumption DEF NextSlot

(* Serving a tick of a slot gives a slot. *)
LEMMA ServedType ==
    ASSUME NEW sl \in Slot
    PROVE  Served(sl) \in Slot
BY DEF Served, Slot

(* A dropped frame's ticks make a slot of a slot. *)
LEMMA MergedType ==
    ASSUME NEW sl \in Slot, NEW n \in Int
    PROVE  Merged(sl, n) \in Slot
BY DEF Merged, Slot

InputRec == [id : Inputs, divisor : Nat \ {0}, counter : Nat, since : Nat]

(* Counting a tick keeps an input an input. *)
LEMMA CountedType ==
    ASSUME NEW in \in InputRec
    PROVE  Counted(in) \in InputRec
BY DEF Counted, InputRec

(* Erasing an element of a sequence leaves a sequence. *)
LEMMA WithoutType ==
    ASSUME NEW S, NEW seq \in Seq(S), NEW k \in 1..Len(seq)
    PROVE  Without(seq, k) \in Seq(S)
<1>1. SubSeq(seq, 1, k - 1) \in Seq(S)
  OBVIOUS
<1>2. SubSeq(seq, k + 1, Len(seq)) \in Seq(S)
  OBVIOUS
<1> QED  BY <1>1, <1>2 DEF Without

-----------------------------------------------------------------------------

IInv == TypeOK /\ RingInv

USE CacheSizeAssumption, DivisorAssumption, BoundsAssumption

(* video_output_open leaves an empty ring, no wakeups and no inputs.        *)
LEMMA InitIInv == Init => IInv
<1> SUFFICES ASSUME Init PROVE IInv
  OBVIOUS
<1>1. cache \in [Slots -> Slot]
  BY DEF Init, Slot
<1>2. inputs \in Seq([id : Inputs, divisor : Nat \ {0}, counter : Nat, since : Nat])
  BY DEF Init
<1>3. TypeOK
  <2>1. /\ available_frames \in 0..CacheSize
        /\ first_added \in Slots /\ last_added \in Slots
        /\ update_semaphore \in Nat /\ gpu_refs \in Nat /\ skipped_frames \in Int
        /\ idx \in Nat /\ now \in Nat /\ passes \in Nat /\ due \in Int
    BY DEF Init
  <2>2. /\ stop \in BOOLEAN /\ raw_active \in BOOLEAN /\ raw_was_active \in BOOLEAN
        /\ vpc = "wait" /\ held = NoSlot /\ writing = NoSlot
    BY DEF Init
  <2> QED  BY <1>1, <1>2, <2>1, <2>2 DEF TypeOK
<1>4. RingInv
  BY DEF Init, RingInv, RingShape, SlotsGood, ServesOldest, WakeupsMatchFrames,
         Pending, IsPending, Serving, Busy, After
<1> QED  BY <1>3, <1>4 DEF IInv

(* Claiming a slot keeps the ring in shape. *)
LEMMA LockFrameIInv ==
    ASSUME IInv, NEW count \in 1..MaxCount, LockFrame(count)
    PROVE  IInv'
<1> USE DEF IInv, LockFrame, ring, stats, vthread, gfx
<1>0. SlotToLock \in Slots
  BY NextSlotInRing DEF SlotToLock, TypeOK
<1>1. TypeOK'
  BY <1>0, SMTT(30) DEF TypeOK, Slot
<1>2. RingShape'
  BY <1>0, SMTT(30) DEF RingInv, RingShape, Pending, After, SlotToLock, NextSlot, TypeOK
<1>3. SlotsGood'
  <2>1. ~IsPending(SlotToLock)
    BY DEF RingInv, RingShape, Pending, After, SlotToLock, NextSlot, TypeOK, IsPending
  <2>2. /\ \A s \in Slots : IsPending(s)' = IsPending(s)
        /\ \A s \in Slots : s # SlotToLock => cache'[s] = cache[s]
    BY <1>0 DEF IsPending, Pending, TypeOK
  <2>3. /\ cache'[SlotToLock].count = count /\ cache'[SlotToLock].skipped = 0
        /\ writing' = SlotToLock
    BY <1>0 DEF TypeOK
  <2> QED  BY <1>0, <2>1, <2>2, <2>3 DEF RingInv, SlotsGood, TypeOK
<1>4. ServesOldest' /\ WakeupsMatchFrames'
  BY DEF RingInv, ServesOldest, WakeupsMatchFrames, Serving, Busy, Pending, TypeOK
<1> QED  BY <1>1, <1>2, <1>3, <1>4 DEF RingInv

(* Merging a dropped frame: only the newest waiting slot changes. *)
LEMMA MergeFrameIInv ==
    ASSUME IInv, NEW count \in 1..MaxCount, MergeFrame(count)
    PROVE  IInv'
<1> USE DEF IInv, MergeFrame, ring, stats, vthread, gfx
<1>0. cache[last_added] \in Slot /\ last_added \in Slots
  BY DEF TypeOK
<1>1. TypeOK'
  BY <1>0, MergedType DEF TypeOK
<1>2. RingShape'
  BY DEF RingInv, RingShape, Pending, After, TypeOK
<1>3. SlotsGood'
  <2>1. \A s \in Slots : IsPending(s)' = IsPending(s)
    BY DEF IsPending, Pending
  <2>2. IsPending(last_added)
    BY DEF RingInv, RingShape, Pending, After, IsPending, TypeOK
  <2>3. \A s \in Slots : /\ cache[s] \in Slot
                         /\ cache'[s] = IF s = last_added THEN Merged(cache[s], count)
                                                         ELSE cache[s]
    BY <1>0 DEF TypeOK
  <2>4. \A s \in Slots : IsPending(s)' =>
            /\ cache'[s].pic # Torn
            /\ 0 <= cache'[s].skipped /\ cache'[s].skipped < cache'[s].count
    BY <2>1, <2>3 DEF RingInv, SlotsGood, Merged, Slot
  <2> QED  BY <2>4 DEF SlotsGood
<1>4. ServesOldest' /\ WakeupsMatchFrames'
  BY DEF RingInv, ServesOldest, WakeupsMatchFrames, Serving, Busy, Pending
<1> QED  BY <1>1, <1>2, <1>3, <1>4 DEF RingInv

(* Publishing the written slot makes it the newest waiting one. *)
LEMMA UnlockFrameIInv ==
    ASSUME IInv, UnlockFrame
    PROVE  IInv'
<1> USE DEF IInv, UnlockFrame, ring, stats, vthread, gfx, Post
<1>a. writing \in Slots /\ cache[writing] \in Slot
  BY DEF TypeOK
<1>0. /\ writing \in Slots /\ cache[writing] \in Slot /\ cache[writing].count \in Nat
      /\ cache[writing].count > 0 /\ cache[writing].skipped = 0
  BY <1>a DEF RingInv, SlotsGood, Slot
<1>b. available_frames \in 1..CacheSize
  BY DEF RingInv, RingShape, TypeOK
<1>1. TypeOK'
  <2>1. Filled(cache[writing], now) \in Slot
    BY <1>0 DEF TypeOK, Slot, Filled
  <2> QED  BY <1>0, <1>b, <2>1 DEF TypeOK
<1>2. RingShape'
  BY <1>0, <1>b DEF RingInv, RingShape, Pending, After, TypeOK
<1>3. SlotsGood'
  <2>1. \A s \in Slots : IsPending(s)' <=> IsPending(s) \/ s = writing
    BY <1>0, <1>b DEF RingInv, RingShape, Pending, After, IsPending, TypeOK
  <2>2. \A s \in Slots : s # writing => cache'[s] = cache[s]
    BY <1>0 DEF TypeOK
  <2>3. /\ cache'[writing].pic = now
        /\ cache'[writing].skipped = cache[writing].skipped
        /\ cache'[writing].count = cache[writing].count
    BY <1>0 DEF TypeOK, Filled
  <2>4. now # Torn
    BY DEF TypeOK
  <2> QED  BY <1>0, <2>1, <2>2, <2>3, <2>4 DEF RingInv, SlotsGood
<1>4. ServesOldest' /\ WakeupsMatchFrames'
  BY <1>b DEF RingInv, ServesOldest, WakeupsMatchFrames, Serving, Busy, Pending, TypeOK
<1> QED  BY <1>1, <1>2, <1>3, <1>4 DEF RingInv

(* Serving a tick: the oldest slot shrinks or is given back. *)
LEMMA FinishTickIInv ==
    ASSUME IInv, FinishTick
    PROVE  IInv'
<1> USE DEF IInv, FinishTick, ring, stats, vthread, gfx
<1>0. /\ held \in Slots /\ held = first_added /\ Pending > 0 /\ IsPending(held)
      /\ cache[held] \in Slot
  BY DEF TypeOK, RingInv, ServesOldest, Serving, Pending, IsPending
<1>1. /\ cache'[held] = Served(cache[held])
      /\ cache'[held] \in Slot
      /\ \A s \in Slots : s # held => cache'[s] = cache[s]
  BY <1>0, ServedType DEF TypeOK
<1>2. TypeOK'
  <2>1. cache' \in [Slots -> Slot]
    BY <1>0, <1>1 DEF TypeOK
  <2>2. skipped_frames' \in Int
    BY <1>0, <1>1 DEF TypeOK, Slot
  <2>3. NextSlot(first_added) \in Slots
    BY NextSlotInRing DEF TypeOK
  <2>4. available_frames' \in 0..CacheSize
    BY <1>0 DEF TypeOK, Pending
  <2> QED  BY <2>1, <2>2, <2>3, <2>4 DEF TypeOK, LastAfterFree
<1>3. RingShape'
  <2> USE DEF RingInv, RingShape, Pending, After, TypeOK
  <2>1. CASE cache'[held].count = 0
    <3>1. /\ first_added' = NextSlot(first_added) /\ writing' = writing
          /\ available_frames' = available_frames + 1
          /\ last_added' = LastAfterFree(available_frames + 1)
      BY <2>1
    <3> QED  BY <1>0, <3>1 DEF LastAfterFree, NextSlot
  <2>2. CASE cache'[held].count # 0
    BY <2>2
  <2> QED  BY <2>1, <2>2
<1>4. SlotsGood'
  <2>1. \A s \in Slots : IsPending(s)' => IsPending(s)
    BY <1>0 DEF RingInv, RingShape, Pending, IsPending, TypeOK, NextSlot
  <2>2. CASE cache'[held].count = 0
    <3>1. ~IsPending(held)'
      BY <1>0, <2>2 DEF Pending, IsPending, TypeOK, NextSlot
    <3>2. writing # held
      BY <1>0, SMTT(30) DEF RingInv, RingShape, Pending, After, TypeOK
    <3> QED  BY <1>1, <2>1, <3>1, <3>2 DEF RingInv, SlotsGood, TypeOK
  <2>3. CASE cache'[held].count # 0
    <3>1. /\ cache'[held].pic # Torn
          /\ 0 <= cache'[held].skipped /\ cache'[held].skipped < cache'[held].count
      BY <1>0, <1>1, <2>3 DEF RingInv, SlotsGood, Served, Slot
    <3>2. writing # held
      BY <1>0, SMTT(30) DEF RingInv, RingShape, Pending, After, TypeOK
    <3> QED  BY <1>1, <2>1, <3>1, <3>2 DEF RingInv, SlotsGood, TypeOK
  <2> QED  BY <2>2, <2>3
<1>5. ServesOldest' /\ WakeupsMatchFrames'
  <2> USE DEF RingInv, ServesOldest, WakeupsMatchFrames, Serving, Busy, Pending
  <2>1. CASE cache'[held].count = 0
    BY <1>0, <2>1 DEF TypeOK
  <2>2. CASE cache'[held].count # 0
    BY <1>0, <2>2 DEF TypeOK
  <2> QED  BY <2>1, <2>2
<1> QED  BY <1>2, <1>3, <1>4, <1>5 DEF RingInv

(* Steps that leave the ring, the semaphore and the video thread's place   *)
(* alone keep RingInv.                                                     *)
LEMMA RingInvFrame ==
    ASSUME RingInv, UNCHANGED <<ring, update_semaphore, writing, vpc, held>>,
           stop' = stop
    PROVE  RingInv'
BY DEF RingInv, ring, RingShape, SlotsGood, ServesOldest, WakeupsMatchFrames,
       Pending, IsPending, Serving, Busy, After

(* The walk over the inputs and the clients that connect and disconnect.   *)
LEMMA InputsIInv ==
    ASSUME IInv,
           \/ VisitInput \/ VisitFaultyInput
           \/ \E i \in Inputs : Connect(i)
           \/ \E k \in DOMAIN inputs : Disconnect(k)
    PROVE  IInv'
<1> USE DEF IInv, ring, stats, vthread, gfx
<1>0. inputs \in Seq(InputRec)
  BY DEF TypeOK, InputRec
<1>1. RingInv'
  BY RingInvFrame DEF VisitInput, VisitFaultyInput, Connect, Disconnect
<1>2. TypeOK' = (TypeOK' /\ inputs' \in Seq(InputRec))
  BY DEF TypeOK, InputRec
<1>3. CASE VisitInput
  <2>1. idx \in 1..Len(inputs)
    BY <1>0, <1>3 DEF VisitInput, TypeOK
  <2>2. inputs' \in Seq(InputRec)
    <3>1. Counted(inputs[idx]) \in InputRec
      BY <1>0, <2>1, CountedType
    <3> QED  BY <1>0, <1>3, <2>1, <3>1 DEF VisitInput
  <2> QED  BY <1>1, <1>3, <2>2 DEF VisitInput, TypeOK, InputRec
<1>4. CASE VisitFaultyInput
  <2>0. idx \in 1..Len(inputs)
    BY <1>0, <1>4 DEF VisitFaultyInput, TypeOK
  <2>1. inputs' \in Seq(InputRec)
    BY <1>0, <1>4, <2>0, WithoutType DEF VisitFaultyInput
  <2> QED  BY <1>1, <1>4, <2>1 DEF VisitFaultyInput, TypeOK, InputRec
<1>5. ASSUME NEW i \in Inputs, Connect(i) PROVE IInv'
  <2>1. NewInput(i) \in InputRec
    BY DEF NewInput, InputRec, TypeOK
  <2>2. inputs' \in Seq(InputRec)
    BY <1>0, <1>5, <2>1 DEF Connect
  <2>3. skipped_frames' \in Int /\ due' \in Int
    BY <1>5, SMTT(30) DEF Connect, TypeOK, ResetFrames
  <2> QED  BY <1>1, <1>5, <2>2, <2>3 DEF Connect, TypeOK, InputRec
<1>6. ASSUME NEW k \in DOMAIN inputs, Disconnect(k) PROVE IInv'
  <2>1. k \in 1..Len(inputs)
    BY <1>0, <1>6
  <2>2. inputs' \in Seq(InputRec)
    BY <1>0, <1>6, <2>1, WithoutType DEF Disconnect
  <2> QED  BY <1>1, <1>6, <2>2 DEF Disconnect, TypeOK, InputRec
<1> QED  BY <1>3, <1>4, <1>5, <1>6

(* The other steps of the video thread move its program counter, and the   *)
(* semaphore with it.                                                      *)
LEMMA ThreadIInv ==
    ASSUME IInv, Wake \/ CheckStop \/ TakeFrame \/ LockInputs \/ UnlockInputs
    PROVE  IInv'
<1> USE DEF IInv, ring, stats, vthread, gfx
<1>1. TypeOK'
  <2>1. CASE Wake          BY <2>1 DEF TypeOK, Wake
  <2>2. CASE CheckStop     BY <2>2 DEF TypeOK, CheckStop
  <2>3. CASE TakeFrame     BY <2>3 DEF TypeOK, TakeFrame
  <2>4. CASE LockInputs    BY <2>4 DEF TypeOK, LockInputs
  <2>5. CASE UnlockInputs  BY <2>5 DEF TypeOK, UnlockInputs
  <2> QED  BY <2>1, <2>2, <2>3, <2>4, <2>5
<1>2. RingShape' /\ SlotsGood'
  BY DEF RingInv, RingShape, SlotsGood, Pending, IsPending, After,
         Wake, CheckStop, TakeFrame, LockInputs, UnlockInputs
<1>3. ServesOldest' /\ WakeupsMatchFrames'
  <2> USE DEF RingInv, ServesOldest, WakeupsMatchFrames, Pending, Serving, Busy, TypeOK
  <2>1. CASE Wake          BY <2>1 DEF Wake
  <2>2. CASE CheckStop     BY <2>2 DEF CheckStop
  <2>3. CASE TakeFrame     BY <2>3 DEF TakeFrame
  <2>4. CASE LockInputs    BY <2>4 DEF LockInputs
  <2>5. CASE UnlockInputs  BY <2>5 DEF UnlockInputs
  <2> QED  BY <2>1, <2>2, <2>3, <2>4, <2>5
<1> QED  BY <1>1, <1>2, <1>3 DEF RingInv

(* A blank tick, the texture encoders, and stopping.                       *)
LEMMA OthersIInv ==
    ASSUME IInv, Idle \/ IncTextureEncoders \/ DecTextureEncoders \/ Stop
    PROVE  IInv'
<1> USE DEF IInv, ring, stats, vthread, gfx
<1>1. TypeOK'
  <2>1. CASE Idle                BY <2>1 DEF TypeOK, Idle
  <2>2. CASE IncTextureEncoders  BY <2>2 DEF TypeOK, IncTextureEncoders, ResetFrames
  <2>3. CASE DecTextureEncoders  BY <2>3 DEF TypeOK, DecTextureEncoders
  <2>4. CASE Stop                BY <2>4 DEF TypeOK, Stop, Post
  <2> QED  BY <2>1, <2>2, <2>3, <2>4
<1>2. RingInv'
  <2>1. CASE Idle \/ IncTextureEncoders \/ DecTextureEncoders
    BY <2>1, RingInvFrame DEF Idle, IncTextureEncoders, DecTextureEncoders
  <2>2. CASE Stop
    BY <2>2 DEF Stop, Post, RingInv, RingShape, SlotsGood, ServesOldest, WakeupsMatchFrames,
                Pending, IsPending, Serving, Busy, After
  <2> QED  BY <2>1, <2>2
<1> QED  BY <1>1, <1>2

(* Every step of the producer, the video thread and the clients keeps the  *)
(* invariant.                                                              *)
LEMMA NextIInv == IInv /\ [Next]_vars => IInv'
<1> SUFFICES ASSUME IInv, [Next]_vars PROVE IInv'
  OBVIOUS
<1>1. CASE Produce
  BY <1>1, LockFrameIInv, MergeFrameIInv, UnlockFrameIInv, OthersIInv DEF Produce
<1>2. CASE VideoThread
  BY <1>2, ThreadIInv, InputsIInv, FinishTickIInv DEF VideoThread
<1>3. CASE Clients
  BY <1>3, InputsIInv, OthersIInv DEF Clients
<1>4. CASE UNCHANGED vars
  BY <1>4 DEF vars, ring, stats, vthread, gfx, IInv, TypeOK, RingInv, RingShape,
              SlotsGood, ServesOldest, WakeupsMatchFrames, Pending, IsPending,
              Serving, Busy, After
<1> QED  BY <1>1, <1>2, <1>3, <1>4 DEF Next

-----------------------------------------------------------------------------

(* The inductive invariant holds of every run of the video output, for any *)
(* cache_size up to MAX_CACHE_SIZE and any set of connected inputs.        *)
THEOREM RingInvariance == Spec => []IInv
BY InitIInv, NextIInv, PTL DEF Spec

(* Type correctness of struct video_output. *)
THEOREM TypeCorrect == Spec => []TypeOK
<1>1. IInv => TypeOK
  BY DEF IInv
<1> QED  BY <1>1, RingInvariance, PTL

(* The indices and the semaphore agree at every step: no lost wake-up of   *)
(* video_thread, and a dropped frame is merged into a waiting one.         *)
THEOREM RingAlwaysLegal == Spec => []RingInv
<1>1. IInv => RingInv
  BY DEF IInv
<1> QED  BY <1>1, RingInvariance, PTL

(* No wake-up of video_thread is lost or spurious before the stop. *)
THEOREM NoLostWakeup == Spec => []WakeupsMatchFrames
<1>1. IInv => WakeupsMatchFrames
  BY DEF IInv, RingInv
<1> QED  BY <1>1, RingInvariance, PTL

(* The graphics thread never writes a picture that waits to be served, and *)
(* the video thread never serves a half-written one.                       *)
THEOREM NeverTorn == Spec => []NoTornPicture
<1>1. ASSUME IInv PROVE NoTornPicture
  <2>1. writing # NoSlot => ~IsPending(writing)
    BY <1>1 DEF IInv, TypeOK, RingInv, RingShape, Pending, After, IsPending
  <2>2. Serving => held = first_added /\ IsPending(held) /\ cache[held].pic # Torn
    BY <1>1 DEF IInv, TypeOK, RingInv, ServesOldest, SlotsGood, Pending, IsPending
  <2> QED  BY <2>1, <2>2 DEF NoTornPicture
<1> QED  BY <1>1, RingInvariance, PTL

-----------------------------------------------------------------------------
(* The waiting slots as the queue of a timeline.                           *)

\* A slot that waits to be served: at least one of its ticks is not skipped.
LiveSlot == {sl \in Slot : 0 <= sl.skipped /\ sl.skipped < sl.count}

(* A live slot stands for count ticks. *)
LEMMA TicksType ==
    ASSUME NEW sl \in LiveSlot
    PROVE  /\ Ticks(sl) \in Seq(Int) /\ Len(Ticks(sl)) = sl.count
           /\ sl.count \in Nat \ {0} /\ sl.ts \in Int
BY DEF Ticks, LiveSlot, Slot

(* An empty ring has no tick to serve. *)
LEMMA TicksOfEmpty == TicksOf(<<>>) = <<>>
<1>1. [k \in DOMAIN <<>> |-> Ticks(<<>>[k])] = <<>>
  OBVIOUS
<1>2. FlattenSeq(<<>>) = <<>>
  BY Zenon DEF FlattenSeq
<1>. QED  BY <1>1, <1>2, Zenon DEF TicksOf

(* What waits is a sequence of ticks. *)
LEMMA TicksOfType ==
    ASSUME NEW w \in Seq(LiveSlot)
    PROVE  TicksOf(w) \in Seq(Int)
<1>1. \A k \in 1..Len(w) : Ticks(w[k]) \in Seq(Int)
  BY TicksType
<1>2. [k \in DOMAIN w |-> Ticks(w[k])] \in Seq(Seq(Int))
  BY <1>1
<1>. QED  BY <1>2, FlattenType DEF TicksOf

(* A published slot puts its ticks behind all the others. *)
LEMMA TicksOfAppend ==
    ASSUME NEW w \in Seq(LiveSlot), NEW sl \in LiveSlot
    PROVE  TicksOf(Append(w, sl)) = TicksOf(w) \o Ticks(sl)
<1> DEFINE g == [k \in DOMAIN w |-> Ticks(w[k])]
<1> DEFINE r == [k \in DOMAIN Append(w, sl) |-> Ticks(Append(w, sl)[k])]
<1>1. \A k \in 1..Len(w) : Ticks(w[k]) \in Seq(Int)
  BY TicksType
<1>2. g \in Seq(Seq(Int))
  BY <1>1
<1>3. Ticks(sl) \in Seq(Int)
  BY TicksType
<1>4. r = Append(g, Ticks(sl))
  OBVIOUS
<1>5. FlattenSeq(r) = FlattenSeq(g) \o Ticks(sl)
  <2> HIDE DEF g, r
  <2>. QED  BY <1>2, <1>3, <1>4, FlattenAppend
<1>. QED  BY <1>5, Zenon DEF TicksOf

(* The ticks of the oldest slot come first. *)
LEMMA TicksOfPrepend ==
    ASSUME NEW w \in Seq(LiveSlot), NEW sl \in LiveSlot
    PROVE  TicksOf(<<sl>> \o w) = Ticks(sl) \o TicksOf(w)
<1> DEFINE g == [k \in DOMAIN w |-> Ticks(w[k])]
<1> DEFINE r == [k \in DOMAIN (<<sl>> \o w) |-> Ticks((<<sl>> \o w)[k])]
<1>1. \A k \in 1..Len(w) : Ticks(w[k]) \in Seq(Int)
  BY TicksType
<1>2. g \in Seq(Seq(Int))
  BY <1>1
<1>3. Ticks(sl) \in Seq(Int)
  BY TicksType
<1>4. r = <<Ticks(sl)>> \o g
  OBVIOUS
<1>5. FlattenSeq(r) = Ticks(sl) \o FlattenSeq(g)
  <2> HIDE DEF g, r
  <2>. QED  BY <1>2, <1>3, <1>4, FlattenPrepend
<1>. QED  BY <1>5, Zenon DEF TicksOf

(* An empty ring has no skipped tick to count. *)
LEMMA SkipsOfEmpty == SkipsOf(<<>>) = 0
<1>1. [k \in DOMAIN <<>> |-> <<>>[k].skipped] = <<>>
  OBVIOUS
<1>. QED  BY <1>1, SumEmpty, Zenon DEF SkipsOf

(* The skipped ticks that wait are a number. *)
LEMMA SkipsOfType ==
    ASSUME NEW w \in Seq(LiveSlot)
    PROVE  SkipsOf(w) \in Int
<1>1. [k \in DOMAIN w |-> w[k].skipped] \in Seq(Int)
  BY DEF LiveSlot, Slot
<1>. QED  BY <1>1, SumType DEF SkipsOf

(* A published slot adds its skipped ticks to the others. *)
LEMMA SkipsOfAppend ==
    ASSUME NEW w \in Seq(LiveSlot), NEW sl \in LiveSlot
    PROVE  SkipsOf(Append(w, sl)) = SkipsOf(w) + sl.skipped
<1> DEFINE g == [k \in DOMAIN w |-> w[k].skipped]
<1> DEFINE r == [k \in DOMAIN Append(w, sl) |-> Append(w, sl)[k].skipped]
<1>2. g \in Seq(Int) /\ sl.skipped \in Int
  BY SMTT(30) DEF LiveSlot, Slot
<1>4. r = Append(g, sl.skipped)
  OBVIOUS
<1>5. FoldLeft(+, 0, r) = FoldLeft(+, 0, g) + sl.skipped
  <2> HIDE DEF g, r
  <2>. QED  BY <1>2, <1>4, SumAppend
<1>. QED  BY <1>5, Zenon DEF SkipsOf

(* The oldest slot and the rest share the skipped ticks. *)
LEMMA SkipsOfPrepend ==
    ASSUME NEW w \in Seq(LiveSlot), NEW sl \in LiveSlot
    PROVE  SkipsOf(<<sl>> \o w) = sl.skipped + SkipsOf(w)
<1> DEFINE g == [k \in DOMAIN w |-> w[k].skipped]
<1> DEFINE r == [k \in DOMAIN (<<sl>> \o w) |-> (<<sl>> \o w)[k].skipped]
<1>2. g \in Seq(Int) /\ sl.skipped \in Int
  BY SMTT(30) DEF LiveSlot, Slot
<1>4. r = <<sl.skipped>> \o g
  OBVIOUS
<1>5. FoldLeft(+, 0, r) = sl.skipped + FoldLeft(+, 0, g)
  <2> HIDE DEF g, r
  <2>. QED  BY <1>2, <1>4, SumPrepend
<1>. QED  BY <1>5, Zenon DEF SkipsOf

(* Between two steps the waiting slots are live: their pictures are whole, *)
(* and they have a tick left that is not a skipped one.                    *)
LEMMA WaitingType ==
    ASSUME IInv
    PROVE  Waiting \in Seq(LiveSlot) /\ Len(Waiting) = Pending /\ Pending \in 0..CacheSize
<1>0. Pending \in 0..CacheSize
  BY DEF IInv, TypeOK, Pending
<1>1. ASSUME NEW k \in 1..Pending PROVE cache[Nth(k)] \in LiveSlot
  <2>1. Nth(k) \in Slots /\ IsPending(Nth(k))
    BY <1>0 DEF IInv, TypeOK, Nth, After, IsPending
  <2>. QED  BY <2>1 DEF IInv, TypeOK, RingInv, SlotsGood, LiveSlot
<1>. QED  BY <1>0, <1>1 DEF Waiting

(* Claiming a slot leaves the waiting ones alone. *)
LEMMA LockFrameWaits ==
    ASSUME IInv, NEW count \in 1..MaxCount, LockFrame(count)
    PROVE  Waiting' = Waiting
<1>1. Pending' = Pending /\ Pending \in 0..CacheSize
  BY DEF IInv, TypeOK, Pending, LockFrame
<1>2. ASSUME NEW k \in 1..Pending PROVE Nth(k)' = Nth(k) /\ cache'[Nth(k)] = cache[Nth(k)]
  <2>1. Nth(k) \in Slots /\ Nth(k) # SlotToLock /\ SlotToLock \in Slots
    BY <1>1, NextSlotInRing DEF IInv, TypeOK, RingInv, RingShape, LockFrame, SlotToLock, NextSlot, Nth, After, Pending
  <2>. QED  BY <2>1 DEF IInv, TypeOK, LockFrame, Nth, After
<1>3. \A k \in 1..Pending : cache'[Nth(k)'] = cache[Nth(k)]
  BY <1>2
<1>. QED  BY <1>1, <1>3 DEF Waiting

(* The ticks of a dropped frame go to the newest waiting slot. *)
LEMMA MergeFrameWaits ==
    ASSUME IInv, NEW count \in 1..MaxCount, MergeFrame(count)
    PROVE  Pending > 0 /\ Waiting' = [Waiting EXCEPT ![Pending] = Merged(@, count)]
<1>1. Pending' = Pending /\ Pending = CacheSize
  BY DEF IInv, TypeOK, Pending, MergeFrame
<1>2. ASSUME NEW k \in 1..Pending
      PROVE  /\ Nth(k)' = Nth(k)
             /\ cache'[Nth(k)] = IF k = Pending THEN Merged(cache[Nth(k)], count) ELSE cache[Nth(k)]
  <2>1. Nth(k) \in Slots /\ last_added \in Slots /\ (Nth(k) = last_added <=> k = Pending)
    BY <1>1 DEF IInv, TypeOK, RingInv, RingShape, MergeFrame, Nth, After, Pending
  <2>. QED  BY <2>1 DEF IInv, TypeOK, MergeFrame, Nth, After
<1>3. \A k \in 1..Pending : cache'[Nth(k)'] = IF k = Pending THEN Merged(cache[Nth(k)], count) ELSE cache[Nth(k)]
  BY <1>2
<1> DEFINE w == [k \in 1..Pending |-> cache[Nth(k)]]
<1>4. Waiting = w
  BY Zenon DEF Waiting
<1>5. Waiting' = [k \in 1..Pending |-> IF k = Pending THEN Merged(w[k], count) ELSE w[k]]
  BY <1>1, <1>3 DEF Waiting
<1>6. Pending \in 1..Pending
  BY <1>1
<1>7. [k \in 1..Pending |-> IF k = Pending THEN Merged(w[k], count) ELSE w[k]]
      = [w EXCEPT ![Pending] = Merged(@, count)]
  BY <1>6
<1>. QED  BY <1>4, <1>5, <1>6, <1>7, <1>1

(* Unlocking puts the filled slot behind the waiting ones. *)
LEMMA UnlockFrameWaits ==
    ASSUME IInv, UnlockFrame
    PROVE  Waiting' = Append(Waiting, Filled(cache[writing], now))
<1>1. Pending' = Pending + 1 /\ Pending \in 0..CacheSize - 1 /\ writing \in Slots
  BY DEF IInv, TypeOK, RingInv, RingShape, Pending, UnlockFrame
<1>2. ASSUME NEW k \in 1..Pending + 1
      PROVE  /\ Nth(k)' = Nth(k)
             /\ cache'[Nth(k)] = IF k = Pending + 1 THEN Filled(cache[writing], now) ELSE cache[Nth(k)]
  <2>1. Nth(k) \in Slots /\ (Nth(k) = writing <=> k = Pending + 1)
    BY <1>1 DEF IInv, TypeOK, RingInv, RingShape, UnlockFrame, Nth, After, Pending
  <2>. QED  BY <1>1, <2>1 DEF IInv, TypeOK, UnlockFrame, Nth, After
<1>3. \A k \in 1..Pending + 1 : cache'[Nth(k)'] =
          IF k = Pending + 1 THEN Filled(cache[writing], now) ELSE cache[Nth(k)]
  BY <1>2
<1> DEFINE f == Filled(cache[writing], now)
<1> DEFINE w == [k \in 1..Pending |-> cache[Nth(k)]]
<1>4. Waiting' = [k \in 1..Pending + 1 |-> IF k = Pending + 1 THEN f ELSE w[k]]
  BY <1>1, <1>3 DEF Waiting
<1>5. Waiting = w
  BY Zenon DEF Waiting
<1> HIDE DEF f
<1>6. [k \in 1..Pending + 1 |-> IF k = Pending + 1 THEN f ELSE w[k]] = Append(w, f)
  BY <1>1
<1>. QED  BY <1>4, <1>5, <1>6, Zenon DEF f

(* Serving shortens the oldest waiting slot, or removes it with its last   *)
(* tick.                                                                   *)
LEMMA FinishTickWaits ==
    ASSUME IInv, FinishTick
    PROVE  /\ Pending > 0 /\ cache[held] = Waiting[1]
           /\ Waiting' = IF cache[held].count = 1 THEN Tail(Waiting)
                         ELSE [Waiting EXCEPT ![1] = Served(@)]
<1>0. /\ held \in Slots /\ held = first_added /\ Pending \in 1..CacheSize
      /\ cache[held] \in Slot /\ first_added \in Slots
  BY DEF IInv, TypeOK, RingInv, ServesOldest, Serving, Pending, IsPending, FinishTick
<1>1. Nth(1) = held /\ cache[held] = Waiting[1]
  BY <1>0 DEF Nth, After, Waiting
<1>2. cache'[held].count = cache[held].count - 1 /\ cache'[held] = Served(cache[held])
  BY <1>0 DEF IInv, TypeOK, FinishTick, Served, Slot
<1>3. \A s \in Slots : s # held => cache'[s] = cache[s]
  BY DEF IInv, TypeOK, FinishTick
<1>4. \A k \in 1..Pending : Nth(k) \in Slots /\ (Nth(k) = held <=> k = 1)
  BY <1>0 DEF Nth, After
<1>5. CASE cache[held].count = 1
  <2>1. Pending' = Pending - 1 /\ first_added' = NextSlot(first_added)
    BY <1>0, <1>2, <1>5 DEF FinishTick, Pending, IInv, TypeOK
  <2>2. \A k \in 1..Pending - 1 : Nth(k)' = Nth(k + 1)
    BY <1>0, <2>1 DEF Nth, After, NextSlot
  <2>3. \A k \in 1..Pending - 1 : cache'[Nth(k)'] = cache[Nth(k + 1)]
    BY <1>0, <1>3, <1>4, <2>2
  <2>4. Waiting' = [k \in 1..Pending - 1 |-> cache[Nth(k + 1)]]
    BY <2>1, <2>3 DEF Waiting
  <2>5. [k \in 1..Pending - 1 |-> cache[Nth(k + 1)]] = Tail(Waiting)
    BY <1>0 DEF Waiting
  <2>. QED  BY <1>0, <1>1, <1>5, <2>4, <2>5
<1>6. CASE cache[held].count # 1
  <2>1. Pending' = Pending /\ first_added' = first_added
    <3>1. cache'[held].count # 0
      BY <1>0, <1>2, <1>6 DEF Slot
    <3>. QED  BY <3>1, Zenon DEF FinishTick, Pending
  <2>2. \A k \in 1..Pending : Nth(k)' = Nth(k)
    BY <2>1 DEF Nth, After
  <2>3. \A k \in 1..Pending : cache'[Nth(k)'] = IF k = 1 THEN Served(cache[Nth(k)]) ELSE cache[Nth(k)]
    BY <1>1, <1>2, <1>3, <1>4, <2>2
  <2>4. Waiting' = [Waiting EXCEPT ![1] = Served(@)]
    BY <1>0, <2>1, <2>3 DEF Waiting
  <2>. QED  BY <1>0, <1>1, <1>6, <2>4
<1>. QED  BY <1>5, <1>6

\* The slot being filled carries the tick of the frame being copied.
WritesNow == writing # NoSlot => cache[writing].ts = now

(* Unlocking a frame submits its ticks to the timeline. *)
LEMMA UnlockSubmits ==
    ASSUME IInv, WritesNow, UnlockFrame
    PROVE  Timeline!TNext
<1> DEFINE n == cache[writing].count
<1> DEFINE s == Filled(cache[writing], now)
<1>1. /\ cache[writing] \in Slot /\ n \in Nat /\ n > 0 /\ now \in Nat
      /\ cache[writing].skipped = 0 /\ cache[writing].ts = now
  BY DEF IInv, TypeOK, RingInv, SlotsGood, UnlockFrame, Slot, WritesNow
<1>2. s \in LiveSlot /\ s.count = n /\ s.ts = now
  BY <1>1 DEF Filled, LiveSlot, Slot
<1>3. Waiting' = Append(Waiting, s)
  BY UnlockFrameWaits
<1>4. Ticks(s) = Timeline!Run(now, n)
  BY <1>2 DEF Ticks, Timeline!Run
<1> HIDE DEF s, n
<1>5. TicksOf(Waiting') = TicksOf(Waiting) \o Timeline!Run(now, n)
  BY <1>2, <1>3, <1>4, WaitingType, TicksOfAppend
<1>6. now' = now + n /\ stop' = stop
  BY DEF UnlockFrame, n
<1>7. now' - now = n
  BY <1>1, <1>6
<1>8. Timeline!Submit(n)
  BY <1>5, <1>6, Zenon DEF Timeline!Submit
<1>9. n \in {now' - now} \cap (Nat \ {0})
  BY <1>1, <1>7
<1>. QED  BY <1>8, <1>9, Zenon DEF Timeline!TNext

(* A merged slot goes on for n ticks. *)
LEMMA MergedTicks ==
    ASSUME NEW sl \in LiveSlot, NEW n \in Nat
    PROVE  /\ Merged(sl, n) \in LiveSlot
           /\ Ticks(Merged(sl, n)) = Ticks(sl) \o Timeline!Run(sl.ts + sl.count, n)
<1>1. sl.count \in Nat /\ sl.ts \in Int /\ sl.skipped \in Int
  BY DEF LiveSlot, Slot
<1>2. Merged(sl, n) \in LiveSlot /\ Merged(sl, n).count = sl.count + n /\ Merged(sl, n).ts = sl.ts
  BY DEF Merged, LiveSlot, Slot
<1>3. Ticks(Merged(sl, n)) = [k \in 1..sl.count + n |-> sl.ts + k - 1]
  BY <1>2 DEF Ticks
<1>4. Ticks(sl) = [k \in 1..sl.count |-> sl.ts + k - 1]
  BY DEF Ticks
<1>5. Timeline!Run(sl.ts + sl.count, n) = [k \in 1..n |-> sl.ts + sl.count + k - 1]
  BY DEF Timeline!Run
<1> DEFINE c == sl.count
<1> DEFINE t == sl.ts
<1>6. [k \in 1..c + n |-> t + k - 1] = [k \in 1..c |-> t + k - 1] \o [k \in 1..n |-> t + c + k - 1]
  <2>1. c \in Nat /\ t \in Int
    BY <1>1
  <2> HIDE DEF c, t
  <2>. QED  BY <2>1
<1>. QED  BY <1>2, <1>3, <1>4, <1>5, <1>6, Zenon

(* A run of ticks without its first. *)
LEMMA TailOfRun ==
    ASSUME NEW c \in Nat \ {0}, NEW t \in Int
    PROVE  Tail([k \in 1..c |-> t + k - 1]) = [k \in 1..c - 1 |-> t + 1 + k - 1]
<1> DEFINE s == [k \in 1..c |-> t + k - 1]
<1>1. s \in Seq(Int) /\ Len(s) = c /\ s # <<>>
  OBVIOUS
<1>2. Tail(s) \in Seq(Int) /\ Len(Tail(s)) = c - 1 /\ \A k \in 1..c - 1 : Tail(s)[k] = s[k + 1]
  <2> HIDE DEF s
  <2>. QED  BY <1>1
<1>3. \A k \in 1..c - 1 : s[k + 1] = t + 1 + k - 1
  OBVIOUS
<1> HIDE DEF s
<1>4. Tail(s) = [k \in 1..c - 1 |-> Tail(s)[k]]
  <2> DEFINE z == Tail(s)
  <2>1. z \in Seq(Int) /\ Len(z) = c - 1
    BY <1>2
  <2> HIDE DEF z
  <2>2. z = [k \in 1..c - 1 |-> z[k]]
    BY <2>1
  <2>. QED  BY <2>2, Zenon DEF z
<1>5. \A k \in 1..c - 1 : Tail(s)[k] = t + 1 + k - 1
  BY <1>2, <1>3
<1>6. [k \in 1..c - 1 |-> Tail(s)[k]] = [k \in 1..c - 1 |-> t + 1 + k - 1]
  BY <1>5
<1>. QED  BY <1>4, <1>6, Zenon DEF s

(* Serving takes the first tick of a slot. *)
LEMMA ServedTicks ==
    ASSUME NEW sl \in LiveSlot
    PROVE  /\ sl.count = 1 => Tail(Ticks(sl)) = <<>>
           /\ sl.count # 1 => Served(sl) \in LiveSlot /\ Ticks(Served(sl)) = Tail(Ticks(sl))
<1>1. sl.count \in Nat \ {0} /\ sl.ts \in Int /\ sl.skipped \in Int
  BY DEF LiveSlot, Slot
<1> DEFINE c == sl.count
<1> DEFINE t == sl.ts
<1>2. Ticks(sl) = [k \in 1..c |-> t + k - 1]
  BY DEF Ticks
<1>3. Tail([k \in 1..c |-> t + k - 1]) = [k \in 1..c - 1 |-> t + 1 + k - 1]
  <2>1. c \in Nat \ {0} /\ t \in Int
    BY <1>1
  <2> HIDE DEF c, t
  <2>. QED  BY <2>1, TailOfRun
<1>4. CASE c = 1
  <2>1. [k \in 1..c - 1 |-> t + 1 + k - 1] = <<>>
    BY <1>4
  <2>. QED  BY <1>2, <1>3, <1>4, <2>1, Zenon
<1>5. CASE c # 1
  <2>1. Served(sl) \in LiveSlot /\ Served(sl).count = c - 1 /\ Served(sl).ts = t + 1
    BY <1>1, <1>5 DEF Served, LiveSlot, Slot
  <2>2. Ticks(Served(sl)) = [k \in 1..c - 1 |-> t + 1 + k - 1]
    BY <2>1 DEF Ticks
  <2>. QED  BY <1>2, <1>3, <1>5, <2>1, <2>2, Zenon
<1>. QED  BY <1>4, <1>5

(* Merging a dropped frame extends what the timeline has queued last. *)
LEMMA MergeExtends ==
    ASSUME IInv, NEW count \in 1..MaxCount, MergeFrame(count)
    PROVE  Timeline!TNext
<1>0. count \in Nat /\ count > 0
  OBVIOUS
<1>1. /\ Waiting \in Seq(LiveSlot) /\ Len(Waiting) = Pending /\ Pending > 0
      /\ Waiting' = [Waiting EXCEPT ![Pending] = Merged(@, count)]
  BY WaitingType, MergeFrameWaits, Zenon
<1>2. Waiting # <<>>
  BY <1>1
<1>3. PICK front \in Seq(LiveSlot) : Waiting = Append(front, Waiting[Len(Waiting)])
  BY <1>1, <1>2, SplitLast
<1> DEFINE last == Waiting[Len(Waiting)]
<1> DEFINE more == Merged(last, count)
<1>4. last \in LiveSlot
  BY <1>1, <1>2, SplitLast
<1>5. more \in LiveSlot /\ Ticks(more) = Ticks(last) \o Timeline!Run(last.ts + last.count, count)
  <2> HIDE DEF last
  <2>. QED  BY <1>0, <1>4, MergedTicks
<1>6. Waiting' = [Waiting EXCEPT ![Pending] = more]
  BY <1>1, Zenon
<1>7. Waiting = Append(front, last)
  BY <1>3, Zenon
<1> HIDE DEF last, more
<1>8. Pending = Len(front) + 1
  BY <1>1, <1>7
<1>9. Waiting' = Append(front, more)
  BY <1>4, <1>5, <1>6, <1>7, <1>8, ReplaceLast
<1>10. /\ TicksOf(Waiting) = TicksOf(front) \o Ticks(last)
       /\ TicksOf(Waiting') = TicksOf(front) \o Ticks(more)
  BY <1>4, <1>5, <1>7, <1>9, TicksOfAppend
<1> DEFINE T == TicksOf(front)
<1> DEFINE u == Ticks(last)
<1>11. T \in Seq(Int) /\ u \in Seq(Int) /\ u # <<>> /\ u[Len(u)] + 1 = last.ts + last.count
  <2>1. /\ Ticks(last) \in Seq(Int) /\ Len(Ticks(last)) = last.count
        /\ last.count \in Nat \ {0} /\ last.ts \in Int
    BY <1>4, TicksType
  <2>2. Ticks(last)[last.count] = last.ts + last.count - 1
    BY <2>1 DEF Ticks
  <2>3. TicksOf(front) \in Seq(Int)
    BY TicksOfType
  <2>. QED  BY <2>1, <2>2, <2>3
<1> DEFINE r == Timeline!Run(last.ts + last.count, count)
<1>12. r \in Seq(Int)
  BY <1>0, <1>4 DEF Timeline!Run, LiveSlot, Slot
<1> DEFINE q == T \o u
<1>13. q # <<>> /\ q[Len(q)] + 1 = last.ts + last.count
  <2> HIDE DEF T, u
  <2>. QED  BY <1>11, ConcatLast
<1>14. T \o (u \o r) = q \o r
  <2> HIDE DEF T, u, r
  <2>1. T \in Seq(Int) /\ u \in Seq(Int) /\ r \in Seq(Int)
    BY <1>11, <1>12, Zenon
  <2>2. \A a, b, c \in Seq(Int) : a \o (b \o c) = (a \o b) \o c
    BY SMTT(30)
  <2>. QED  BY <2>1, <2>2, Zenon
<1>15. TicksOf(Waiting) = q /\ TicksOf(Waiting') = q \o Timeline!Run(q[Len(q)] + 1, count)
  BY <1>5, <1>10, <1>13, <1>14, Zenon
<1>16. now' = now + count /\ stop' = stop /\ now' - now = count
  BY <1>0 DEF MergeFrame, IInv, TypeOK
<1> HIDE DEF q
<1>17. Timeline!Extend(count)
  BY <1>13, <1>15, <1>16, Zenon DEF Timeline!Extend
<1>18. count \in {now' - now} \cap (Nat \ {0})
  BY <1>0, <1>16
<1>. QED  BY <1>17, <1>18, Zenon DEF Timeline!TNext

(* The end of video_output_cur_frame serves one tick of the timeline. *)
LEMMA FinishServes ==
    ASSUME IInv, FinishTick
    PROVE  Timeline!TNext
<1> DEFINE first == Waiting[1]
<1> DEFINE rest == Tail(Waiting)
<1>1. /\ Waiting \in Seq(LiveSlot) /\ Waiting # <<>>
      /\ Waiting' = IF first.count = 1 THEN rest ELSE [Waiting EXCEPT ![1] = Served(@)]
  BY WaitingType, FinishTickWaits
<1>2. Waiting = <<first>> \o rest /\ first \in LiveSlot /\ rest \in Seq(LiveSlot)
  BY <1>1, SplitFirst
<1> HIDE DEF first, rest
<1>3. TicksOf(Waiting) = Ticks(first) \o TicksOf(rest)
  BY <1>2, TicksOfPrepend
<1>4. Ticks(first) \in Seq(Int) /\ Ticks(first) # <<>> /\ TicksOf(rest) \in Seq(Int)
      /\ Len(Ticks(first)) = first.count /\ first.count \in Nat \ {0} /\ first.ts \in Int
  BY <1>2, TicksType, TicksOfType
<1>5. TicksOf(Waiting') = Tail(Ticks(first)) \o TicksOf(rest)
  <2>1. CASE first.count = 1
    <3>1. Tail(Ticks(first)) = <<>>
      BY <1>2, <2>1, ServedTicks
    <3>2. Waiting' = rest
      BY <1>1, <2>1, Zenon
    <3>3. <<>> \o TicksOf(rest) = TicksOf(rest)
      BY <1>4
    <3>. QED  BY <3>1, <3>2, <3>3, Zenon
  <2>2. CASE first.count # 1
    <3>1. Served(first) \in LiveSlot /\ Ticks(Served(first)) = Tail(Ticks(first))
      BY <1>2, <2>2, ServedTicks
    <3>2. Waiting' = [Waiting EXCEPT ![1] = Served(first)]
      BY <1>1, <2>2, Zenon DEF first
    <3>3. Waiting' = <<Served(first)>> \o rest
      BY <1>2, <3>1, <3>2, ReplaceFirst
    <3>. QED  BY <1>2, <3>1, <3>3, TicksOfPrepend
  <2>. QED  BY <2>1, <2>2
<1> DEFINE f == Ticks(first)
<1> DEFINE t == TicksOf(rest)
<1>6. f \o t # <<>> /\ Tail(f \o t) = Tail(f) \o t
  <2> HIDE DEF f, t
  <2>1. f \in Seq(Int) /\ f # <<>> /\ t \in Seq(Int)
    BY <1>4 DEF f, t
  <2>. QED  BY <2>1, ConcatTail
<1>7. now' = now /\ stop' = stop
  BY DEF FinishTick, gfx
<1>8. Timeline!Serve
  BY <1>3, <1>5, <1>6, <1>7, Zenon DEF Timeline!Serve
<1>. QED  BY <1>8, Zenon DEF Timeline!TNext

\* Neither the timeline nor the statistics see a step that leaves these alone.
Quiet == UNCHANGED <<ring, now, stop, writing>>

(* A quiet step leaves the waiting slots and the timeline as they are. *)
LEMMA QuietWaits ==
    ASSUME Quiet
    PROVE  Waiting' = Waiting /\ UNCHANGED Timeline!tvars /\ (WritesNow => WritesNow')
<1>1. Pending' = Pending /\ \A k \in 1..Pending : cache'[Nth(k)'] = cache[Nth(k)]
  BY DEF Quiet, ring, Pending, Nth, After
<1>2. Waiting' = Waiting
  BY <1>1 DEF Waiting
<1>3. now' = now /\ stop' = stop
  BY DEF Quiet
<1>4. WritesNow => WritesNow'
  BY DEF Quiet, ring, WritesNow
<1>. QED  BY <1>2, <1>3, <1>4, Zenon DEF Timeline!tvars

(* The video thread up to its last section, and the clients, are quiet. *)
LEMMA QuietSteps ==
    ASSUME \/ Wake \/ CheckStop \/ TakeFrame \/ LockInputs \/ UnlockInputs
           \/ VisitInput \/ VisitFaultyInput
           \/ (\E i \in Inputs : Connect(i)) \/ (\E k \in DOMAIN inputs : Disconnect(k))
           \/ IncTextureEncoders \/ DecTextureEncoders \/ UNCHANGED vars
    PROVE  Quiet
BY Zenon DEF Quiet, ring, gfx, vars, Wake, CheckStop, TakeFrame, LockInputs, UnlockInputs, VisitInput,
       VisitFaultyInput, Connect, Disconnect, IncTextureEncoders, DecTextureEncoders

(* No slot waits at first. *)
LEMMA InitWaits == ASSUME Init PROVE Waiting = <<>>
BY DEF Init, Waiting, Pending

(* A claimed slot keeps the timestamp of its frame until it is filled. *)
LEMMA WritesNowStep ==
    ASSUME IInv, WritesNow, [Next]_vars
    PROVE  WritesNow'
<1>1. CASE Quiet
  BY <1>1, QuietWaits
<1>2. CASE Idle \/ UnlockFrame \/ \E count \in 1..MaxCount : MergeFrame(count)
  BY <1>2 DEF Idle, UnlockFrame, MergeFrame, WritesNow
<1>3. ASSUME NEW count \in 1..MaxCount, LockFrame(count) PROVE WritesNow'
  <2>1. SlotToLock \in Slots
    BY NextSlotInRing DEF SlotToLock, IInv, TypeOK
  <2>. QED  BY <1>3, <2>1 DEF LockFrame, WritesNow, IInv, TypeOK
<1>4. CASE FinishTick
  <2>1. /\ held \in Slots /\ writing # held
    BY <1>4 DEF IInv, TypeOK, RingInv, RingShape, ServesOldest, Serving, FinishTick, Pending, After
  <2>2. writing' = writing /\ now' = now /\ (writing # NoSlot => cache'[writing] = cache[writing])
    BY <1>4, <2>1 DEF FinishTick, IInv, TypeOK, gfx
  <2>. QED  BY <2>2 DEF WritesNow
<1>5. CASE Stop
  BY <1>5 DEF Stop, ring, gfx, WritesNow
<1>. QED  BY <1>1, <1>2, <1>3, <1>4, <1>5, QuietSteps DEF Next, Produce, VideoThread, Clients

(* Every step of the ring is a step of the timeline, or none. *)
LEMMA TimelineStep ==
    ASSUME IInv, WritesNow, [Next]_vars
    PROVE  [Timeline!TNext]_(Timeline!tvars)
<1>1. CASE Quiet
  BY <1>1, QuietWaits
<1>2. CASE Idle
  <2>1. Waiting' = Waiting
    <3>1. Pending' = Pending /\ \A k \in 1..Pending : cache'[Nth(k)'] = cache[Nth(k)]
      BY <1>2 DEF Idle, ring, Pending, Nth, After
    <3>. QED  BY <3>1 DEF Waiting
  <2>2. now' = now + 1 /\ stop' = stop
    BY <1>2 DEF Idle
  <2>. QED  BY <2>1, <2>2, Zenon DEF Timeline!TNext, Timeline!Blank
<1>3. ASSUME NEW count \in 1..MaxCount, LockFrame(count)
      PROVE  UNCHANGED Timeline!tvars
  <2>1. now' = now /\ stop' = stop
    BY <1>3 DEF LockFrame
  <2>. QED  BY <1>3, <2>1, LockFrameWaits, Zenon DEF Timeline!tvars
<1>4. ASSUME NEW count \in 1..MaxCount, MergeFrame(count)
      PROVE  Timeline!TNext
  BY <1>4, MergeExtends
<1>5. CASE UnlockFrame
  BY <1>5, UnlockSubmits
<1>6. CASE FinishTick
  BY <1>6, FinishServes
<1>7. CASE Stop
  <2>1. Waiting' = Waiting
    <3>1. Pending' = Pending /\ \A k \in 1..Pending : cache'[Nth(k)'] = cache[Nth(k)]
      BY <1>7 DEF Stop, ring, Pending, Nth, After
    <3>. QED  BY <3>1 DEF Waiting
  <2>2. now' = now /\ ~stop /\ stop' = TRUE
    BY <1>7 DEF Stop, gfx
  <2>. QED  BY <2>1, <2>2, Zenon DEF Timeline!TNext, Timeline!Halt
<1>. QED  BY <1>1, <1>2, <1>3, <1>4, <1>5, <1>6, <1>7, QuietSteps
          DEF Next, Produce, VideoThread, Clients

(* Every step keeps the skipped ticks in balance. *)
LEMMA SkipsStep ==
    ASSUME IInv, SkipsConserved, [Next]_vars
    PROVE  SkipsConserved'
<1>0. /\ skipped_frames \in Int /\ due \in Int /\ SkipsOf(Waiting) \in Int
      /\ due = skipped_frames + SkipsOf(Waiting)
  BY WaitingType, SkipsOfType DEF IInv, TypeOK, SkipsConserved
<1>1. CASE /\ Waiting' = Waiting
           /\ \/ UNCHANGED stats
              \/ ResetFrames
  <2>1. due' - skipped_frames' = due - skipped_frames /\ due' \in Int /\ skipped_frames' \in Int
    BY <1>0, <1>1 DEF stats, ResetFrames
  <2>2. SkipsOf(Waiting') = SkipsOf(Waiting)
    BY <1>1
  <2>3. due' = skipped_frames' + SkipsOf(Waiting')
    BY <1>0, <2>1, <2>2
  <2>. QED  BY <2>3, Zenon DEF SkipsConserved
<1>2. ASSUME NEW count \in 1..MaxCount, MergeFrame(count) PROVE SkipsConserved'
  <2>1. /\ Waiting \in Seq(LiveSlot) /\ Len(Waiting) = Pending /\ Pending > 0
        /\ Waiting' = [Waiting EXCEPT ![Pending] = Merged(@, count)]
    BY <1>2, WaitingType, MergeFrameWaits, Zenon
  <2>2. Waiting # <<>>
    BY <2>1
  <2>3. PICK front \in Seq(LiveSlot) : Waiting = Append(front, Waiting[Len(Waiting)])
    BY <2>1, <2>2, SplitLast
  <2> DEFINE last == Waiting[Len(Waiting)]
  <2> DEFINE more == Merged(last, count)
  <2>4. last \in LiveSlot
    BY <2>1, <2>2, SplitLast
  <2>5. more \in LiveSlot /\ more.skipped = last.skipped + count /\ last.skipped \in Int
    <3> HIDE DEF last
    <3>. QED  BY <2>4, MergedTicks DEF Merged, LiveSlot, Slot
  <2>6. Waiting' = [Waiting EXCEPT ![Pending] = more]
    BY <2>1, Zenon
  <2>7. Waiting = Append(front, last)
    BY <2>3, Zenon
  <2> HIDE DEF last, more
  <2>8. Pending = Len(front) + 1
    BY <2>1, <2>7
  <2>9. Waiting' = Append(front, more)
    BY <2>4, <2>5, <2>6, <2>7, <2>8, ReplaceLast
  <2>10. /\ SkipsOf(Waiting) = SkipsOf(front) + last.skipped
         /\ SkipsOf(Waiting') = SkipsOf(front) + more.skipped
         /\ SkipsOf(front) \in Int
    BY <2>4, <2>5, <2>7, <2>9, SkipsOfAppend, SkipsOfType
  <2>11. due' = due + count /\ skipped_frames' = skipped_frames
    BY <1>2 DEF MergeFrame
  <2>12. due' = skipped_frames' + SkipsOf(Waiting')
    BY <1>0, <2>5, <2>10, <2>11, SMTT(30)
  <2>. QED  BY <2>12, Zenon DEF SkipsConserved
<1>3. CASE UnlockFrame
  <2> DEFINE s == Filled(cache[writing], now)
  <2>1. s \in LiveSlot /\ s.skipped = 0
    <3>1. /\ cache[writing] \in Slot /\ cache[writing].count > 0 /\ now \in Nat
          /\ cache[writing].skipped = 0
      BY <1>3 DEF IInv, TypeOK, RingInv, SlotsGood, UnlockFrame
    <3>. QED  BY <3>1 DEF Filled, LiveSlot, Slot
  <2>2. Waiting' = Append(Waiting, s) /\ Waiting \in Seq(LiveSlot)
    BY <1>3, UnlockFrameWaits, WaitingType
  <2> HIDE DEF s
  <2>3. SkipsOf(Waiting') = SkipsOf(Waiting) + s.skipped
    BY <2>1, <2>2, SkipsOfAppend
  <2>4. due' = due /\ skipped_frames' = skipped_frames
    BY <1>3 DEF UnlockFrame, stats
  <2>5. due' = skipped_frames' + SkipsOf(Waiting')
    BY <1>0, <2>1, <2>3, <2>4
  <2>. QED  BY <2>5, Zenon DEF SkipsConserved
<1>4. CASE FinishTick
  <2> DEFINE first == Waiting[1]
  <2> DEFINE rest == Tail(Waiting)
  <2>1. /\ Waiting \in Seq(LiveSlot) /\ Waiting # <<>> /\ cache[held] = first
        /\ Waiting' = IF first.count = 1 THEN rest ELSE [Waiting EXCEPT ![1] = Served(@)]
    BY <1>4, WaitingType, FinishTickWaits
  <2>2. Waiting = <<first>> \o rest /\ first \in LiveSlot /\ rest \in Seq(LiveSlot)
    BY <2>1, SplitFirst
  <2>3. cache'[held] = Served(cache[held])
    BY <1>4 DEF IInv, TypeOK, FinishTick, RingInv, ServesOldest, Serving
  <2> HIDE DEF first, rest
  <2>4. SkipsOf(Waiting) = first.skipped + SkipsOf(rest) /\ SkipsOf(rest) \in Int
    BY <2>2, SkipsOfPrepend, SkipsOfType
  <2>5. /\ due' = due
        /\ skipped_frames' = skipped_frames + (first.skipped - Served(first).skipped)
    BY <1>4, <2>1, <2>3 DEF FinishTick
  <2>6. first.skipped \in Int /\ first.count \in Int /\ Served(first).skipped \in Int
        /\ (first.count = 1 => first.skipped = 0 /\ Served(first).skipped = 0)
    BY <2>2 DEF LiveSlot, Slot, Served
  <2>7. SkipsOf(Waiting') = Served(first).skipped + SkipsOf(rest)
    <3>1. CASE first.count = 1
      BY <2>1, <2>4, <2>6, <3>1
    <3>2. CASE first.count # 1
      <4>1. Served(first) \in LiveSlot
        BY <2>2, <3>2, ServedTicks
      <4>2. Waiting' = [Waiting EXCEPT ![1] = Served(first)]
        BY <2>1, <3>2, Zenon DEF first
      <4>3. Waiting' = <<Served(first)>> \o rest
        BY <2>2, <4>1, <4>2, ReplaceFirst
      <4>. QED  BY <2>2, <4>1, <4>3, SkipsOfPrepend
    <3>. QED  BY <3>1, <3>2
  <2>8. due' = skipped_frames' + SkipsOf(Waiting')
    BY <1>0, <2>4, <2>5, <2>6, <2>7
  <2>. QED  BY <2>8, Zenon DEF SkipsConserved
<1>5. ASSUME ~FinishTick, ~UnlockFrame, \A count \in 1..MaxCount : ~MergeFrame(count)
      PROVE  Waiting' = Waiting /\ (UNCHANGED stats \/ ResetFrames)
  <2>1. CASE Quiet
    <3>1. Waiting' = Waiting
      BY <2>1, QuietWaits
    <3>2. UNCHANGED stats \/ ResetFrames
      BY <1>5, <2>1, Zenon DEF Next, Produce, VideoThread, Clients, stats, vars, Idle, LockFrame,
         Wake, CheckStop, TakeFrame, LockInputs, UnlockInputs, VisitInput,
         VisitFaultyInput, Connect, Disconnect, IncTextureEncoders, DecTextureEncoders, Stop
    <3>. QED  BY <3>1, <3>2
  <2>2. ASSUME NEW count \in 1..MaxCount, LockFrame(count)
        PROVE  Waiting' = Waiting /\ UNCHANGED stats
    BY <2>2, LockFrameWaits DEF LockFrame
  <2>3. CASE Idle \/ Stop
    <3>1. Pending' = Pending /\ (\A k \in 1..Pending : cache'[Nth(k)'] = cache[Nth(k)]) /\ UNCHANGED stats
      BY <2>3 DEF Idle, Stop, ring, Pending, Nth, After
    <3>. QED  BY <3>1 DEF Waiting
  <2>. QED  BY <1>5, <2>1, <2>2, <2>3, QuietSteps DEF Next, Produce, VideoThread, Clients
<1>. QED  BY <1>1, <1>2, <1>3, <1>4, <1>5

(* Conservation of the lag statistics: for every ring size, a tick merged  *)
(* into a cached frame is in skipped_frames or waits in a slot, exactly    *)
(* once, across merges, partial serves and reset_frames.                   *)
THEOREM SkipsAreConserved == Spec => []SkipsConserved
<1>1. Init => SkipsConserved
  <2> SUFFICES ASSUME Init PROVE SkipsConserved
    OBVIOUS
  <2>1. due = 0 /\ skipped_frames = 0 /\ SkipsOf(Waiting) = 0
    BY InitWaits, SkipsOfEmpty DEF Init
  <2>. QED  BY <2>1 DEF SkipsConserved
<1>2. IInv /\ SkipsConserved /\ [Next]_vars => SkipsConserved'
  BY SkipsStep
<1>. QED  BY <1>1, <1>2, RingInvariance, PTL DEF Spec

(* The ring of cached frames implements the timeline (its safety part):    *)
(* each tick handed over is served once and in order, whatever the ring    *)
(* size and wherever frames are merged.                                    *)
THEOREM ImplementsTimeline == Spec => Timeline!TSafe
<1>1. Init => Timeline!TInit /\ WritesNow
  <2> SUFFICES ASSUME Init PROVE Timeline!TInit /\ WritesNow
    OBVIOUS
  <2>1. TicksOf(Waiting) = <<>>
    BY InitWaits, TicksOfEmpty
  <2>. QED  BY <2>1 DEF Init, WritesNow, Timeline!TInit
<1>2. IInv /\ WritesNow /\ [Next]_vars => WritesNow'
  BY WritesNowStep
<1>3. IInv /\ WritesNow /\ [Next]_vars => [Timeline!TNext]_(Timeline!tvars)
  BY TimelineStep
<1>. QED  BY <1>1, <1>2, <1>3, RingInvariance, PTL DEF Spec, Timeline!TSafe

\* Strictly increasing ticks, all before c.
Ordered(q, c) == \A j, k \in DOMAIN q : q[j] < c /\ (j < k => q[j] < q[k])

(* New ticks come after the queued ones. *)
LEMMA OrderedSubmit ==
    ASSUME NEW q \in Seq(Int), NEW c \in Int, Ordered(q, c), NEW n \in Nat \ {0}
    PROVE  q \o Timeline!Run(c, n) \in Seq(Int) /\ Ordered(q \o Timeline!Run(c, n), c + n)
<1> DEFINE run == Timeline!Run(c, n)
<1>1. run \in Seq(Int) /\ Len(run) = n /\ \A k \in 1..n : run[k] = (c + k) - 1
  BY DEF Timeline!Run
<1> HIDE DEF run
<1>2. /\ q \o run \in Seq(Int) /\ Len(q) \in Nat /\ DOMAIN (q \o run) = 1..Len(q) + n
      /\ \A k \in 1..Len(q) + n : (q \o run)[k] = IF k <= Len(q) THEN q[k] ELSE run[k - Len(q)]
  <2>1. /\ q \o run \in Seq(Int) /\ Len(q \o run) = Len(q) + n
        /\ \A k \in 1..Len(q) + n : (q \o run)[k] = IF k <= Len(q) THEN q[k] ELSE run[k - Len(q)]
    BY <1>1, ConcatElements, ZenonT(30)
  <2> DEFINE w == q \o run
  <2> HIDE DEF w
  <2>2. w \in Seq(Int) => DOMAIN w = 1..Len(w)
    OBVIOUS
  <2>. QED  BY <2>1, <2>2 DEF w
<1>3. \A j, k \in 1..Len(q) : q[j] < c /\ q[j] \in Int /\ (j < k => q[j] < q[k])
  BY DEF Ordered
<1>4. Ordered(q \o run, c + n)
  <2> DEFINE w == q \o run
  <2>1. \A k \in 1..Len(q) + n : w[k] = IF k <= Len(q) THEN q[k] ELSE (c + (k - Len(q))) - 1
    BY <1>1, <1>2
  <2> HIDE DEF w
  <2>2. \A j, k \in 1..Len(q) + n : w[j] < c + n /\ (j < k => w[j] < w[k])
    <3> SUFFICES ASSUME NEW j \in 1..Len(q) + n, NEW k \in 1..Len(q) + n
                 PROVE  w[j] < c + n /\ (j < k => w[j] < w[k])
      OBVIOUS
    <3>0. Len(q) \in Nat /\ j \in Int /\ k \in Int
      BY <1>2
    <3>1. CASE j <= Len(q) /\ k <= Len(q)
      <4>1. w[j] = q[j] /\ w[k] = q[k] /\ j \in 1..Len(q) /\ k \in 1..Len(q)
        BY <2>1, <3>0, <3>1
      <4>2. q[j] < c /\ q[j] \in Int /\ (j < k => q[j] < q[k])
        BY <1>3, <4>1
      <4>3. q[j] < c + n
        BY <4>2
      <4>. QED  BY <4>1, <4>2, <4>3, Zenon
    <3>2. CASE j <= Len(q) /\ ~(k <= Len(q))
      <4>1. w[j] = q[j] /\ w[k] = (c + (k - Len(q))) - 1 /\ j \in 1..Len(q)
        BY <2>1, <3>0, <3>2
      <4>2. q[j] < c /\ q[j] \in Int
        BY <1>3, <4>1
      <4>3. q[j] < c + n /\ q[j] < (c + (k - Len(q))) - 1
        BY <3>0, <3>2, <4>2
      <4>. QED  BY <4>1, <4>3, Zenon
    <3>3. CASE ~(j <= Len(q))
      <4>1. w[j] = (c + (j - Len(q))) - 1 /\ (j < k => w[k] = (c + (k - Len(q))) - 1)
        BY <2>1, <3>0, <3>3
      <4>. QED  BY <3>0, <4>1
    <3>. QED  BY <3>1, <3>2, <3>3
  <2>. QED  BY <1>2, <2>2, Zenon DEF Ordered, w
<1>. QED  BY <1>2, <1>4 DEF run

(* An extended tick is followed by ticks the clock has passed. *)
LEMMA OrderedExtend ==
    ASSUME NEW q \in Seq(Int), q # <<>>, NEW c \in Int, Ordered(q, c), NEW n \in Nat \ {0}
    PROVE  /\ q \o Timeline!Run(q[Len(q)] + 1, n) \in Seq(Int)
           /\ Ordered(q \o Timeline!Run(q[Len(q)] + 1, n), c + n)
<1> DEFINE l == q[Len(q)]
<1>1. l \in Int /\ l < c /\ Len(q) \in Nat \ {0} /\ \A j \in 1..Len(q) : q[j] \in Int /\ q[j] <= l
  BY DEF Ordered
<1> HIDE DEF l
<1>2. q \o Timeline!Run(l + 1, n) \in Seq(Int) /\ Ordered(q \o Timeline!Run(l + 1, n), c + n)
  <2> DEFINE r == Timeline!Run(l + 1, n)
  <2> DEFINE s == q \o r
  <2>1. r \in Seq(Int) /\ Len(r) = n /\ \A k \in 1..n : r[k] = l + k
    BY <1>1 DEF Timeline!Run
  <2> HIDE DEF r
  <2>2. s \in Seq(Int) /\ Len(s) = Len(q) + n
        /\ \A k \in 1..Len(q) + n : s[k] = IF k <= Len(q) THEN q[k] ELSE r[k - Len(q)]
    BY <2>1, ConcatElements
  <2> HIDE DEF s
  <2>3. \A k \in 1..Len(q) + n : s[k] = IF k <= Len(q) THEN q[k] ELSE l + (k - Len(q))
    <3>1. ASSUME NEW k \in 1..Len(q) + n, k > Len(q) PROVE k - Len(q) \in 1..n
      BY <1>1, <3>1
    <3>. QED  BY <2>1, <2>2, <3>1
  <2>4. \A j, k \in 1..Len(q) : q[j] < c /\ (j < k => q[j] < q[k])
    BY DEF Ordered
  <2>5. \A j, k \in 1..Len(q) + n : s[j] < c + n /\ (j < k => s[j] < s[k])
    BY <1>1, <2>3, <2>4, SMTT(30)
  <2>6. Ordered(s, c + n)
    BY <1>1, <2>2, <2>5 DEF Ordered
  <2>. QED  BY <2>2, <2>6 DEF r, s
<1>. QED  BY <1>2 DEF l

(* Serving keeps the order. *)
LEMMA OrderedServe ==
    ASSUME NEW q \in Seq(Int), q # <<>>, NEW c \in Int, Ordered(q, c)
    PROVE  Tail(q) \in Seq(Int) /\ Ordered(Tail(q), c)
<1>1. Tail(q) \in Seq(Int) /\ Len(Tail(q)) = Len(q) - 1 /\ \A k \in 1..Len(Tail(q)) : Tail(q)[k] = q[k + 1]
  OBVIOUS
<1>. QED  BY <1>1, SMTT(30) DEF Ordered

(* video_thread serves timestamps in strictly increasing order, and never  *)
(* one the graphics thread has not reached.                                *)
THEOREM TimelineInOrder == Spec => []Timeline!InOrder
<1> DEFINE Q == TicksOf(Waiting)
<1> DEFINE Inv == Q \in Seq(Int) /\ now \in Int /\ Ordered(Q, now)
<1>1. Timeline!TInit => Inv
  BY DEF Timeline!TInit, Ordered
<1>2. Inv /\ [Timeline!TNext]_(Timeline!tvars) => Inv'
  <2> SUFFICES ASSUME Inv, [Timeline!TNext]_(Timeline!tvars) PROVE Inv'
    OBVIOUS
  <2> HIDE DEF Q
  <2>1. CASE UNCHANGED Timeline!tvars
    BY <2>1 DEF Timeline!tvars, Q
  <2>2. CASE Timeline!Blank
    <3>1. Q' = Q /\ now' = now + 1
      BY <2>2, Zenon DEF Timeline!Blank, Q
    <3>. QED  BY <3>1 DEF Ordered
  <2>3. CASE Timeline!Serve
    <3>1. Q # <<>> /\ Q' = Tail(Q) /\ now' = now
      BY <2>3, Zenon DEF Timeline!Serve, Q
    <3>. QED  BY <3>1, OrderedServe
  <2>4. CASE Timeline!Halt
    <3>1. Q' = Q /\ now' = now
      BY <2>4, Zenon DEF Timeline!Halt, Q
    <3>. QED  BY <3>1
  <2>5. ASSUME NEW n \in Nat \ {0}, Timeline!Submit(n) PROVE Inv'
    <3>1. Q' = Q \o Timeline!Run(now, n) /\ now' = now + n
      BY <2>5, Zenon DEF Timeline!Submit, Q
    <3>. QED  BY <3>1, OrderedSubmit
  <2>6. ASSUME NEW n \in Nat \ {0}, Timeline!Extend(n) PROVE Inv'
    <3>1. Q # <<>> /\ Q' = Q \o Timeline!Run(Q[Len(Q)] + 1, n) /\ now' = now + n
      BY <2>6, Zenon DEF Timeline!Extend, Q
    <3>. QED  BY <3>1, OrderedExtend
  <2>. QED  BY <2>1, <2>2, <2>3, <2>4, <2>5, <2>6 DEF Timeline!TNext
<1>3. Inv => Timeline!InOrder
  BY Zenon DEF Ordered, Timeline!InOrder
<1>. QED  BY <1>1, <1>2, <1>3, ImplementsTimeline, PTL DEF Timeline!TSafe
=============================================================================
