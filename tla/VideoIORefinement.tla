-------------------------- MODULE VideoIORefinement --------------------------
(***************************************************************************)
(* VideoIO implements VideoTimeline: the waiting slots, read from          *)
(* first_added on, are the queue of ticks.                                 *)
(***************************************************************************)
EXTENDS VideoIO, SequencesExt

Nth(k) == After(first_added, k - 1)     \* the k-th waiting slot
Waiting == [k \in 1..Pending |-> cache[Nth(k)]]

\* The ticks a slot, and a sequence of slots, stand for.
Ticks(slot) == [k \in 1..slot.count |-> slot.ts + k - 1]
TicksOf(slots) == FlattenSeq([k \in DOMAIN slots |-> Ticks(slots[k])])

Timeline == INSTANCE VideoTimeline WITH
    queue  <- TicksOf(Waiting),
    clock  <- now,
    halted <- stop

(* Every tick handed to the ring is served exactly once, in order, and is  *)
(* eventually served unless the output is stopped.                         *)
ServesTimeline == Timeline!TSpec

\* The skipped ticks in a sequence of slots.
SkipsOf(slots) == FoldLeft(+, 0, [k \in DOMAIN slots |-> slots[k].skipped])

(* Conservation of the encoder-lag statistics: each tick merged into a     *)
(* cached frame is in skipped_frames, or waits to be counted in a waiting  *)
(* slot: none is lost and none is counted twice.                           *)
SkipsConserved == due = skipped_frames + SkipsOf(Waiting)
=============================================================================
