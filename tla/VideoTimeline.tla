---------------------------- MODULE VideoTimeline ----------------------------
(***************************************************************************)
(* What the raw-video output promises: the clock ticks, every tick that    *)
(* was handed to the output is served once and in order, none before it    *)
(* was handed over, and serving goes on until the output is halted.        *)
(***************************************************************************)
EXTENDS Integers, Sequences

VARIABLES
    queue,      \* the ticks that wait to be served, oldest first
    clock,      \* the next tick
    halted

tvars == <<queue, clock, halted>>

Run(t, n) == [k \in 1..n |-> t + k - 1]

TInit == queue = <<>> /\ clock = 1 /\ halted = FALSE

\* A tick in which nothing was produced.
Blank == clock' = clock + 1 /\ UNCHANGED <<queue, halted>>

\* A frame for the next n ticks.
Submit(n) == /\ queue' = queue \o Run(clock, n)
             /\ clock' = clock + n
             /\ UNCHANGED halted

\* A frame that has to be dropped: what was queued last is served n times more.
Extend(n) == /\ queue # <<>>
             /\ queue' = queue \o Run(queue[Len(queue)] + 1, n)
             /\ clock' = clock + n
             /\ UNCHANGED halted

Serve == queue # <<>> /\ queue' = Tail(queue) /\ UNCHANGED <<clock, halted>>

Halt == ~halted /\ halted' = TRUE /\ UNCHANGED <<queue, clock>>

\* n is how far the clock moves.
TNext == \/ Blank \/ Serve \/ Halt
         \/ \E n \in {clock' - clock} \cap (Nat \ {0}) : Submit(n) \/ Extend(n)

TSafe == TInit /\ [][TNext]_tvars

\* Until the output is halted, what is queued gets served.
TSpec == TSafe /\ WF_tvars(~halted /\ Serve)

\* Ticks are served in strictly increasing order and never from the future.
InOrder == \A j, k \in DOMAIN queue :
               queue[j] < clock /\ (j < k => queue[j] < queue[k])
=============================================================================
