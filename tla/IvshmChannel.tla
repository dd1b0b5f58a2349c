---------------------------- MODULE IvshmChannel ----------------------------
(***************************************************************************)
(* What one direction of the ivshmem pipe promises to the endpoints: a     *)
(* channel that delivers whole frames, once each and in the order in which *)
(* they were queued.  IvshmVring implements it with a virtio ring and a    *)
(* data ring in shared memory (dev/ivshmem/ivshmem-pipe.c).                *)
(*                                                                         *)
(* A frame is named by its number, modulo Wrap.                            *)
(***************************************************************************)
EXTENDS Integers, Sequences

CONSTANTS Wrap,       \* frame numbers are taken modulo Wrap
          Capacity    \* frames the channel can hold, fewer than Wrap

VARIABLES chan,   \* the frames in flight, oldest first
          sent,   \* number of the next frame to be queued
          got     \* number of the next frame to be delivered

vars == <<chan, sent, got>>

Frames == 0..Wrap - 1

Init ==
    /\ chan = <<>>
    /\ sent = 0
    /\ got  = 0

\* A frame is queued behind those in flight.
Send ==
    /\ Len(chan) < Capacity
    /\ chan' = Append(chan, sent)
    /\ sent' = (sent + 1) % Wrap
    /\ UNCHANGED got

\* The oldest frame in flight is delivered.
Receive ==
    /\ chan # <<>>
    /\ Head(chan) = got
    /\ chan' = Tail(chan)
    /\ got'  = (got + 1) % Wrap
    /\ UNCHANGED sent

\* The channel is closed; what is in flight is dropped and a new channel
\* starts from nothing.
Close ==
    /\ chan' = <<>>
    /\ sent' = 0
    /\ got'  = 0

Next == Send \/ Receive \/ Close

Spec == Init /\ [][Next]_vars
=============================================================================
