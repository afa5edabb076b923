----------------------------- MODULE ServedBook -----------------------------
(***************************************************************************)
(* What a tracked book promises its readers, with no buffer, snapshot or   *)
(* sequencer in sight: it is either served, at the position of an update   *)
(* of the venue, or not served.  A served position is never behind         *)
(* anything the stream has delivered, and never behind a position that was *)
(* served before, not even when the book was lost in between.              *)
(***************************************************************************)
EXTENDS Integers

CONSTANT MaxUpdate   \* the last update id of the venue

NotServed == -1

VARIABLES
    pos,     \* the position served, or NotServed
    heard,   \* the newest update the stream has delivered
    peak     \* the newest position ever served

Init ==
    /\ pos = NotServed
    /\ heard = 0
    /\ peak = 0

Serve(id) ==
    /\ id >= heard'
    /\ id >= peak
    /\ pos' = id
    /\ peak' = id

Lose ==
    /\ pos' = NotServed
    /\ UNCHANGED peak

Next ==
    /\ heard' \in heard .. MaxUpdate
    /\ (\E id \in 0 .. MaxUpdate : Serve(id)) \/ Lose

Spec == Init /\ [][Next]_<<pos, heard, peak>>
=============================================================================
