----------------------------- MODULE DrainAbs -------------------------------
(***************************************************************************)
(* What draining a compositor pipe promises, whichever road the bytes      *)
(* take: a stream of 1..Limit bytes is kept whole, with the fingerprint of *)
(* exactly those bytes, and nothing is dropped unless the stream is empty, *)
(* over the limit, or an input or output operation really failed.          *)
(* payload::read_bounded and splice::copy_to_file make the same promise,   *)
(* each in its own words; module Drain is shown to keep it.                *)
(***************************************************************************)
EXTENDS Naturals, Sequences

CONSTANTS Limit,      \* MAX_PAYLOAD_BYTES
          MaxStream   \* bound: bytes an application sends

VARIABLES supply,     \* how many bytes the application sends in all
          failed,     \* whether an operation failed with a real error
          kept,       \* the bytes kept
          digested,   \* the bytes the fingerprint was computed over
          verdict     \* "pending", "kept" or "dropped"

vars == <<supply, failed, kept, digested, verdict>>

\* The stream's bytes from position a + 1 to b: a byte is its position.
Bytes(a, b) == [i \in 1..(b - a) |-> a + i]

Init ==
    /\ supply \in 0..MaxStream /\ failed = FALSE
    /\ kept = <<>> /\ digested = <<>> /\ verdict = "pending"

Keep ==
    /\ verdict = "pending" /\ supply \in 1..Limit
    /\ verdict' = "kept" /\ kept' = Bytes(0, supply) /\ digested' = Bytes(0, supply)
    /\ UNCHANGED <<supply, failed>>

Drop ==
    /\ verdict = "pending" /\ verdict' = "dropped"
    /\ failed' \in BOOLEAN
    /\ failed' \/ supply = 0 \/ supply > Limit
    /\ UNCHANGED <<supply, kept, digested>>

Next == Keep \/ Drop
Spec == Init /\ [][Next]_vars
=============================================================================
