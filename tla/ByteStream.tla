----------------------------- MODULE ByteStream -----------------------------
(***************************************************************************)
(* What a stream socket promises to the code that writes to it: the bytes  *)
(* it accepts reach the wire once each and in order, and a socket closed   *)
(* with Close(true) has written all of them unless it failed.              *)
(***************************************************************************)
EXTENDS Naturals, Sequences

CONSTANT MaxBytes   \* how many bytes may be accepted

VARIABLES accepted,   \* how many bytes were accepted; byte n is the number n
          delivered,  \* the bytes on the wire
          ends        \* "open", "finished" or "cut"

streamVars == <<accepted, delivered, ends>>

StreamInit == accepted = 0 /\ delivered = <<>> /\ ends = "open"

Accept ==
    /\ ends = "open"
    /\ accepted' \in accepted + 1..MaxBytes
    /\ UNCHANGED <<delivered, ends>>

Deliver ==
    /\ ends = "open"
    /\ Len(delivered') \in Len(delivered) + 1..accepted
    /\ delivered' = [n \in 1..Len(delivered') |-> n]
    /\ UNCHANGED <<accepted, ends>>

Finish ==
    /\ ends = "open" /\ Len(delivered) = accepted
    /\ ends' = "finished"
    /\ UNCHANGED <<accepted, delivered>>

Cut ==
    /\ ends = "open"
    /\ ends' = "cut"
    /\ UNCHANGED <<accepted, delivered>>

StreamSafe == StreamInit /\ [][Accept \/ Deliver \/ Finish \/ Cut]_streamVars

(* A byte that was accepted reaches the wire unless the stream is cut. *)
StreamLive == \A n \in 1..MaxBytes : accepted >= n ~> (Len(delivered) >= n \/ ends = "cut")
=============================================================================
