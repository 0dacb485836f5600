----------------------------- MODULE EchoService -----------------------------
(***************************************************************************)
(* What the echo server promises one peer, without goroutines or channels: *)
(* messages come back in the order they were sent, none skipped and none   *)
(* twice, and the server never holds more than Window of them.             *)
(***************************************************************************)
EXTENDS Integers, Sequences

CONSTANT Window

VARIABLES sent,     \* how many messages the peer sent; message n is the nth
          taken,    \* how many of them the server took off the connection
          echoed    \* the messages the server wrote back, in order

vars == <<sent, taken, echoed>>

Init == sent = 0 /\ taken = 0 /\ echoed = <<>>

Send == sent' = sent + 1 /\ UNCHANGED <<taken, echoed>>

Take ==
    /\ taken < sent
    /\ taken - Len(echoed) < Window
    /\ taken' = taken + 1
    /\ UNCHANGED <<sent, echoed>>

Echo ==
    /\ Len(echoed) < taken
    /\ echoed' = Append(echoed, Len(echoed) + 1)
    /\ UNCHANGED <<sent, taken>>

Next == Send \/ Take \/ Echo

Spec == Init /\ [][Next]_vars
=============================================================================
