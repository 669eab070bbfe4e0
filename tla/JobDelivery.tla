---------------------------- MODULE JobDelivery -----------------------------
(***************************************************************************)
(* What the Redis streams and the workers promise about the message of a   *)
(* job, seen from outside: it is sent once, handed to a worker once,       *)
(* possibly together with others, begun once by whoever holds it, and      *)
(* acknowledged once, after it was begun.  Nothing brings a message back,  *)
(* and nothing but an acknowledgement takes one away; a message may stay   *)
(* "held" for ever.                                                        *)
(***************************************************************************)
EXTENDS Naturals

CONSTANT Job

VARIABLES place, starts

Move(S, from, to) ==
    /\ S # {}
    /\ \A j \in S : place[j] = from
    /\ place' = [j \in Job |-> IF j \in S THEN to ELSE place[j]]

Init ==
    /\ place = [j \in Job |-> "unsent"]
    /\ starts = [j \in Job |-> 0]

Send(j) == Move({j}, "unsent", "unread") /\ UNCHANGED starts
Hand(S) == Move(S, "unread", "held") /\ UNCHANGED starts

Begin(j) ==
    /\ place[j] = "held"
    /\ starts[j] = 0
    /\ starts' = [starts EXCEPT ![j] = 1]
    /\ UNCHANGED place

Settle(j) ==
    /\ starts[j] = 1
    /\ Move({j}, "held", "settled")
    /\ UNCHANGED starts

Next ==
    \/ \E j \in Job : Send(j) \/ Begin(j) \/ Settle(j)
    \/ \E S \in SUBSET Job : Hand(S)

Spec == Init /\ [][Next]_<<place, starts>>
=============================================================================
