----------------------------- MODULE MCProposals -----------------------------
(***************************************************************************)
(* Instances of CapabilityProposals, with whether requests that concern    *)
(* each other have been served side by side so far.  Gaps, work items and  *)
(* proposals are only told apart by identity, so their names may be        *)
(* permuted.                                                               *)
(***************************************************************************)
EXTENDS CapabilityProposals, TLC

VARIABLE overlapped   \* see Overlapping

\* Two requests for one ability, or two about one proposal, are under way.
Overlapping ==
    \E t, u \in Thread :
        /\ t # u /\ ~At(t, "idle") /\ ~At(u, "idle")
        /\ \/ th[t].ability = th[u].ability /\ th[t].ability # None
           \/ th[t].id = th[u].id

HistoryInit == Init /\ overlapped = FALSE
HistoryNext == Next /\ overlapped' = (overlapped \/ Overlapping')
HistorySpec == HistoryInit /\ [][HistoryNext]_<<vars, overlapped>>

\* "The same candidate is not created again": an ability has one open proposal,
\* as long as no two requests for it were looking at the same time; crashes
\* between the commits included.
OneOpenWhenSerial ==
    overlapped \/ \A a \in Ability : Cardinality(Open(a)) <= 1

\* The requests that are about to queue a job for a work item.
Queuers(i) == {t \in Thread : th[t].id = i /\ th[t].pc \in {"enqueue", "retry"}}

\* A verdict queues a job only for a proposal that stands approved then, and like a
\* change of status only for a work item that stands accepted; those who ask for
\* the job itself get it.  And a rejected proposal stays rejected.
VerdictStands ==
    \/ overlapped'
    \/ /\ \A i \in jobs' \ jobs : \E t \in Queuers(i) :
            /\ th[t].verdict # "none" => proposal[i] = "approved_for_dev"
            /\ th[t].goal # "none" => work[i] = "accepted"
       /\ \A i \in Id : proposal[i] = "rejected" => proposal'[i] = "rejected"

\* What users have decided holds, while verdicts about a proposal come one by one,
\* while the ability of a rejected proposal may be proposed anew.
VerdictsHold == [][VerdictStands]_<<vars, overlapped>>

Symmetry == Permutations(Id) \cup Permutations(Thread)
=============================================================================
