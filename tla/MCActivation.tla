---------------------------- MODULE MCActivation ----------------------------
(***************************************************************************)
(* Instances of Activation, with what has happened so far: whether two     *)
(* activations were under way at once, and whether a user has changed a    *)
(* status.  The properties that hold of an undisturbed activation say in   *)
(* front of which disturbance they stop holding.                           *)
(***************************************************************************)
EXTENDS Activation, TLC

VARIABLES
    overlapped,  \* two activations were under way at the same time
    changed      \* a user thread has changed, or is about to change, a status

history == <<overlapped, changed>>

UnderWay == {a \in Activator : ~At(a, "idle")}

HistoryInit == Init /\ overlapped = FALSE /\ changed = FALSE
HistoryNext ==
    /\ Next
    /\ overlapped' = (overlapped \/ Cardinality(UnderWay') > 1)
    /\ changed' = (changed \/ user' # user)

HistorySpec == HistoryInit /\ [][HistoryNext]_<<vars, history>>

Happened(kinds) == faults \cap kinds # {}

\* "The tests must pass in the live repository": what HEAD holds is, as a whole,
\* something the tests passed on, whatever failed before, as long as activations
\* do not run side by side.
LiveWasTestedWhenSerial == ~overlapped => LiveWasTested

\* A patch that went live leaves its item completed once the activation is over,
\* unless the commit command was killed, the reload or the archive failed, or the
\* process was cut short after the commit.
LiveIsCompletedUnlessCut ==
    \/ overlapped \/ changed
    \/ Happened({"fails_after_commit", "raises_after_commit", "crash"})
    \/ LiveIsCompleted

\* The exceptions that leave activate_work_item without _fail_activation.
Escapes == {"raises", "test_timeout", "raises_after_commit", "crash"}

\* "If it fails the work item goes back to reviewing": when an activation is over
\* the item does not stay waiting for an approval it cannot use any more, whatever
\* other commands failed.  It does stay there after the exceptions above, which the
\* code lets through.
DecidesUnlessRaised ==
    [][\A a \in Activator :
          \/ At(a, "idle") \/ ~At(a, "idle")'
          \/ status'[act[a].work] # "waiting_approval"
          \/ Happened(Escapes)']_<<vars, history>>

Interchangeable == Permutations(Activator)
=============================================================================
