-------------------------- MODULE ActivationProofs --------------------------
(***************************************************************************)
(* Proofs about Activation: if activations commit what they apply and      *)
(* nobody but them says completed, the ledger never claims more than the   *)
(* repository holds, and what is live is called completed unless an        *)
(* activation was cut short; if they run one after another, what is        *)
(* committed was tested. For any number of patches, of activations, of     *)
(* users in between and of faults of any kind.                             *)
(***************************************************************************)
EXTENDS MCActivation, FiniteSetTheorems, TLAPS

-----------------------------------------------------------------------------
(* The inductive invariant.                                                *)

\* An activation whose patch is in the tree and may still be taken back.
Trying == {"test", "rollback", "verify", "add", "commit", "reset"}

\* One whose patch is committed.
Published == {"reload", "archive", "record", "parent", "parent_write",
              "proposal", "proposal_write"}

Verified == {"add", "commit", "reset"} \cup Published

Tries(a, w) == act[a].pc \in Trying /\ act[a].work = w

\* The patch is in HEAD and nothing that is under way takes it out again.
Settled(w) ==
    /\ w \in tree /\ w \in index /\ w \in head
    /\ \A a \in Activator : ~Tries(a, w)

ActivatorIsSound(a) ==
    /\ act[a].pc # "idle" => act[a].work \in Work
    /\ act[a].pc \in Trying => act[a].work \in tree
    /\ act[a].pc \in Verified => act[a].work \in verified
    /\ act[a].pc = "commit" => act[a].work \in index \/ index = head
    /\ act[a].pc \in Published => Settled(act[a].work)

ActivatorsAreSound == \A a \in Activator : ActivatorIsSound(a)

\* A patch that is in the tree does not apply again.
OneTries ==
    \A a, b \in Activator :
        /\ act[a].pc \in Trying /\ act[b].pc \in Trying
        /\ act[a].work = act[b].work
        => a = b

UsersAreSound ==
    \A u \in User :
        user[u] # NoChange => user[u].work \in Work /\ user[u].goal \in UserGoals

ClaimsAreTrue ==
    /\ \A w \in Work : status[w] = "completed" => Settled(w)
    /\ \A w \in Proposed :
         proposal[w] = "active" => Settled(w) /\ w \in verified

ActInv == TypeOK /\ ActivatorsAreSound /\ OneTries /\ UsersAreSound /\ ClaimsAreTrue

\* The repository before the first activation has it.
LEMMA InitActivation == Init => ActInv
<1> SUFFICES ASSUME Init PROVE ActInv
  OBVIOUS
<1>1. Idle \in ActivatorState /\ NoChange \in UserState
  BY DEF Idle, NoChange, ActivatorState, UserState, PC
<1>2. TypeOK
  BY <1>1 DEF Init, TypeOK, WorkStatus, ProposalStatus
<1>3. \A a \in Activator : act[a].pc = "idle"
  BY DEF Init, Idle
<1>4. ActivatorsAreSound /\ OneTries
  BY <1>3 DEF ActivatorsAreSound, ActivatorIsSound, OneTries, Trying, Published,
              Verified
<1>5. UsersAreSound
  BY DEF Init, UsersAreSound
<1>6. ClaimsAreTrue
  BY DEF Init, ClaimsAreTrue
<1> QED
  BY <1>2, <1>4, <1>5, <1>6 DEF ActInv

-----------------------------------------------------------------------------
(* How an activator moves.                                                 *)

Others(a) == \A b \in Activator : b # a => act'[b] = act[b]

Now(a, pc) == act'[a].pc = pc /\ act'[a].work = act[a].work /\ Others(a)

\* It goes on or returns, and leaves the others alone.
LEMMA ActMoves ==
  ASSUME act \in [Activator -> ActivatorState], NEW a \in Activator
  PROVE  /\ \A pc : Goto(a, pc) => Now(a, pc)
         /\ \A pc \in PC : Goto(a, pc) => act' \in [Activator -> ActivatorState]
         /\ Return(a) => /\ act'[a].pc = "idle" /\ Others(a)
                         /\ act' \in [Activator -> ActivatorState]
<1>1. act[a] \in ActivatorState /\ act \in [Activator -> ActivatorState]
  OBVIOUS
<1>2. ASSUME NEW pc, Goto(a, pc)
      PROVE  Now(a, pc) /\ (pc \in PC => act' \in [Activator -> ActivatorState])
  <2>1. act' = [act EXCEPT ![a] = [act[a] EXCEPT !.pc = pc]]
    BY <1>2, Zenon DEF Goto
  <2>2. /\ [act[a] EXCEPT !.pc = pc].pc = pc
        /\ [act[a] EXCEPT !.pc = pc].work = act[a].work
        /\ pc \in PC => [act[a] EXCEPT !.pc = pc] \in ActivatorState
    BY <1>1 DEF ActivatorState
  <2> QED
    BY <1>1, <2>1, <2>2 DEF Now, Others
<1>3. Idle \in ActivatorState /\ Idle.pc = "idle"
  BY DEF Idle, ActivatorState, PC
<1>4. ASSUME Return(a)
      PROVE  /\ act'[a].pc = "idle" /\ Others(a)
             /\ act' \in [Activator -> ActivatorState]
  BY <1>1, <1>3, <1>4 DEF Return, Others
<1> QED
  BY <1>2, <1>4

LEMMA GotoIs ==
  ASSUME TypeOK, NEW a \in Activator
  PROVE  /\ \A pc : Goto(a, pc) => Now(a, pc)
         /\ \A pc \in PC : Goto(a, pc) => act' \in [Activator -> ActivatorState]
         /\ Return(a) => /\ act'[a].pc = "idle" /\ Others(a)
                         /\ act' \in [Activator -> ActivatorState]
  BY ActMoves DEF TypeOK

\* What is left to prove of a step that changes neither the repository nor the
\* ledger.
Quiet == UNCHANGED <<status, proposal, tree, index, head>>

\* A step that only goes on.
LEMMA QuietMove ==
  ASSUME ActInv, NEW a \in Activator, Others(a), Quiet, UNCHANGED user,
         verified \subseteq verified', TypeOK',
         \/ act'[a].pc \notin Trying \cup Published \cup {"idle"}
              /\ act'[a].work \in Work
         \/ act'[a].pc = "idle"
         \/ /\ act'[a].work = act[a].work /\ act[a].pc # "idle"
            /\ act'[a].pc \in Trying => act[a].pc \in Trying
            /\ act'[a].pc \in Verified => act'[a].work \in verified'
            /\ act'[a].pc \in Published => act[a].pc \in Published
            /\ act'[a].pc = "commit" => act[a].pc = "commit"
  PROVE  ActInv'
<1> USE DEF Quiet
<1>1. ASSUME NEW w, NEW b \in Activator, Tries(b, w)' PROVE Tries(b, w)
  BY <1>1 DEF Others, Tries, Trying, Published
<1>2. ASSUME NEW w, Settled(w) PROVE Settled(w)'
  BY <1>1, <1>2 DEF Settled
<1>3. ActivatorsAreSound'
  <2> SUFFICES ASSUME NEW b \in Activator PROVE ActivatorIsSound(b)'
    BY DEF ActivatorsAreSound
  <2>1. ActivatorIsSound(b) /\ ActivatorIsSound(a)
    BY DEF ActInv, ActivatorsAreSound
  <2>2. CASE b # a
    <3>1. act'[b] = act[b]
      BY <2>2 DEF Others
    <3> QED
      BY <2>1, <3>1, <1>2 DEF ActivatorIsSound
  <2>3. CASE b = a
    BY <2>1, <2>3, <1>2 DEF ActivatorIsSound, Trying, Published, Verified
  <2> QED
    BY <2>2, <2>3
<1>4. OneTries'
  BY <1>1 DEF ActInv, OneTries, Tries
<1>5. UsersAreSound' /\ ClaimsAreTrue'
  BY <1>2 DEF ActInv, UsersAreSound, ClaimsAreTrue
<1> QED
  BY <1>3, <1>4, <1>5 DEF ActInv

-----------------------------------------------------------------------------
(* The steps.                                                              *)

\* The types are kept.
LEMMA NextTypes == ActInv /\ [Next]_vars => TypeOK'
<1> SUFFICES ASSUME ActInv, [Next]_vars PROVE TypeOK'
  OBVIOUS
<1>0. TypeOK /\ ActivatorsAreSound /\ UsersAreSound
  BY DEF ActInv
<1> USE DEF ledger, repo
<1>1. ASSUME NEW a \in Activator, NEW w \in Work, Start(a, w) PROVE TypeOK'
  BY <1>0, <1>1 DEF Start, TypeOK, ActivatorState, PC
<1>2. ASSUME NEW a \in Activator,
             \/ UsePatch(a) \/ CleanGit(a) \/ Raise(a) \/ Crash(a) \/ Reload(a)
             \/ Archive(a)
      PROVE  TypeOK'
  BY <1>0, <1>2, GotoIs, ActivationAssumption
     DEF UsePatch, CleanGit, Raise, Crash, Reload, Archive, Fault, TypeOK, PC
<1>3. ASSUME NEW a \in Activator, Apply(a) \/ Rollback(a) \/ Test(a) \/ Verify(a)
      PROVE  TypeOK'
  <2>1. act[a].work \in Work
    BY <1>0, <1>3 DEF Apply, Rollback, Test, Verify, At, ActivatorsAreSound,
                      ActivatorIsSound
  <2> QED
    BY <1>0, <1>3, <2>1, GotoIs, ActivationAssumption
       DEF Apply, Rollback, Test, Verify, AfterVerify, Fault, TypeOK, PC
<1>4. ASSUME NEW a \in Activator, Add(a) \/ Commit(a) \/ Reset(a) PROVE TypeOK'
  BY <1>0, <1>4, GotoIs, ActivationAssumption
     DEF Add, Commit, Reset, Fault, TypeOK, PC
<1>5. ASSUME NEW a \in Activator, Record(a) \/ Fail(a) PROVE TypeOK'
  BY <1>0, <1>5, GotoIs
     DEF Record, Fail, Leave, AfterRecord, TypeOK, PC, WorkStatus
<1>6. ASSUME NEW a \in Activator, CompleteParent(a) \/ CheckProposal(a)
      PROVE  TypeOK'
  BY <1>0, <1>6, GotoIs DEF CompleteParent, CheckProposal, TypeOK, PC
<1>7. ASSUME NEW a \in Activator, WriteParent(a) \/ WriteProposal(a) PROVE TypeOK'
  BY <1>0, <1>7, GotoIs
     DEF WriteParent, WriteProposal, TypeOK, WorkStatus, ProposalStatus
<1>8. ASSUME NEW u \in User, NEW w \in UserWork, NEW goal \in UserGoals,
             UserCheck(u, w, goal)
      PROVE  TypeOK'
  BY <1>0, <1>8, ActivationAssumption DEF UserCheck, TypeOK, UserState
<1>9. ASSUME NEW u \in User, UserWrite(u) PROVE TypeOK'
  <2>1. user[u].goal \in WorkStatus /\ NoChange \in UserState
    BY <1>0, <1>9, ActivationAssumption
       DEF UserWrite, UsersAreSound, UserState, NoChange
  <2> QED
    BY <1>0, <1>9, <2>1 DEF UserWrite, TypeOK
<1>10. CASE UNCHANGED vars
  BY <1>0, <1>10 DEF vars, TypeOK
<1> QED
  BY <1>1, <1>2, <1>3, <1>4, <1>5, <1>6, <1>7, <1>8, <1>9, <1>10 DEF Next, Step

\* Every step keeps the invariant.
LEMMA NextActivation ==
  ASSUME CommitAfterApply, "completed" \notin UserGoals
  PROVE  ActInv /\ [Next]_vars => ActInv'
<1> SUFFICES ASSUME ActInv, [Next]_vars PROVE ActInv'
  OBVIOUS
<1>0. TypeOK /\ ActivatorsAreSound /\ OneTries /\ UsersAreSound /\ ClaimsAreTrue
      /\ TypeOK'
  BY NextTypes DEF ActInv
<1> USE DEF ledger, repo, At
<1>1. ASSUME NEW a \in Activator, NEW w \in Work, Start(a, w) PROVE ActInv'
  <2>1. /\ act'[a].pc = "patch" /\ act'[a].work = w /\ Others(a)
    BY <1>0, <1>1 DEF Start, TypeOK, Others
  <2> QED
    BY <1>0, <1>1, <2>1, QuietMove DEF Start, Quiet, Trying, Published
<1>2. ASSUME NEW a \in Activator, Raise(a) \/ Crash(a) PROVE ActInv'
  BY <1>0, <1>2, GotoIs, QuietMove DEF Raise, Crash, Quiet
<1>3. ASSUME NEW a \in Activator,
             \/ UsePatch(a) \/ CleanGit(a) \/ Test(a) \/ Verify(a) \/ Reload(a)
             \/ Archive(a) \/ CompleteParent(a) \/ CheckProposal(a)
      PROVE  ActInv'
  <2>1. Quiet /\ UNCHANGED user /\ verified \subseteq verified'
    BY <1>3 DEF UsePatch, CleanGit, Test, Verify, Reload, Archive, CompleteParent,
                CheckProposal, Quiet
  <2>2. act[a].pc # "idle" /\ ActivatorIsSound(a) /\ act[a].work \in Work
    BY <1>0, <1>3 DEF UsePatch, CleanGit, Test, Verify, Reload, Archive,
                      CompleteParent, CheckProposal, ActivatorsAreSound,
                      ActivatorIsSound
  <2>3. ASSUME NEW pc, Now(a, pc),
               pc \in Trying => act[a].pc \in Trying,
               pc \in Published => act[a].pc \in Published,
               pc \in Verified => act[a].work \in verified',
               pc = "commit" => act[a].pc = "commit"
        PROVE  ActInv'
    BY <1>0, <2>1, <2>2, <2>3, QuietMove DEF Now
  <2>4. CASE Return(a)
    BY <1>0, <2>1, <2>4, GotoIs, QuietMove
  <2>5. CASE UsePatch(a) \/ CleanGit(a)
    BY <1>0, <2>3, <2>5, GotoIs DEF UsePatch, CleanGit, Trying, Published, Verified
  <2>6. CASE Test(a)
    BY <1>0, <2>3, <2>6, GotoIs DEF Test, Trying, Published, Verified
  <2>7. CASE Verify(a)
    BY <1>0, <2>3, <2>7, GotoIs DEF Verify, AfterVerify, Trying, Published, Verified
  <2>8. CASE Reload(a) \/ Archive(a)
    BY <1>0, <2>1, <2>2, <2>3, <2>8, GotoIs
       DEF Reload, Archive, Trying, Published, Verified, ActivatorIsSound
  <2>9. CASE CompleteParent(a) \/ CheckProposal(a)
    BY <1>0, <2>1, <2>2, <2>3, <2>4, <2>9, GotoIs
       DEF CompleteParent, CheckProposal, Trying, Published, Verified,
           ActivatorIsSound
  <2> QED
    BY <1>3, <2>5, <2>6, <2>7, <2>8, <2>9
\* A step of an activator that keeps what was settled.
<1>4. ASSUME NEW a \in Activator, Others(a), UNCHANGED user, verified' = verified,
             \A w \in Work : Settled(w) => Settled(w)',
             \A b \in Activator : b # a /\ ActivatorIsSound(b) => ActivatorIsSound(b)',
             ActivatorIsSound(a)', ClaimsAreTrue',
             act'[a].pc \in Trying =>
               \A b \in Activator : Tries(b, act'[a].work) => b = a
      PROVE  ActInv'
  <2>1. ActivatorsAreSound'
    BY <1>0, <1>4 DEF ActivatorsAreSound
  <2>2. OneTries'
    BY <1>0, <1>4 DEF OneTries, Others, Tries
  <2>3. UsersAreSound'
    BY <1>0, <1>4 DEF UsersAreSound
  <2> QED
    BY <1>0, <1>4, <2>1, <2>2, <2>3 DEF ActInv
<1>5. ASSUME NEW a \in Activator, Apply(a) PROVE ActInv'
  <2>1. PICK w \in Work : w = act[a].work
    BY <1>0, <1>5 DEF Apply, ActivatorsAreSound, ActivatorIsSound
  <2>2. CASE tree' = tree
    <3>1. Now(a, "fail")
      BY <1>0, <1>5, <2>1, <2>2, GotoIs DEF Apply
    <3> QED
      BY <1>0, <1>5, <2>1, <2>2, <3>1, QuietMove DEF Apply, Quiet, Now, Trying, Published
  <2>3. CASE w \notin tree /\ tree' = tree \cup {w}
    <3>1. Now(a, "test") \/ Now(a, "fail")
      BY <1>0, <1>5, <2>3, GotoIs DEF Apply
    <3>2. UNCHANGED <<index, head, status, proposal, verified, user>>
      BY <1>5 DEF Apply
    <3>3. ASSUME NEW v, Settled(v) PROVE Settled(v)'
      <4>1. v # w
        BY <2>3, <3>3 DEF Settled
      <4>2. \A b \in Activator : ~Tries(b, v)'
        BY <2>1, <3>1, <3>3, <4>1 DEF Settled, Tries, Now, Others
      <4> QED
        BY <2>3, <3>2, <3>3, <4>2 DEF Settled
    <3>4. ASSUME NEW b \in Activator, b # a, ActivatorIsSound(b)
          PROVE  ActivatorIsSound(b)'
      BY <2>3, <3>1, <3>2, <3>3, <3>4 DEF ActivatorIsSound, Now, Others
    <3>5. ActivatorIsSound(a)'
      BY <2>1, <2>3, <3>1 DEF ActivatorIsSound, Now, Verified, Published
    <3>6. ClaimsAreTrue'
      BY <1>0, <3>2, <3>3 DEF ClaimsAreTrue
    <3>7. \A b \in Activator : ~Tries(b, w)
      BY <1>0, <2>3 DEF Tries, ActivatorsAreSound, ActivatorIsSound
    <3> QED
      BY <1>4, <2>1, <3>1, <3>2, <3>3, <3>4, <3>5, <3>6, <3>7 DEF Now
  <2>4. tree' = tree \/ (w \notin tree /\ tree' = tree \cup {w})
    BY <1>5, <2>1 DEF Apply
  <2> QED
    BY <2>2, <2>3, <2>4
<1>6. ASSUME NEW a \in Activator, Rollback(a) PROVE ActInv'
  <2>1. PICK w \in Work : w = act[a].work
    BY <1>0, <1>6 DEF Rollback, ActivatorsAreSound, ActivatorIsSound
  <2>2. /\ act'[a].pc \in {"fail", "idle"} /\ Others(a) /\ Tries(a, w)
        /\ act'[a].pc = "fail" => act'[a].work = w
    BY <1>0, <1>6, <2>1, GotoIs DEF Rollback, Tries, Trying, Now
  <2>3. /\ UNCHANGED <<index, head, status, proposal, verified, user>>
        /\ tree \ {w} \subseteq tree'
    BY <1>6, <2>1 DEF Rollback
  <2>4. ASSUME NEW v, Settled(v) PROVE Settled(v)'
    <3>1. v # w
      BY <2>2, <2>4 DEF Settled
    <3>2. \A b \in Activator : ~Tries(b, v)'
      BY <2>2, <2>4 DEF Settled, Tries, Others, Trying
    <3> QED
      BY <2>3, <2>4, <3>1, <3>2 DEF Settled
  <2>5. ASSUME NEW b \in Activator, b # a, ActivatorIsSound(b)
        PROVE  ActivatorIsSound(b)'
    <3>1. act'[b] = act[b]
      BY <2>2, <2>5 DEF Others
    <3>2. act[b].pc \in Trying => act[b].work # w
      BY <1>0, <2>2, <2>5 DEF OneTries, Tries
    <3> QED
      BY <2>3, <2>4, <2>5, <3>1, <3>2 DEF ActivatorIsSound
  <2>6. ActivatorIsSound(a)'
    BY <2>1, <2>2 DEF ActivatorIsSound, Trying, Verified, Published
  <2>7. ClaimsAreTrue'
    BY <1>0, <2>3, <2>4 DEF ClaimsAreTrue
  <2> QED
    BY <1>4, <2>2, <2>3, <2>4, <2>5, <2>6, <2>7 DEF Trying
<1>7. ASSUME NEW a \in Activator, Add(a) \/ Commit(a) \/ Reset(a) PROVE ActInv'
  <2>1. PICK w \in Work : w = act[a].work
    BY <1>0, <1>7 DEF Add, Commit, Reset, ActivatorsAreSound, ActivatorIsSound
  <2>2. Tries(a, w) /\ w \in tree /\ w \in verified
    BY <1>0, <1>7, <2>1 DEF Add, Commit, Reset, ActivatorsAreSound, ActivatorIsSound,
                            Tries, Trying, Verified
  <2>3. UNCHANGED <<tree, status, proposal, verified, user>>
    BY <1>7 DEF Add, Commit, Reset
  <2>4. \A b \in Activator : Tries(b, w) => b = a
    BY <1>0, <2>2 DEF OneTries, Tries
  <2>5. \/ (index' = tree \/ index' = index) /\ head' = head
             /\ ((Now(a, "commit") /\ index' = tree) \/ Now(a, "rollback"))
        \/ index' = index /\ head' = index /\ w \in index /\ Now(a, "reload")
        \/ index' = index /\ head' = head /\ Now(a, "reset")
        \/ index' = head /\ head' = head /\ Now(a, "rollback")
        \/ index' = index /\ head' = index /\ Now(a, "rollback")
             /\ (w \in index \/ index = head)
    <3>1. CASE Add(a)
      BY <1>0, <3>1, GotoIs DEF Add
    <3>2. CASE Commit(a)
      <4>1. w \in index \/ index = head
        BY <1>0, <2>1, <3>2 DEF Commit, ActivatorsAreSound, ActivatorIsSound
      <4> QED
        BY <1>0, <3>2, <4>1, GotoIs DEF Commit
    <3>3. CASE Reset(a)
      BY <1>0, <3>3, GotoIs DEF Reset
    <3> QED
      BY <1>7, <3>1, <3>2, <3>3
  <2>6. Others(a) /\ act'[a].work = w
    BY <2>1, <2>5 DEF Now
  <2>7. ASSUME NEW v, NEW b \in Activator, Tries(b, v)' PROVE Tries(b, v)
    BY <2>2, <2>6, <2>7 DEF Others, Tries
  <2>8. ASSUME NEW v, Settled(v) PROVE Settled(v)'
    BY <2>3, <2>5, <2>7, <2>8 DEF Settled
  <2>9. ASSUME NEW b \in Activator, b # a, ActivatorIsSound(b)
        PROVE  ActivatorIsSound(b)'
    <3>1. act'[b] = act[b]
      BY <2>6, <2>9 DEF Others
    <3>2. act'[b].pc = "commit" => act'[b].work \in index' \/ index' = head'
      BY <2>5, <2>9, <3>1 DEF ActivatorIsSound, Trying
    <3> QED
      BY <2>3, <2>8, <2>9, <3>1, <3>2 DEF ActivatorIsSound
  <2>10. ActivatorIsSound(a)'
    <3>1. act'[a].pc \in Published => Settled(w)'
      <4>1. CASE act'[a].pc \in Published
        <5>1. index' = index /\ head' = index /\ w \in index /\ Now(a, "reload")
          BY <2>5, <4>1 DEF Now, Published
        <5>2. \A b \in Activator : ~Tries(b, w)'
          BY <2>4, <2>7, <5>1 DEF Now, Tries, Trying
        <5> QED
          BY <2>2, <2>3, <5>1, <5>2 DEF Settled
      <4> QED
        BY <4>1
    <3>2. Settled(act[a].work)' <=> Settled(w)'
      BY <2>6
    <3>3. act'[a].pc = "commit" => w \in index'
      BY <2>2, <2>5 DEF Now
    <3> QED
      BY <2>2, <2>3, <2>6, <3>1, <3>2, <3>3 DEF ActivatorIsSound
  <2>11. ClaimsAreTrue'
    BY <1>0, <2>3, <2>8 DEF ClaimsAreTrue
  <2> QED
    BY <1>4, <2>3, <2>4, <2>6, <2>8, <2>9, <2>10, <2>11
<1>8. ASSUME NEW a \in Activator, Record(a) \/ WriteParent(a) \/ WriteProposal(a)
      PROVE  ActInv'
  <2>1. PICK w \in Work : w = act[a].work
    BY <1>0, <1>8 DEF Record, WriteParent, WriteProposal, ActivatorsAreSound,
                      ActivatorIsSound
  <2>2. Settled(w) /\ w \in verified
    BY <1>0, <1>8, <2>1 DEF Record, WriteParent, WriteProposal, ActivatorsAreSound,
                            ActivatorIsSound, Published, Verified
  <2>3. UNCHANGED <<tree, index, head, verified, user>>
    BY <1>8 DEF Record, WriteParent, WriteProposal
  <2>4. \/ act'[a].pc = "idle" /\ Others(a)
        \/ Now(a, "parent") \/ Now(a, "proposal")
    BY <1>0, <1>8, GotoIs DEF Record, WriteParent, WriteProposal, Leave, AfterRecord
  <2>5. Others(a)
    BY <2>4 DEF Now
  <2>6. ASSUME NEW v, NEW b \in Activator, Tries(b, v)' PROVE Tries(b, v)
    BY <2>4, <2>5, <2>6 DEF Others, Tries, Now, Trying
  <2>7. ASSUME NEW v, Settled(v) PROVE Settled(v)'
    BY <2>3, <2>6, <2>7 DEF Settled
  <2>8. ASSUME NEW b \in Activator, b # a, ActivatorIsSound(b)
        PROVE  ActivatorIsSound(b)'
    BY <2>3, <2>5, <2>7, <2>8 DEF Others, ActivatorIsSound
  <2>9. ActivatorIsSound(a)'
    BY <2>1, <2>2, <2>3, <2>4, <2>7 DEF ActivatorIsSound, Now, Trying, Verified,
                                        Published
  <2>10. /\ \A v \in Work : status'[v] = status[v] \/ v = w
         /\ \A v \in Proposed : proposal'[v] = proposal[v] \/ v = w
    BY <1>0, <1>8, <2>1 DEF Record, WriteParent, WriteProposal, TypeOK
  <2>11. ClaimsAreTrue'
    BY <1>0, <2>2, <2>3, <2>7, <2>10, ActivationAssumption DEF ClaimsAreTrue
  <2>12. act'[a].pc \notin Trying
    BY <2>4 DEF Now, Trying
  <2> QED
    BY <1>4, <2>3, <2>5, <2>7, <2>8, <2>9, <2>11, <2>12
<1>9. ASSUME NEW a \in Activator, Fail(a) PROVE ActInv'
  <2>1. act'[a].pc = "idle" /\ Others(a)
    BY <1>0, <1>9, GotoIs DEF Fail
  <2>2. UNCHANGED <<tree, index, head, proposal, verified, user>>
    BY <1>9 DEF Fail
  <2>3. ASSUME NEW v, NEW b \in Activator, Tries(b, v)' PROVE Tries(b, v)
    BY <2>1, <2>3 DEF Others, Tries, Trying
  <2>4. ASSUME NEW v, Settled(v) PROVE Settled(v)'
    BY <2>2, <2>3, <2>4 DEF Settled
  <2>5. ASSUME NEW b \in Activator, b # a, ActivatorIsSound(b)
        PROVE  ActivatorIsSound(b)'
    BY <2>1, <2>2, <2>4, <2>5 DEF Others, ActivatorIsSound
  <2>6. ActivatorIsSound(a)' /\ act'[a].pc \notin Trying
    BY <2>1 DEF ActivatorIsSound, Trying, Verified, Published
  <2>7. \A v \in Work : status'[v] = "completed" => status[v] = "completed"
    BY <1>0, <1>9 DEF Fail, TypeOK
  <2>8. ClaimsAreTrue'
    BY <1>0, <2>2, <2>4, <2>7 DEF ClaimsAreTrue
  <2> QED
    BY <1>4, <2>1, <2>2, <2>4, <2>5, <2>6, <2>8
<1>10. ASSUME act' = act, UNCHANGED <<proposal, tree, index, head>>,
              verified' = verified, UsersAreSound',
              \A w \in Work : status'[w] = "completed" => status[w] = "completed"
       PROVE  ActInv'
  <2>1. \A v : Settled(v) => Settled(v)'
    BY <1>10 DEF Settled, Tries
  <2>2. ActivatorsAreSound'
    BY <1>0, <1>10, <2>1 DEF ActivatorsAreSound, ActivatorIsSound
  <2>3. OneTries' /\ ClaimsAreTrue'
    BY <1>0, <1>10, <2>1 DEF OneTries, ClaimsAreTrue
  <2> QED
    BY <1>0, <1>10, <2>2, <2>3 DEF ActInv
<1>11. ASSUME NEW u \in User, NEW w \in UserWork, NEW goal \in UserGoals,
              UserCheck(u, w, goal)
       PROVE  ActInv'
  <2>1. UsersAreSound'
    BY <1>0, <1>11, ActivationAssumption DEF UserCheck, UsersAreSound, TypeOK
  <2> QED
    BY <1>10, <1>11, <2>1 DEF UserCheck
<1>12. ASSUME NEW u \in User, UserWrite(u) PROVE ActInv'
  <2>1. UsersAreSound' /\ user[u].goal # "completed"
    BY <1>0, <1>12 DEF UserWrite, UsersAreSound, TypeOK
  <2>2. \A w \in Work : status'[w] = "completed" => status[w] = "completed"
    BY <1>0, <1>12, <2>1 DEF UserWrite, TypeOK
  <2> QED
    BY <1>10, <1>12, <2>1, <2>2 DEF UserWrite
<1>13. CASE UNCHANGED vars
  BY <1>0, <1>10, <1>13 DEF vars, UsersAreSound
<1> QED
  BY <1>1, <1>2, <1>3, <1>5, <1>6, <1>7, <1>8, <1>9, <1>11, <1>12, <1>13
     DEF Next, Step

-----------------------------------------------------------------------------
\* With a commit after every apply, and nobody but activations saying completed,
\* an active proposal and a completed item are live, whatever fails, whoever dies
\* and however many activations overlap (harness/activation.py).
THEOREM LedgerAlwaysTrue ==
  ASSUME CommitAfterApply, "completed" \notin UserGoals
  PROVE  Spec => []LedgerIsTrue
<1>1. ActInv /\ [Next]_vars => ActInv'
  BY NextActivation
<1>2. ActInv => LedgerIsTrue
  BY DEF ActInv, ClaimsAreTrue, Settled, LedgerIsTrue, ActiveIsLive, CompletedIsLive
<1> QED
  BY <1>1, <1>2, InitActivation, PTL DEF Spec

-----------------------------------------------------------------------------
(* One activation at a time.                                               *)

Alone == \A a, b \in UnderWay : a = b

Moves(a) ==
    \/ Step(a) \/ Raise(a) \/ Crash(a)
    \/ \E w \in Work : Start(a, w)

\* Who moves is the only one that moves.
LEMMA MoverIsAlone ==
  ASSUME act \in [Activator -> ActivatorState], NEW a \in Activator, Moves(a)
  PROVE  /\ Others(a) /\ act' \in [Activator -> ActivatorState]
         /\ a \in UnderWay \/ a \in UnderWay'
<1> USE DEF At
<1>1. ASSUME NEW w \in Work, Start(a, w)
      PROVE  Others(a) /\ act' \in [Activator -> ActivatorState] /\ a \in UnderWay'
  <2>1. act' = [act EXCEPT ![a] = [pc |-> "patch", work |-> w]]
    BY <1>1 DEF Start
  <2>2. [pc |-> "patch", work |-> w] \in ActivatorState
    BY DEF ActivatorState, PC
  <2> QED
    BY <2>1, <2>2 DEF Others, UnderWay
<1>2. CASE CleanGit(a) \/ Apply(a) \/ Test(a) \/ Rollback(a) \/ Verify(a)
  BY <1>2, ActMoves
     DEF CleanGit, Apply, Test, Rollback, Verify, AfterVerify, Now, PC, UnderWay
<1>3. CASE UsePatch(a) \/ Add(a) \/ Commit(a) \/ Reset(a) \/ Reload(a) \/ Archive(a)
  BY <1>3, ActMoves
     DEF UsePatch, Add, Commit, Reset, Reload, Archive, Now, PC, UnderWay
<1>4. CASE Record(a) \/ CompleteParent(a) \/ WriteParent(a)
  BY <1>4, ActMoves
     DEF Record, Leave, AfterRecord, CompleteParent, WriteParent, Now, PC, UnderWay
<1>5. CASE CheckProposal(a) \/ WriteProposal(a) \/ Fail(a) \/ Raise(a)
             \/ Crash(a)
  BY <1>5, ActMoves
     DEF CheckProposal, WriteProposal, Fail, Raise, Crash, Now, PC, UnderWay
<1> QED
  BY <1>1, <1>2, <1>3, <1>4, <1>5 DEF Moves, Step

\* Where there is one activation there was at most one, and it is the mover's.
LEMMA OneMover ==
  ASSUME act \in [Activator -> ActivatorState], IsFiniteSet(UnderWay),
         NEW a \in Activator, Moves(a), HistoryNext
  PROVE  /\ IsFiniteSet(UnderWay')
         /\ ~overlapped' => ~overlapped /\ Alone'
         /\ ~overlapped' /\ Alone =>
              \A b \in Activator \ {a} : At(b, "idle") /\ act'[b] = act[b]
<1>1. Others(a) /\ (a \in UnderWay \/ a \in UnderWay')
  BY MoverIsAlone
<1>2. UnderWay' \subseteq UnderWay \cup {a}
  BY <1>1 DEF UnderWay, Others, At
<1>3. IsFiniteSet(UnderWay \cup {a})
  BY FS_AddElement
<1>4. IsFiniteSet(UnderWay')
  BY <1>2, <1>3, FS_Subset
<1>5. ASSUME ~overlapped' PROVE ~overlapped /\ Alone'
  <2>1. ~overlapped /\ ~(Cardinality(UnderWay') > 1)
    BY <1>5 DEF HistoryNext
  <2>2. ASSUME NEW b \in UnderWay', NEW c \in UnderWay', b # c PROVE FALSE
    <3>1. IsFiniteSet({b}) /\ Cardinality({b}) = 1
      BY FS_Singleton
    <3>2. Cardinality({b} \cup {c}) = 2
      <4>1. c \notin {b}
        BY <2>2
      <4>2. Cardinality({b} \cup {c}) = Cardinality({b}) + 1
        BY <3>1, <4>1, FS_AddElement, ZenonT(30)
      <4> QED
        BY <3>1, <4>2
    <3>3. {b} \cup {c} \subseteq UnderWay'
      BY <2>2
    <3>4. Cardinality({b} \cup {c}) =< Cardinality(UnderWay')
      BY <1>4, <3>3, FS_Subset
    <3>5. Cardinality(UnderWay') \in Nat
      BY <1>4, FS_CardinalityType
    <3> QED
      BY <2>1, <3>2, <3>4, <3>5
  <2> QED
    BY <2>1, <2>2 DEF Alone
<1>6. ASSUME ~overlapped', Alone, NEW b \in Activator \ {a}
      PROVE  At(b, "idle") /\ act'[b] = act[b]
  BY <1>1, <1>5, <1>6 DEF Alone, Others, UnderWay, At
<1> QED
  BY <1>4, <1>5, <1>6

\* Only what the tests passed on is staged and committed.
SerialInv ==
    /\ act \in [Activator -> ActivatorState]
    /\ IsFiniteSet(UnderWay)
    /\ ~overlapped =>
         /\ Alone
         /\ LiveWasTested
         /\ \A a \in Activator : At(a, "verify") \/ At(a, "add") => tree \in tested
         /\ \A a \in Activator : At(a, "commit") => index \in tested

\* A user's step leaves the repository and the activations alone.
UserMoves ==
    \E u \in User :
        UserWrite(u) \/ \E w \in UserWork, goal \in UserGoals : UserCheck(u, w, goal)

LEMMA InitSerial == HistoryInit => SerialInv
<1> SUFFICES ASSUME HistoryInit PROVE SerialInv
  OBVIOUS
<1>1. Idle \in ActivatorState
  BY DEF Idle, ActivatorState, PC
<1>2. act \in [Activator -> ActivatorState] /\ UnderWay = {}
  BY <1>1 DEF HistoryInit, Init, UnderWay, At, Idle
<1>3. IsFiniteSet(UnderWay)
  BY <1>2, FS_EmptySet
<1>4. \A a \in Activator : act[a].pc = "idle"
  BY DEF HistoryInit, Init, Idle
<1> QED
  BY <1>2, <1>3, <1>4 DEF HistoryInit, Init, SerialInv, Alone, LiveWasTested, At

LEMMA NextSerial == SerialInv /\ [HistoryNext]_<<vars, history>> => SerialInv'
<1> SUFFICES ASSUME SerialInv, [HistoryNext]_<<vars, history>> PROVE SerialInv'
  OBVIOUS
<1>0. act \in [Activator -> ActivatorState] /\ IsFiniteSet(UnderWay)
  BY DEF SerialInv
<1>1. ASSUME NEW a \in Activator, Moves(a), HistoryNext PROVE SerialInv'
  <2>1. Others(a) /\ act' \in [Activator -> ActivatorState]
    BY <1>0, <1>1, MoverIsAlone
  <2>2. IsFiniteSet(UnderWay') /\ (~overlapped' => ~overlapped /\ Alone')
    BY <1>0, <1>1, OneMover
  <2> SUFFICES ASSUME ~overlapped'
               PROVE  /\ LiveWasTested'
                      /\ \A b \in Activator :
                           (At(b, "verify") \/ At(b, "add") => tree \in tested)'
                      /\ \A b \in Activator : (At(b, "commit") => index \in tested)'
    BY <2>1, <2>2 DEF SerialInv
  <2>3. Alone /\ LiveWasTested
        /\ (At(a, "verify") \/ At(a, "add") => tree \in tested)
        /\ (At(a, "commit") => index \in tested)
    BY <2>2 DEF SerialInv
  <2>4. \A b \in Activator \ {a} : act'[b].pc = "idle"
    BY <1>0, <1>1, <2>3, OneMover DEF At
  <2>5. SUFFICES /\ LiveWasTested'
                 /\ act'[a].pc \in {"verify", "add"} => tree' \in tested'
                 /\ act'[a].pc = "commit" => index' \in tested'
    BY <2>4 DEF At
  <2> USE DEF At, LiveWasTested, repo
  <2>6. ASSUME NEW w \in Work, Start(a, w) PROVE act'[a].pc = "patch"
    BY <1>0, <2>6 DEF Start
  <2>7. CASE \E w \in Work : Start(a, w)
    BY <2>3, <2>6, <2>7 DEF Start
  <2>8. CASE UsePatch(a) \/ CleanGit(a) \/ Apply(a) \/ Rollback(a)
    BY <1>0, <2>3, <2>8, ActMoves DEF UsePatch, CleanGit, Apply, Rollback, Now
  <2>9. CASE Test(a) \/ Verify(a)
    BY <1>0, <2>3, <2>9, ActMoves DEF Test, Verify, AfterVerify, Now
  <2>10. CASE Add(a) \/ Commit(a) \/ Reset(a) \/ Reload(a) \/ Archive(a)
    BY <1>0, <2>3, <2>10, ActMoves DEF Add, Commit, Reset, Reload, Archive, Now
  <2>11. CASE Record(a) \/ CompleteParent(a) \/ WriteParent(a)
    BY <1>0, <2>3, <2>11, ActMoves
       DEF Record, Leave, AfterRecord, CompleteParent, WriteParent, Now
  <2>12. CASE CheckProposal(a) \/ WriteProposal(a) \/ Fail(a) \/ Raise(a)
              \/ Crash(a)
    BY <1>0, <2>3, <2>12, ActMoves
       DEF CheckProposal, WriteProposal, Fail, Raise, Crash, Now
  <2> QED
    BY <1>1, <2>7, <2>8, <2>9, <2>10, <2>11, <2>12 DEF Moves, Step
<1>2. ASSUME UNCHANGED <<act, repo, tested>>, overlapped => overlapped'
      PROVE  SerialInv'
  <2>1. UnderWay' = UnderWay
    BY <1>2 DEF UnderWay, At
  <2> QED
    BY <1>2, <2>1 DEF SerialInv, Alone, LiveWasTested, At, repo
<1>3. CASE UserMoves /\ HistoryNext
  BY <1>2, <1>3 DEF UserMoves, UserWrite, UserCheck, HistoryNext
<1>4. CASE UNCHANGED <<vars, history>>
  BY <1>2, <1>4 DEF vars, history
<1> QED
  BY <1>1, <1>3, <1>4 DEF HistoryNext, Next, Moves, UserMoves

\* As long as activations do not run side by side, what HEAD holds is, as a
\* whole, something the test command has passed on, whatever fails, whoever dies
\* and whatever the configuration says (harness/activation.py).
THEOREM SerialLiveWasTested == HistorySpec => []LiveWasTestedWhenSerial
<1>1. SerialInv => LiveWasTestedWhenSerial
  BY DEF SerialInv, LiveWasTestedWhenSerial
<1> QED
  BY <1>1, InitSerial, NextSerial, PTL DEF HistorySpec

-----------------------------------------------------------------------------
(* What is live is completed.                                              *)

\* No user in between, and nothing that ends an activation after its commit.
Undisturbed ==
    ~(overlapped \/ changed
        \/ Happened({"fails_after_commit", "raises_after_commit", "crash"}))

Tried == {"test", "verify", "add", "commit"}
Before == {"patch", "clean", "apply", "rollback", "reset", "fail"} \cup Tried
After == {"reload", "archive", "record"}

\* Whose patch is not live: a commit would make it live and nothing else.
Pending(a) ==
    LET w == act[a].work IN
    /\ w \in Work \ head
    /\ status[w] = "waiting_approval"
    /\ At(a, "apply") => tree = head
    /\ act[a].pc \in Tried => tree = head \cup {w}
    /\ At(a, "commit") => index = tree

\* Whose patch is live: the item is completed by Record.
Live(a) ==
    LET w == act[a].work IN
    /\ w \in Work \cap head
    /\ status[w] = IF act[a].pc \in After THEN "waiting_approval" ELSE "completed"

\* The repository goes from one commit to the next, and a patch in HEAD has its
\* item completed or is in the hands of who completes it.
CompletedInv ==
    Undisturbed =>
        /\ status \in [Work -> WorkStatus] /\ head \subseteq Work
        /\ user = [u \in User |-> NoChange]
        /\ \A a \in Activator :
             /\ act[a].pc \in Before => Pending(a)
             /\ act[a].pc \in Published => Live(a)
        /\ \A w \in head :
             \/ status[w] = "completed"
             \/ \E a \in Activator : act[a].work = w /\ act[a].pc \in After

LEMMA InitCompleted == HistoryInit => CompletedInv
<1> SUFFICES ASSUME HistoryInit PROVE CompletedInv
  OBVIOUS
<1>1. \A a \in Activator : act[a].pc = "idle"
  BY DEF HistoryInit, Init, Idle
<1> QED
  BY <1>1 DEF HistoryInit, Init, CompletedInv, Before, Tried, Published, WorkStatus

\* A step of the only activation keeps it.
LEMMA MoverCompleted ==
  ASSUME RequireCleanGit, CommitAfterApply, SerialInv, CompletedInv, HistoryNext,
         NEW a \in Activator, Moves(a)
  PROVE  CompletedInv'
<1> SUFFICES ASSUME Undisturbed'
             PROVE  /\ (status \in [Work -> WorkStatus] /\ head \subseteq Work)'
                    /\ (user = [u \in User |-> NoChange])'
                    /\ \A b \in Activator :
                         /\ (act[b].pc \in Before => Pending(b))'
                         /\ (act[b].pc \in Published => Live(b))'
                    /\ \A w \in head' :
                         \/ status'[w] = "completed"
                         \/ \E b \in Activator : act'[b].work = w /\ act'[b].pc \in After
  BY DEF CompletedInv
<1>1. Undisturbed
  <2>1. faults \subseteq faults'
    BY DEF Moves, Step, Start, UsePatch, CleanGit, Apply, Test, Raise, Rollback, Verify,
           Add, Commit, Reset, Reload, Archive, Record, CompleteParent, WriteParent,
           CheckProposal, WriteProposal, Fail, Crash, Fault
  <2> QED
    BY <2>1 DEF Undisturbed, HistoryNext, Happened
<1>2. /\ ~overlapped'
      /\ faults' \cap {"fails_after_commit", "raises_after_commit", "crash"} = {}
  BY DEF Undisturbed, Happened
<1>3. /\ act \in [Activator -> ActivatorState] /\ IsFiniteSet(UnderWay)
      /\ act' \in [Activator -> ActivatorState]
  BY MoverIsAlone DEF SerialInv
<1>4. ~overlapped /\ Alone
  BY <1>2, <1>3, OneMover DEF SerialInv
<1>5. \A b \in Activator \ {a} : act[b].pc = "idle" /\ act'[b].pc = "idle"
  BY <1>2, <1>3, <1>4, OneMover DEF At
<1>6. /\ status \in [Work -> WorkStatus] /\ head \subseteq Work
      /\ user = [u \in User |-> NoChange]
      /\ act[a].pc \in Before => Pending(a)
      /\ act[a].pc \in Published => Live(a)
      /\ \A w \in head : \/ status[w] = "completed"
                         \/ act[a].work = w /\ act[a].pc \in After
  BY <1>1, <1>5 DEF CompletedInv, After
<1>7. user' = user
  BY DEF Moves, Step, Start, UsePatch, CleanGit, Apply, Test, Raise, Rollback, Verify,
         Add, Commit, Reset, Reload, Archive, Record, CompleteParent, WriteParent,
         CheckProposal, WriteProposal, Fail, Crash
<1> DEFINE Kept == /\ (status \in [Work -> WorkStatus] /\ head \subseteq Work)'
                   /\ act'[a].pc \in Before => Pending(a)'
                   /\ act'[a].pc \in Published => Live(a)'
                   /\ \A w \in head' : \/ status'[w] = "completed"
                                       \/ act'[a].work = w /\ act'[a].pc \in After
<1>8. SUFFICES Kept
  BY <1>5, <1>6, <1>7 DEF Before, Tried, Published
<1> USE DEF At, repo, ledger, Pending, Live, Before, Tried, After, Published
<1>9. CASE \E w \in Work : Start(a, w)
  <2>1. PICK w \in Work : Start(a, w)
    BY <1>9
  <2>2. status[w] = "waiting_approval" /\ UNCHANGED <<status, tree, index, head>>
    BY <2>1 DEF Start
  <2>3. act'[a].pc = "patch" /\ act'[a].work = w /\ act[a].pc = "idle"
    BY <1>3, <2>1 DEF Start
  <2> QED
    BY <1>6, <2>2, <2>3
\* It goes on or gives up, with HEAD as it was.
<1>10. ASSUME UNCHANGED <<status, head>>, act[a].pc \in Before,
              \/ act'[a].pc = "idle"
              \/ /\ act'[a].work = act[a].work
                 /\ \/ act'[a].pc \in {"fail", "clean", "rollback", "reset"}
                    \/ /\ act'[a].pc = "apply"
                       /\ tree' = head
                    \/ /\ act'[a].pc \in Tried
                       /\ tree' = head \cup {act[a].work}
                       /\ act'[a].pc = "commit" => index' = tree'
       PROVE  Kept
  BY <1>6, <1>10
<1>11. CASE UsePatch(a)
  BY <1>3, <1>10, <1>11, ActMoves DEF UsePatch, Now
<1>12. CASE CleanGit(a)
  BY <1>3, <1>10, <1>12, ActMoves DEF CleanGit, Dirty, Now
<1>13. CASE Apply(a)
  <2>1. /\ UNCHANGED <<status, head>> /\ act[a].pc = "apply"
        /\ \/ Now(a, "test") /\ tree' = tree \cup {act[a].work}
           \/ Now(a, "fail")
    BY <1>3, <1>13, ActMoves DEF Apply
  <2> QED
    BY <1>6, <1>10, <2>1 DEF Now
<1>14. CASE Test(a)
  BY <1>3, <1>6, <1>10, <1>14, ActMoves DEF Test, Now
<1>15. CASE Verify(a)
  BY <1>3, <1>6, <1>10, <1>15, ActMoves DEF Verify, AfterVerify, Now
<1>16. CASE Rollback(a)
  <2>1. /\ UNCHANGED <<status, head>> /\ act[a].pc = "rollback"
        /\ act'[a].pc = "idle" \/ Now(a, "fail")
    BY <1>3, <1>16, ActMoves DEF Rollback
  <2> QED
    BY <1>10, <2>1 DEF Now
<1>17. CASE Add(a)
  <2>1. /\ UNCHANGED <<status, tree, head>> /\ act[a].pc = "add"
        /\ \/ Now(a, "commit") /\ index' = tree
           \/ Now(a, "rollback")
    BY <1>3, <1>17, ActMoves DEF Add
  <2> QED
    BY <1>6, <1>10, <2>1 DEF Now
<1>18. CASE Commit(a)
  <2>1. /\ UNCHANGED <<status, tree, index>> /\ act[a].pc = "commit"
        /\ \/ Now(a, "reload") /\ head' = index
           \/ Now(a, "reset") /\ head' = head
    BY <1>2, <1>3, <1>18, ActMoves DEF Commit, Fault
  <2>2. CASE Now(a, "reload") /\ head' = index
    BY <1>6, <2>1, <2>2 DEF Now
  <2>3. CASE Now(a, "reset") /\ head' = head
    BY <1>6, <2>1, <2>3 DEF Now
  <2> QED
    BY <2>1, <2>2, <2>3
<1>19. CASE Reset(a)
  <2>1. /\ UNCHANGED <<status, head>> /\ act[a].pc = "reset" /\ Now(a, "rollback")
    BY <1>3, <1>19, ActMoves DEF Reset
  <2> QED
    BY <1>10, <2>1 DEF Now
<1>20. CASE Reload(a) \/ Archive(a)
  <2>1. /\ UNCHANGED <<status, head>>
        /\ act[a].pc \in {"reload", "archive"}
        /\ Now(a, "archive") \/ Now(a, "record")
    BY <1>2, <1>3, <1>20, ActMoves DEF Reload, Archive, Fault
  <2> QED
    BY <1>6, <2>1 DEF Now
<1>21. CASE Record(a)
  <2>1. /\ UNCHANGED head /\ act[a].pc = "record"
        /\ \/ act'[a].pc = "idle"
           \/ Now(a, "parent") \/ Now(a, "proposal")
    BY <1>3, <1>21, ActMoves DEF Record, Leave, AfterRecord
  <2>2. PICK w \in Work : w = act[a].work
    BY <1>6, <2>1
  <2>3. "completed" \in WorkNext(status[w])
    BY <1>6, <2>1, <2>2 DEF WorkNext
  <2>4. status' = [status EXCEPT ![w] = "completed"]
    BY <1>21, <2>2, <2>3 DEF Record
  <2> QED
    BY <1>6, <2>1, <2>2, <2>4 DEF Now, WorkStatus
<1>22. CASE CompleteParent(a) \/ WriteParent(a) \/ CheckProposal(a) \/ WriteProposal(a)
  <2>1. /\ UNCHANGED <<status, head>>
        /\ act[a].pc \in {"parent", "parent_write", "proposal", "proposal_write"}
        /\ \/ act'[a].pc = "idle"
           \/ Now(a, "parent_write") \/ Now(a, "proposal_write")
    BY <1>3, <1>22, ActMoves DEF CompleteParent, WriteParent, CheckProposal, WriteProposal
  <2> QED
    BY <1>6, <2>1 DEF Now
<1>23. CASE Fail(a)
  <2>1. UNCHANGED head /\ act[a].pc = "fail" /\ act'[a].pc = "idle"
    BY <1>3, <1>23, ActMoves DEF Fail
  <2>2. PICK w \in Work : w = act[a].work
    BY <1>6, <2>1
  <2>3. \A v \in Work \ {w} : status'[v] = status[v]
    BY <1>6, <1>23, <2>2 DEF Fail
  <2>4. status' \in [Work -> WorkStatus]
    BY <1>6, <1>23, <2>2 DEF Fail, WorkStatus
  <2> QED
    BY <1>6, <2>1, <2>2, <2>3, <2>4
<1>24. CASE Raise(a)
  <2>1. /\ UNCHANGED <<status, head>> /\ act'[a].pc = "idle"
        /\ act[a].pc \in {"patch", "clean", "test", "verify"}
    BY <1>2, <1>3, <1>24, ActMoves DEF Raise, Fault
  <2> QED
    BY <1>10, <2>1
<1>25. ~Crash(a)
  BY <1>2 DEF Crash, Fault
<1> QED
  BY <1>9, <1>11, <1>12, <1>13, <1>14, <1>15, <1>16, <1>17, <1>18, <1>19, <1>20,
     <1>21, <1>22, <1>23, <1>24, <1>25 DEF Moves, Step

LEMMA NextCompleted ==
  ASSUME RequireCleanGit, CommitAfterApply
  PROVE  SerialInv /\ CompletedInv /\ [HistoryNext]_<<vars, history>> => CompletedInv'
<1> SUFFICES ASSUME SerialInv, CompletedInv, [HistoryNext]_<<vars, history>>
             PROVE  CompletedInv'
  OBVIOUS
<1>1. ASSUME NEW a \in Activator, Moves(a), HistoryNext PROVE CompletedInv'
  BY <1>1, MoverCompleted
<1>2. CASE UserMoves /\ HistoryNext
  <2> SUFFICES ASSUME Undisturbed' PROVE FALSE
    BY DEF CompletedInv
  <2>1. faults' = faults /\ user' # user => changed'
    BY <1>2 DEF HistoryNext, UserMoves, UserWrite, UserCheck
  <2>2. Undisturbed /\ user' = user
    BY <1>2, <2>1 DEF UserMoves, UserWrite, UserCheck, HistoryNext, Undisturbed, Happened
  <2>3. user = [u \in User |-> NoChange]
    BY <2>2 DEF CompletedInv
  <2>4. PICK u \in User, w \in UserWork, goal \in UserGoals : UserCheck(u, w, goal)
    BY <1>2, <2>3 DEF UserMoves, UserWrite
  <2> QED
    BY <2>2, <2>3, <2>4, ActivationAssumption DEF UserCheck, NoChange
<1>3. CASE UNCHANGED <<vars, history>>
  <2>1. /\ UnderWay' = UnderWay /\ (Undisturbed' <=> Undisturbed)
        /\ \A a : (Pending(a)' <=> Pending(a)) /\ (Live(a)' <=> Live(a))
    BY <1>3 DEF vars, ledger, repo, history, UnderWay, At, Undisturbed, Happened, Pending,
                Live
  <2> QED
    BY <1>3, <2>1 DEF vars, ledger, repo, CompletedInv
<1> QED
  BY <1>1, <1>2, <1>3 DEF HistoryNext, Next, Moves, UserMoves

\* With a clean tree asked for and a commit after every apply, a patch that went
\* live has its item completed when the activation is over, unless activations
\* overlapped, a user changed a status, or the activation was cut short after its
\* commit (activate_work_item).
THEOREM LiveIsCompletedAlways ==
  ASSUME RequireCleanGit, CommitAfterApply
  PROVE  HistorySpec => []LiveIsCompletedUnlessCut
<1>1. CompletedInv => LiveIsCompletedUnlessCut
  <2> SUFFICES ASSUME CompletedInv, Undisturbed, NEW w \in head, InHandOf(w) = {}
               PROVE  status[w] = "completed"
    BY DEF Undisturbed, LiveIsCompletedUnlessCut, LiveIsCompleted
  <2> QED
    BY DEF CompletedInv, InHandOf
<1>2. HistoryInit => SerialInv /\ CompletedInv
  BY InitSerial, InitCompleted
<1>3. SerialInv /\ CompletedInv /\ [HistoryNext]_<<vars, history>>
        => (SerialInv /\ CompletedInv)'
  BY NextSerial, NextCompleted
<1> QED
  BY <1>1, <1>2, <1>3, PTL DEF HistorySpec

-----------------------------------------------------------------------------
(* What is over is decided.                                                *)

\* Who has recorded its item has decided it, and users do not undo that.
DecidedInv ==
    /\ act \in [Activator -> ActivatorState]
    /\ status \in [Work -> WorkStatus]
    /\ user \in [User -> UserState]
    /\ \A a \in Activator :
         /\ ~At(a, "idle") => act[a].work \in Work
         /\ act[a].pc \in {"parent", "parent_write", "proposal", "proposal_write"}
              => status[act[a].work] # "waiting_approval"
    /\ \A u \in User :
         user[u] # NoChange => user[u].goal \in WorkStatus \ {"waiting_approval"}

LEMMA InitDecided == HistoryInit => DecidedInv
<1> SUFFICES ASSUME HistoryInit PROVE DecidedInv
  OBVIOUS
<1>1. Idle \in ActivatorState /\ NoChange \in UserState /\ Idle.pc = "idle"
  BY DEF Idle, NoChange, ActivatorState, UserState, PC
<1> QED
  BY <1>1 DEF HistoryInit, Init, DecidedInv, WorkStatus, At

\* No step makes an item wait for an approval, and who leaves has decided.
LEMMA MoverDecided ==
  ASSUME DecidedInv, NEW a \in Activator, Moves(a)
  PROVE  /\ status' \in [Work -> WorkStatus]
         /\ \A w \in Work :
              status'[w] = "waiting_approval" => status[w] = "waiting_approval"
         /\ act'[a].pc \in {"parent", "parent_write", "proposal", "proposal_write"}
              => status'[act'[a].work] # "waiting_approval"
         /\ ~At(a, "idle") /\ At(a, "idle")' =>
              \/ status'[act[a].work] # "waiting_approval"
              \/ Happened(Escapes)'
         /\ act'[a].pc # "idle" => act'[a].work \in Work
<1> USE DEF At, ledger
<1> DEFINE Late == {"parent", "parent_write", "proposal", "proposal_write"}
           Cut == Happened(Escapes)'
<1>1. /\ act \in [Activator -> ActivatorState] /\ status \in [Work -> WorkStatus]
      /\ act[a].pc # "idle" => act[a].work \in Work
      /\ act[a].pc \in Late => status[act[a].work] # "waiting_approval"
  BY DEF DecidedInv
<1>2. CASE status' = status
  <2>1. CASE \E w \in Work : Start(a, w)
    <3>1. PICK w \in Work : Start(a, w)
      BY <2>1
    <3>2. act'[a].pc = "patch" /\ act'[a].work = w
      BY <1>1, <3>1 DEF Start
    <3> QED
      BY <1>1, <1>2, <3>2
  <2>2. ASSUME act[a].pc # "idle", act'[a].work = act[a].work,
               act'[a].pc \notin Late \cup {"idle"} \/ act[a].pc \in Late
        PROVE  /\ act'[a].pc \in Late => status'[act'[a].work] # "waiting_approval"
               /\ act'[a].pc = "idle" => status'[act[a].work] # "waiting_approval"
               /\ act'[a].pc # "idle" => act'[a].work \in Work
    BY <1>1, <1>2, <2>2
  <2>3. CASE UsePatch(a) \/ CleanGit(a) \/ Apply(a) \/ Test(a) \/ Verify(a)
    BY <1>1, <1>2, <2>2, <2>3, ActMoves
       DEF UsePatch, CleanGit, Apply, Test, Verify, AfterVerify, Now
  <2>4. CASE Add(a) \/ Commit(a) \/ Reset(a)
    BY <1>1, <1>2, <2>2, <2>4, ActMoves DEF Add, Commit, Reset, Now
  <2>5. CASE Reload(a) \/ Archive(a) \/ Rollback(a)
    <3>1. \/ Now(a, "archive") \/ Now(a, "record") \/ Now(a, "fail")
          \/ act'[a].pc = "idle" /\ "raises" \in faults'
      BY <1>1, <2>5, ActMoves DEF Reload, Archive, Rollback, Fault
    <3> QED
      BY <1>1, <1>2, <2>2, <2>5, <3>1
         DEF Reload, Archive, Rollback, Now, Happened, Escapes
  <2>6. CASE CompleteParent(a) \/ WriteParent(a) \/ CheckProposal(a) \/ WriteProposal(a)
    <3>1. /\ act[a].pc \in Late
          /\ act'[a].pc = "idle" \/ Now(a, "parent_write") \/ Now(a, "proposal_write")
      BY <1>1, <2>6, ActMoves
         DEF CompleteParent, WriteParent, CheckProposal, WriteProposal
    <3> QED
      BY <1>1, <1>2, <3>1 DEF Now
  <2>7. CASE Raise(a) \/ Crash(a)
    <3>1. act'[a].pc = "idle" /\ Cut
      BY <1>1, <2>7, ActMoves DEF Raise, Crash, Fault, Happened, Escapes
    <3> QED
      BY <1>1, <1>2, <3>1
  <2>8. CASE Record(a) \/ Fail(a)
    <3>1. PICK w \in Work : w = act[a].work
      BY <1>1, <2>8 DEF Record, Fail
    <3>2. status[w] # "waiting_approval"
      <4>1. SUFFICES ASSUME status[w] = "waiting_approval" PROVE FALSE
        OBVIOUS
      <4>2. "completed" \in WorkNext(status[w]) /\ "reviewing" \in WorkNext(status[w])
        BY <4>1 DEF WorkNext
      <4>3. status'[w] \in {"completed", "reviewing"}
        BY <1>1, <2>8, <3>1, <4>2 DEF Record, Fail
      <4> QED
        BY <1>2, <4>1, <4>3
    <3>3. act'[a].pc = "idle" \/ Now(a, "parent") \/ Now(a, "proposal")
      BY <1>1, <2>8, ActMoves DEF Record, Fail, Leave, AfterRecord
    <3> QED
      BY <1>1, <1>2, <3>1, <3>2, <3>3 DEF Now
  <2> QED
    BY <2>1, <2>3, <2>4, <2>5, <2>6, <2>7, <2>8 DEF Moves, Step
<1>3. CASE status' # status
  <2>1. Record(a) \/ Fail(a)
    BY <1>3 DEF Moves, Step, Start, UsePatch, CleanGit, Apply, Test, Raise, Rollback, Verify,
                Add, Commit, Reset, Reload, Archive, CompleteParent, WriteParent,
                CheckProposal, WriteProposal, Crash
  <2>2. PICK w \in Work : w = act[a].work
    BY <1>1, <2>1 DEF Record, Fail
  <2>3. PICK s \in {"completed", "reviewing"} : status' = [status EXCEPT ![w] = s]
    BY <1>3, <2>1, <2>2 DEF Record, Fail
  <2>4. act'[a].pc = "idle" \/ Now(a, "parent") \/ Now(a, "proposal")
    BY <1>1, <2>1, ActMoves DEF Record, Fail, Leave, AfterRecord
  <2> QED
    BY <1>1, <2>2, <2>3, <2>4 DEF Now, WorkStatus
<1> QED
  BY <1>2, <1>3

LEMMA NextDecided ==
  ASSUME "waiting_approval" \notin UserGoals
  PROVE  DecidedInv /\ [HistoryNext]_<<vars, history>> => DecidedInv'
<1> SUFFICES ASSUME DecidedInv, [HistoryNext]_<<vars, history>> PROVE DecidedInv'
  OBVIOUS
<1>0. /\ act \in [Activator -> ActivatorState] /\ status \in [Work -> WorkStatus]
      /\ user \in [User -> UserState]
      /\ \A b \in Activator :
           /\ ~At(b, "idle") => act[b].work \in Work
           /\ act[b].pc \in {"parent", "parent_write", "proposal", "proposal_write"}
                => status[act[b].work] # "waiting_approval"
  BY DEF DecidedInv
<1>1. ASSUME NEW a \in Activator, Moves(a) PROVE DecidedInv'
  <2>1. Others(a) /\ act' \in [Activator -> ActivatorState]
    BY <1>0, <1>1, MoverIsAlone
  <2>2. user' = user
    BY <1>1 DEF Moves, Step, Start, UsePatch, CleanGit, Apply, Test, Raise, Rollback, Verify,
                Add, Commit, Reset, Reload, Archive, Record, CompleteParent, WriteParent,
                CheckProposal, WriteProposal, Fail, Crash
  <2>3. ASSUME NEW b \in Activator
        PROVE  /\ act'[b].pc # "idle" => act'[b].work \in Work
               /\ act'[b].pc \in {"parent", "parent_write", "proposal", "proposal_write"}
                    => status'[act'[b].work] # "waiting_approval"
    BY <1>0, <1>1, <2>1, MoverDecided DEF Others, At
  <2>4. status' \in [Work -> WorkStatus]
    BY <1>1, MoverDecided
  <2> QED
    BY <2>1, <2>2, <2>3, <2>4 DEF DecidedInv, At
<1>2. ASSUME NEW u \in User, NEW w \in UserWork, NEW goal \in UserGoals,
             UserCheck(u, w, goal)
      PROVE  DecidedInv'
  <2>1. act' = act /\ status' = status
    BY <1>2 DEF UserCheck, ledger
  <2>2. goal \in WorkStatus \ {"waiting_approval"}
    BY ActivationAssumption
  <2>3. user' = [user EXCEPT ![u] = [work |-> w, goal |-> goal]]
    BY <1>2 DEF UserCheck
  <2>4. [work |-> w, goal |-> goal] \in UserState
    BY <2>2, ActivationAssumption DEF UserState
  <2> QED
    BY <2>1, <2>2, <2>3, <2>4 DEF DecidedInv, At
<1>3. ASSUME NEW u \in User, UserWrite(u) PROVE DecidedInv'
  <2>1. act' = act /\ user' = [user EXCEPT ![u] = NoChange]
        /\ status' = [status EXCEPT ![user[u].work] = user[u].goal]
    BY <1>3 DEF UserWrite
  <2>2. NoChange \in UserState /\ user[u].goal \in WorkStatus \ {"waiting_approval"}
    BY <1>3 DEF UserWrite, DecidedInv, NoChange, UserState
  <2>3. /\ user' \in [User -> UserState]
        /\ \A v \in User : user'[v] # NoChange => user'[v] = user[v]
    BY <1>0, <2>1, <2>2
  <2>4. /\ status' \in [Work -> WorkStatus]
        /\ \A w \in Work : status'[w] = "waiting_approval" => status[w] = "waiting_approval"
    BY <1>0, <2>1, <2>2
  <2> QED
    BY <2>1, <2>3, <2>4 DEF DecidedInv, At
<1>4. CASE UNCHANGED <<vars, history>>
  BY <1>4 DEF vars, ledger, DecidedInv, At
<1> QED
  BY <1>1, <1>2, <1>3, <1>4 DEF HistoryNext, Next, Moves

\* If users do not ask for waiting_approval themselves, an activation that is over
\* has decided its item, unless it ended with one of the exceptions that pass by
\* _fail_activation or with its process: activations side by side included.
THEOREM ActivationDecides ==
  ASSUME "waiting_approval" \notin UserGoals
  PROVE  HistorySpec => DecidesUnlessRaised
<1>1. DecidedInv /\ [HistoryNext]_<<vars, history>> =>
        [\A a \in Activator :
            \/ At(a, "idle") \/ ~At(a, "idle")'
            \/ status'[act[a].work] # "waiting_approval"
            \/ Happened(Escapes)']_<<vars, history>>
  <2> SUFFICES ASSUME DecidedInv, HistoryNext, NEW a \in Activator,
                      ~At(a, "idle"), At(a, "idle")'
               PROVE  \/ status'[act[a].work] # "waiting_approval"
                      \/ Happened(Escapes)'
    OBVIOUS
  <2>1. PICK b \in Activator : Moves(b)
    BY DEF HistoryNext, Next, Moves, UserCheck, UserWrite, At
  <2>2. b = a
    BY <2>1, MoverIsAlone DEF DecidedInv, Others, At
  <2> QED
    BY <2>1, <2>2, MoverDecided
<1> QED
  BY <1>1, InitDecided, NextDecided, PTL DEF HistorySpec, DecidesUnlessRaised
=============================================================================
