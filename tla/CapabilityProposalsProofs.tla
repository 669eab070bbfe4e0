--------------------- MODULE CapabilityProposalsProofs ----------------------
(***************************************************************************)
(* Proofs about CapabilityProposals: the rows of gaps, proposals and work  *)
(* items belong together for any number of requests, threads and faults,   *)
(* wherever a request is cut short; and while requests about one thing     *)
(* come one by one, an ability has one open proposal and verdicts hold.    *)
(***************************************************************************)
EXTENDS MCProposals, FiniteSetTheorems, TLAPS

-----------------------------------------------------------------------------
(* The inductive invariant.                                                *)

\* A request that may still make a proposal.
Making == {"find", "create_work", "create_proposal"}

Makes(t, i) == th[t].pc \in Making /\ th[t].id = i

ThreadIsSound(t) ==
    /\ th[t].pc # "idle" => th[t].id \in Id
    /\ th[t].pc \in Making =>
         /\ gap[th[t].id] = "detected" /\ th[t].ability \in Ability \ Known
         /\ proposal[th[t].id] = "absent"
    /\ th[t].pc = "create_proposal" => work[th[t].id] # "absent"
    /\ th[t].pc = "write_proposal" =>
         proposal[th[t].id] # "absent" /\ th[t].verdict \in Verdict
    /\ th[t].pc = "write_work" => th[t].goal \in WorkStatus

ThreadsAreSound == \A t \in Thread : ThreadIsSound(t)

\* Every request makes rows of its own.
OneMakes ==
    \A t, u \in Thread :
        th[t].pc \in Making /\ th[u].pc \in Making /\ th[t].id = th[u].id => t = u

\* A request that was bound to an open proposal is over.
DuplicatesAreOver ==
    \A d \in deduped :
        /\ gap[d[1]] # "absent" /\ proposal[d[2]] # "absent"
        /\ \A t \in Thread : ~Makes(t, d[1])

RowsInv ==
    RowsBelongTogether /\ ThreadsAreSound /\ OneMakes /\ DuplicatesAreOver

\* Empty tables and idle threads have it.
LEMMA InitRows == Init => RowsInv
<1> SUFFICES ASSUME Init PROVE RowsInv
  OBVIOUS
<1>1. Idle \in ThreadState /\ Idle.pc = "idle"
  BY DEF Idle, ThreadState, PC
<1>2. TypeOK
  BY <1>1, ProposalAssumption DEF Init, TypeOK
<1>3. ProposalIsBacked /\ DuplicateHasNoProposal /\ DuplicatesAreOver
  BY DEF Init, ProposalIsBacked, DuplicateHasNoProposal, DuplicatesAreOver
<1>4. ThreadsAreSound /\ OneMakes
  BY <1>1 DEF Init, ThreadsAreSound, ThreadIsSound, OneMakes, Making
<1> QED
  BY <1>2, <1>3, <1>4 DEF RowsInv, RowsBelongTogether

-----------------------------------------------------------------------------
(* How a thread moves.                                                     *)

Others(t) == \A u \in Thread : u # t => th'[u] = th[u]

Now(t, pc) ==
    /\ th'[t].pc = pc /\ th'[t].id = th[t].id /\ th'[t].ability = th[t].ability
    /\ th'[t].verdict = th[t].verdict /\ th'[t].goal = th[t].goal /\ Others(t)

\* It goes on or returns, and leaves the others alone.
LEMMA GotoIs ==
  ASSUME TypeOK, NEW t \in Thread
  PROVE  /\ \A pc \in PC : Goto(t, pc) => Now(t, pc) /\ th' \in [Thread -> ThreadState]
         /\ Return(t) => /\ th'[t].pc = "idle" /\ Others(t)
                         /\ th' \in [Thread -> ThreadState]
<1>1. th[t] \in ThreadState /\ th \in [Thread -> ThreadState]
  BY DEF TypeOK
<1>2. ASSUME NEW pc \in PC, Goto(t, pc)
      PROVE  Now(t, pc) /\ th' \in [Thread -> ThreadState]
  <2>1. PICK x : x = [th[t] EXCEPT !.pc = pc]
    OBVIOUS
  <2>2. th' = [th EXCEPT ![t] = x]
    BY <1>2, <2>1, Zenon DEF Goto
  <2>3. /\ x \in ThreadState /\ x.pc = pc /\ x.id = th[t].id
        /\ x.ability = th[t].ability /\ x.verdict = th[t].verdict /\ x.goal = th[t].goal
    BY <1>1, <2>1 DEF ThreadState
  <2> QED
    BY <1>1, <2>2, <2>3 DEF Now, Others
<1>3. Idle \in ThreadState /\ Idle.pc = "idle"
  BY DEF Idle, ThreadState, PC
<1>4. ASSUME Return(t)
      PROVE  th'[t].pc = "idle" /\ Others(t) /\ th' \in [Thread -> ThreadState]
  BY <1>1, <1>3, <1>4 DEF Return, Others
<1> QED
  BY <1>2, <1>4

\* What a request that begins has got.
LEMMA BeginIs ==
  ASSUME TypeOK, NEW t \in Thread, NEW i \in Id
  PROVE  /\ \A a \in Ability :
              th' = [th EXCEPT ![t] = [Idle EXCEPT !.pc = "find", !.id = i,
                                                   !.ability = a]]
              => /\ th'[t].pc = "find" /\ th'[t].id = i /\ th'[t].ability = a
                 /\ Others(t) /\ th' \in [Thread -> ThreadState]
         /\ \A v \in Verdict :
              th' = [th EXCEPT ![t] = [Idle EXCEPT !.pc = "write_proposal", !.id = i,
                                                   !.verdict = v]]
              => /\ th'[t].pc = "write_proposal" /\ th'[t].id = i
                 /\ th'[t].verdict = v
                 /\ Others(t) /\ th' \in [Thread -> ThreadState]
         /\ \A goal \in WorkStatus :
              th' = [th EXCEPT ![t] = [Idle EXCEPT !.pc = "write_work", !.id = i,
                                                   !.goal = goal]]
              => /\ th'[t].pc = "write_work" /\ th'[t].id = i /\ th'[t].goal = goal
                 /\ th'[t].verdict = "none" /\ Others(t) /\ th' \in [Thread -> ThreadState]
<1>1. th \in [Thread -> ThreadState]
  BY DEF TypeOK
<1>2. ASSUME NEW x \in ThreadState, th' = [th EXCEPT ![t] = x]
      PROVE  th'[t] = x /\ Others(t) /\ th' \in [Thread -> ThreadState]
  BY <1>1, <1>2 DEF Others
<1>3. ASSUME NEW a \in Ability,
             th' = [th EXCEPT ![t] = [Idle EXCEPT !.pc = "find", !.id = i, !.ability = a]]
      PROVE  /\ th'[t].pc = "find" /\ th'[t].id = i /\ th'[t].ability = a
             /\ Others(t) /\ th' \in [Thread -> ThreadState]
  <2>1. PICK x : x = [Idle EXCEPT !.pc = "find", !.id = i, !.ability = a]
    OBVIOUS
  <2>2. x \in ThreadState /\ x.pc = "find" /\ x.id = i /\ x.ability = a
    BY <2>1 DEF Idle, ThreadState, PC
  <2> QED
    BY <1>2, <1>3, <2>1, <2>2
<1>4. ASSUME NEW v \in Verdict,
             th' = [th EXCEPT ![t] = [Idle EXCEPT !.pc = "write_proposal", !.id = i,
                                                  !.verdict = v]]
      PROVE  /\ th'[t].pc = "write_proposal" /\ th'[t].id = i /\ th'[t].verdict = v
             /\ Others(t) /\ th' \in [Thread -> ThreadState]
  <2>1. PICK x : x = [Idle EXCEPT !.pc = "write_proposal", !.id = i, !.verdict = v]
    OBVIOUS
  <2>2. x \in ThreadState /\ x.pc = "write_proposal" /\ x.id = i /\ x.verdict = v
    BY <2>1 DEF Idle, ThreadState, PC
  <2> QED
    BY <1>2, <1>4, <2>1, <2>2
<1>5. ASSUME NEW goal \in WorkStatus,
             th' = [th EXCEPT ![t] = [Idle EXCEPT !.pc = "write_work", !.id = i,
                                                  !.goal = goal]]
      PROVE  /\ th'[t].pc = "write_work" /\ th'[t].id = i /\ th'[t].goal = goal
             /\ th'[t].verdict = "none" /\ Others(t) /\ th' \in [Thread -> ThreadState]
  <2>1. PICK x : x = [Idle EXCEPT !.pc = "write_work", !.id = i, !.goal = goal]
    OBVIOUS
  <2>2. x \in ThreadState /\ x.pc = "write_work" /\ x.id = i /\ x.goal = goal
        /\ x.verdict = "none"
    BY <2>1 DEF Idle, ThreadState, PC
  <2> QED
    BY <1>2, <1>5, <2>1, <2>2
<1> QED
  BY <1>3, <1>4, <1>5

\* What a request for a job has got.
LEMMA AskIs ==
  ASSUME TypeOK, NEW t \in Thread, NEW i \in Id, NEW pc \in {"enqueue", "retry"},
         th' = [th EXCEPT ![t] = [Idle EXCEPT !.pc = pc, !.id = i]]
  PROVE  /\ th'[t].pc = pc /\ th'[t].id = i
         /\ th'[t].verdict = "none" /\ th'[t].goal = "none"
         /\ Others(t) /\ th' \in [Thread -> ThreadState]
<1>1. th \in [Thread -> ThreadState]
  BY DEF TypeOK
<1>2. PICK x : x = [Idle EXCEPT !.pc = pc, !.id = i]
  OBVIOUS
<1>3. /\ x \in ThreadState /\ x.pc = pc /\ x.id = i /\ x.verdict = "none"
      /\ x.goal = "none"
  BY <1>2 DEF Idle, ThreadState, PC
<1>4. th' = [th EXCEPT ![t] = x]
  BY <1>2
<1> QED
  BY <1>1, <1>3, <1>4 DEF Others

\* A transition of the work table goes to a status.
LEMMA WorkNextType == \A s, g : g \in WorkNext(s) => g \in WorkStatus /\ s # "absent"
BY DEF WorkNext, WorkStatus

LEMMA ProposalNextType == \A s, v : v \in ProposalNext(s) => s # "absent"
BY DEF ProposalNext

-----------------------------------------------------------------------------
(* The steps.                                                              *)

\* Every step keeps the invariant.
LEMMA NextRows == RowsInv /\ [Next]_vars => RowsInv'
<1> SUFFICES ASSUME RowsInv, [Next]_vars PROVE RowsInv'
  OBVIOUS
<1>0. /\ TypeOK /\ ProposalIsBacked /\ DuplicateHasNoProposal
      /\ ThreadsAreSound /\ OneMakes /\ DuplicatesAreOver
  BY DEF RowsInv, RowsBelongTogether
<1> USE DEF tables, At
\* What a step must keep when it makes no thread a maker that was none before.
<1>1. ASSUME TypeOK', NEW t \in Thread, Others(t),
             \A i \in Id : gap[i] # "absent" => gap'[i] = gap[i],
             \A i \in Id : proposal[i] # "absent" => proposal'[i] # "absent",
             \A i \in Id : work[i] # "absent" => work'[i] # "absent",
             \A i \in Id : proposal[i] # "absent" => ability'[i] = ability[i],
             \A i \in Id : proposal[i] = "absent" /\ proposal'[i] # "absent" =>
                 /\ Makes(t, i) /\ th'[t].pc = "idle"
                 /\ gap[i] = "detected" /\ work[i] # "absent"
                 /\ ability'[i] \in Ability \ Known,
             th'[t].pc \in Making =>
                 /\ th[t].pc \in Making => th'[t].id = th[t].id
                 /\ th[t].pc \notin Making => gap[th'[t].id] = "absent",
             ThreadIsSound(t)',
             \A d \in deduped' : d \in deduped \/
                 /\ Makes(t, d[1]) /\ th'[t].pc = "idle"
                 /\ proposal[d[2]] # "absent" /\ d[1] \in Id /\ d[2] \in Id
                 /\ proposal'[d[1]] = proposal[d[1]]
      PROVE  RowsInv'
  <2>1. ASSUME NEW u \in Thread, NEW i \in Id, Makes(u, i)'
        PROVE  Makes(u, i) \/ (u = t /\ gap[i] = "absent")
    <3>1. CASE u = t
      BY <1>1, <2>1, <3>1 DEF Makes
    <3>2. CASE u # t
      BY <1>1, <2>1, <3>2 DEF Makes, Others
    <3> QED
      BY <3>1, <3>2
  <2>2. ASSUME NEW u \in Thread, NEW i \in Id, Makes(u, i)
        PROVE  gap[i] = "detected" /\ proposal[i] = "absent"
    BY <1>0, <2>2 DEF Makes, ThreadsAreSound, ThreadIsSound
  <2>3. ProposalIsBacked'
    <3> SUFFICES ASSUME NEW i \in Id, proposal'[i] # "absent"
                 PROVE  /\ gap'[i] = "detected" /\ ability'[i] \in Ability \ Known
                        /\ work'[i] # "absent"
      BY DEF ProposalIsBacked
    <3>1. CASE proposal[i] # "absent"
      BY <1>0, <1>1, <3>1 DEF ProposalIsBacked
    <3>2. CASE proposal[i] = "absent"
      BY <1>1, <3>2
    <3> QED
      BY <3>1, <3>2
  <2>4. ASSUME NEW d \in deduped'
        PROVE  /\ proposal'[d[1]] = "absent" /\ proposal'[d[2]] # "absent"
               /\ gap'[d[1]] # "absent" /\ \A u \in Thread : ~Makes(u, d[1])'
    <3>1. CASE d \in deduped
      <4>1. d[1] \in Id /\ d[2] \in Id
        BY <1>0, <3>1 DEF TypeOK
      <4>2. /\ proposal[d[1]] = "absent" /\ proposal[d[2]] # "absent"
            /\ gap[d[1]] # "absent" /\ \A u \in Thread : ~Makes(u, d[1])
        BY <1>0, <3>1 DEF DuplicateHasNoProposal, DuplicatesAreOver
      <4> QED
        BY <1>1, <2>1, <4>1, <4>2
    <3>2. CASE d \notin deduped
      <4>1. /\ Makes(t, d[1]) /\ th'[t].pc = "idle"
            /\ proposal[d[2]] # "absent" /\ d[1] \in Id /\ d[2] \in Id
            /\ proposal'[d[1]] = proposal[d[1]]
        BY <1>1, <2>4, <3>2
      <4>2. gap[d[1]] = "detected" /\ proposal[d[1]] = "absent"
        BY <2>2, <4>1
      <4>3. ASSUME NEW u \in Thread, Makes(u, d[1])' PROVE FALSE
        <5>1. Makes(u, d[1])
          BY <2>1, <4>1, <4>2, <4>3
        <5>2. u = t
          BY <1>0, <4>1, <5>1 DEF OneMakes, Makes
        <5> QED
          BY <4>1, <4>3, <5>2 DEF Makes, Making
      <4> QED
        BY <1>1, <4>1, <4>2, <4>3
    <3> QED
      BY <3>1, <3>2
  <2>5. ThreadsAreSound'
    <3> SUFFICES ASSUME NEW u \in Thread PROVE ThreadIsSound(u)'
      BY DEF ThreadsAreSound
    <3>1. CASE u # t
      <4>1. th'[u] = th[u] /\ ThreadIsSound(u)
        BY <1>0, <1>1, <3>1 DEF Others, ThreadsAreSound
      <4>2. th[u].pc \in Making => proposal'[th[u].id] = "absent"
        <5>1. SUFFICES ASSUME th[u].pc \in Making, proposal'[th[u].id] # "absent"
                       PROVE  FALSE
          OBVIOUS
        <5>2. Makes(u, th[u].id) /\ th[u].id \in Id /\ proposal[th[u].id] = "absent"
          BY <4>1, <5>1 DEF ThreadIsSound, Makes, Making
        <5>3. Makes(t, th[u].id)
          BY <1>1, <5>1, <5>2
        <5> QED
          BY <1>0, <3>1, <5>2, <5>3 DEF OneMakes, Makes
      <4> QED
        BY <1>1, <4>1, <4>2 DEF ThreadIsSound, Making
    <3>2. CASE u = t
      BY <1>1, <3>2
    <3> QED
      BY <3>1, <3>2
  <2>6. OneMakes'
    <3> SUFFICES ASSUME NEW u \in Thread, NEW v \in Thread,
                        th'[u].pc \in Making, th'[v].pc \in Making,
                        th'[u].id = th'[v].id
                 PROVE  u = v
      BY DEF OneMakes
    <3>1. PICK i \in Id : i = th'[u].id
      BY <2>5 DEF ThreadsAreSound, ThreadIsSound, Making
    <3>2. Makes(u, i)' /\ Makes(v, i)'
      BY <3>1 DEF Makes
    <3>3. (Makes(u, i) \/ (u = t /\ gap[i] = "absent"))
          /\ (Makes(v, i) \/ (v = t /\ gap[i] = "absent"))
      BY <2>1, <3>2
    <3> QED
      BY <1>0, <2>2, <3>3 DEF OneMakes, Makes
  <2> QED
    BY <1>1, <2>3, <2>4, <2>5, <2>6
       DEF RowsInv, RowsBelongTogether, DuplicateHasNoProposal, DuplicatesAreOver
<1>2. ASSUME NEW t \in Thread, NEW i \in Id, NEW kind \in IntentKind,
             NEW a \in Ability, RecordGap(t, i, kind, a)
      PROVE  RowsInv'
  <2>1. th[t].pc = "idle" /\ gap[i] = "absent" /\ proposal' = proposal
        /\ gap' = [gap EXCEPT ![i] = GapStatusOf(kind)]
        /\ UNCHANGED <<work, ability, deduped, jobs, faults>>
    BY <1>2 DEF RecordGap
  <2>2. GapStatusOf(kind) \in GapStatus
    BY DEF GapStatusOf, IntentKind, GapStatus
  <2>3. proposal[i] = "absent"
    BY <1>0, <2>1 DEF ProposalIsBacked
  <2>4. CASE MakesProposal(kind, a)
    <3>1. /\ th'[t].pc = "find" /\ th'[t].id = i /\ th'[t].ability = a
          /\ Others(t) /\ th' \in [Thread -> ThreadState]
      BY <1>0, <1>2, <2>4, BeginIs DEF RecordGap
    <3>2. GapStatusOf(kind) = "detected" /\ a \in Ability \ Known
      BY <2>4 DEF MakesProposal, GapStatusOf
    <3>3. TypeOK'
      BY <1>0, <2>1, <2>2, <3>1 DEF TypeOK
    <3>4. ThreadIsSound(t)'
      BY <1>0, <2>1, <2>3, <3>1, <3>2 DEF ThreadIsSound, TypeOK
    <3>5. \A j \in Id : gap[j] # "absent" => gap'[j] = gap[j]
      BY <1>0, <2>1 DEF TypeOK
    <3> QED
      BY <1>1, <2>1, <3>1, <3>3, <3>4, <3>5 DEF Making
  <2>5. CASE ~MakesProposal(kind, a)
    <3>1. th' = th
      BY <1>2, <2>5 DEF RecordGap
    <3>2. TypeOK'
      BY <1>0, <2>1, <2>2, <3>1 DEF TypeOK
    <3>3. ThreadIsSound(t)'
      BY <2>1, <3>1 DEF ThreadIsSound, Making
    <3>4. \A j \in Id : gap[j] # "absent" => gap'[j] = gap[j]
      BY <1>0, <2>1 DEF TypeOK
    <3> QED
      BY <1>1, <2>1, <3>1, <3>2, <3>3, <3>4 DEF Making, Others
  <2> QED
    BY <2>4, <2>5
<1>3. ASSUME NEW t \in Thread, FindDuplicate(t) PROVE RowsInv'
  <2>1. th[t].pc = "find" /\ UNCHANGED <<gap, proposal, work, ability, jobs, faults>>
    BY <1>3 DEF FindDuplicate
  <2>2. th[t].id \in Id /\ ThreadIsSound(t)
    BY <1>0, <2>1 DEF ThreadsAreSound, ThreadIsSound
  <2>3. CASE Return(t) /\ \E i \in Open(th[t].ability) :
                            deduped' = deduped \cup {<<th[t].id, i>>}
    <3>1. PICK i \in Open(th[t].ability) : deduped' = deduped \cup {<<th[t].id, i>>}
      BY <2>3
    <3>2. i \in Id /\ proposal[i] # "absent"
      BY <3>1 DEF Open, OpenStatus
    <3>3. /\ th'[t].pc = "idle" /\ Others(t) /\ th' \in [Thread -> ThreadState]
      BY <1>0, <2>3, GotoIs
    <3>4. TypeOK'
      BY <1>0, <2>1, <2>2, <3>1, <3>2, <3>3 DEF TypeOK
    <3>5. ThreadIsSound(t)'
      BY <3>3 DEF ThreadIsSound, Making
    <3>6. ASSUME NEW d \in deduped', d \notin deduped
          PROVE  /\ Makes(t, d[1]) /\ proposal[d[2]] # "absent"
                 /\ d[1] \in Id /\ d[2] \in Id
      <4>1. d = <<th[t].id, i>>
        BY <3>1, <3>6
      <4> QED
        BY <2>1, <2>2, <3>2, <4>1 DEF Makes, Making
    <3> QED
      BY <1>1, <2>1, <3>3, <3>4, <3>5, <3>6 DEF Making
  <2>4. CASE Goto(t, "create_work") /\ UNCHANGED deduped
    <3>1. Now(t, "create_work") /\ th' \in [Thread -> ThreadState]
      BY <1>0, <2>4, GotoIs DEF PC
    <3>2. TypeOK'
      BY <1>0, <2>1, <2>4, <3>1 DEF TypeOK
    <3>3. ThreadIsSound(t)'
      BY <2>1, <2>2, <3>1 DEF ThreadIsSound, Now, Making
    <3> QED
      BY <1>1, <2>1, <2>4, <3>1, <3>2, <3>3 DEF Making, Now
  <2> QED
    BY <1>3, <2>3, <2>4 DEF FindDuplicate
<1>4. ASSUME NEW t \in Thread, CreateWork(t) PROVE RowsInv'
  <2>1. /\ th[t].pc = "create_work"
        /\ UNCHANGED <<gap, proposal, ability, deduped, jobs, faults>>
        /\ work' = [work EXCEPT ![th[t].id] = "proposed"]
    BY <1>4 DEF CreateWork
  <2>2. th[t].id \in Id /\ ThreadIsSound(t)
    BY <1>0, <2>1 DEF ThreadsAreSound, ThreadIsSound
  <2>3. Now(t, "create_proposal") /\ th' \in [Thread -> ThreadState]
    BY <1>0, <1>4, GotoIs DEF CreateWork, PC
  <2>4. TypeOK'
    BY <1>0, <2>1, <2>3 DEF TypeOK, WorkStatus
  <2>5. ThreadIsSound(t)'
    BY <1>0, <2>1, <2>2, <2>3 DEF ThreadIsSound, Now, Making, TypeOK
  <2>6. \A i \in Id : work[i] # "absent" => work'[i] # "absent"
    BY <1>0, <2>1 DEF TypeOK
  <2> QED
    BY <1>1, <2>1, <2>3, <2>4, <2>5, <2>6 DEF Making, Now
<1>5. ASSUME NEW t \in Thread, CreateProposal(t) PROVE RowsInv'
  <2>1. PICK i \in Id : i = th[t].id
    BY <1>0, <1>5 DEF CreateProposal, ThreadsAreSound, ThreadIsSound
  <2>2. th[t].pc = "create_proposal" /\ UNCHANGED <<gap, work, deduped, jobs>>
        /\ ThreadIsSound(t) /\ faults' \in 0..MaxFaults
    BY <1>0, <1>5, ProposalAssumption
       DEF CreateProposal, ThreadsAreSound, Fault, TypeOK
  <2>3. /\ th'[t].pc = "idle" /\ Others(t) /\ th' \in [Thread -> ThreadState]
    BY <1>0, <1>5, GotoIs DEF CreateProposal
  <2>4. /\ Makes(t, i) /\ gap[i] = "detected" /\ work[i] # "absent"
        /\ th[t].ability \in Ability \ Known
    BY <2>1, <2>2 DEF Makes, Making, ThreadIsSound
  <2>5. \/ /\ proposal' = [proposal EXCEPT ![i] = "proposed"]
           /\ ability' = [ability EXCEPT ![i] = th[t].ability]
        \/ proposal' = proposal /\ ability' = ability
    BY <1>5, <2>1 DEF CreateProposal
  <2>6. TypeOK'
    BY <1>0, <2>2, <2>3, <2>4, <2>5 DEF TypeOK, ProposalStatus
  <2>7. ThreadIsSound(t)'
    BY <2>3 DEF ThreadIsSound, Making
  <2>8. proposal[i] = "absent"
    BY <2>1, <2>2 DEF ThreadIsSound, Making
  <2>9. ASSUME NEW j \in Id
        PROVE  /\ proposal[j] # "absent" =>
                    proposal'[j] # "absent" /\ ability'[j] = ability[j]
               /\ proposal[j] = "absent" /\ proposal'[j] # "absent" =>
                    j = i /\ ability'[j] = th[t].ability
    BY <1>0, <2>5, <2>8 DEF TypeOK
  <2> QED
    BY <1>1, <2>2, <2>3, <2>4, <2>6, <2>7, <2>9 DEF Making
<1>6. ASSUME NEW t \in Thread, NEW i \in Id, NEW v \in Verdict, CheckProposal(t, i, v)
      PROVE  RowsInv'
  <2>1. th[t].pc = "idle" /\ proposal[i] # "absent" /\ UNCHANGED <<tables, faults>>
    BY <1>6, ProposalNextType DEF CheckProposal
  <2>2. /\ th'[t].pc = "write_proposal" /\ th'[t].id = i /\ th'[t].verdict = v
        /\ Others(t) /\ th' \in [Thread -> ThreadState]
    BY <1>0, <1>6, BeginIs, ZenonT(40) DEF CheckProposal
  <2>3. TypeOK'
    BY <1>0, <2>1, <2>2 DEF TypeOK
  <2>4. ThreadIsSound(t)'
    BY <2>1, <2>2 DEF ThreadIsSound, Making
  <2> QED
    BY <1>1, <2>1, <2>2, <2>3, <2>4 DEF Making
<1>7. ASSUME NEW t \in Thread, WriteProposal(t) PROVE RowsInv'
  <2>1. PICK i \in Id : i = th[t].id
    BY <1>0, <1>7 DEF WriteProposal, ThreadsAreSound, ThreadIsSound
  <2>2. /\ th[t].pc = "write_proposal" /\ UNCHANGED <<gap, work, ability, deduped, jobs, faults>>
        /\ proposal' = [proposal EXCEPT ![i] = th[t].verdict]
    BY <1>7, <2>1 DEF WriteProposal
  <2>3. proposal[i] # "absent" /\ th[t].verdict \in Verdict
    BY <1>0, <2>1, <2>2 DEF ThreadsAreSound, ThreadIsSound
  <2>4. Now(t, "check_work") /\ th' \in [Thread -> ThreadState]
    BY <1>0, <1>7, GotoIs DEF WriteProposal, PC
  <2>5. TypeOK'
    BY <1>0, <2>2, <2>3, <2>4 DEF TypeOK, Verdict, ProposalStatus
  <2>6. ThreadIsSound(t)'
    BY <2>1, <2>4 DEF ThreadIsSound, Now, Making
  <2>7. \A j \in Id :
          /\ proposal[j] # "absent" => proposal'[j] # "absent"
          /\ proposal[j] = "absent" => proposal'[j] = "absent"
    BY <1>0, <2>2, <2>3 DEF TypeOK, Verdict
  <2> QED
    BY <1>1, <2>2, <2>4, <2>5, <2>6, <2>7 DEF Making, Now
<1>8. ASSUME NEW t \in Thread, CheckWork(t) PROVE RowsInv'
  <2>1. th[t].pc = "check_work" /\ UNCHANGED <<tables, faults>>
    BY <1>8 DEF CheckWork
  <2>2. th[t].id \in Id /\ th[t] \in ThreadState /\ th \in [Thread -> ThreadState]
    BY <1>0, <2>1 DEF ThreadsAreSound, ThreadIsSound, TypeOK
  <2>3. CASE Return(t)
    <3>1. /\ th'[t].pc = "idle" /\ Others(t) /\ th' \in [Thread -> ThreadState]
      BY <1>0, <2>3, GotoIs
    <3>2. TypeOK' /\ ThreadIsSound(t)'
      BY <1>0, <2>1, <3>1 DEF TypeOK, ThreadIsSound, Making
    <3> QED
      BY <1>1, <2>1, <3>1, <3>2 DEF Making
  <2>4. ASSUME NEW goal, goal \in WorkNext(work[th[t].id]),
               th' = [th EXCEPT ![t].pc = "write_work", ![t].goal = goal]
        PROVE  RowsInv'
    <3>1. goal \in WorkStatus
      BY <2>4, WorkNextType
    <3>2. PICK x : x = [th[t] EXCEPT !.pc = "write_work", !.goal = goal]
      OBVIOUS
    <3>3. th' = [th EXCEPT ![t] = x]
      BY <2>4, <3>2, Zenon
    <3>4. /\ x \in ThreadState /\ x.pc = "write_work" /\ x.id = th[t].id
          /\ x.goal = goal
      BY <2>2, <3>1, <3>2 DEF ThreadState, PC
    <3>5. /\ th'[t] = x /\ Others(t) /\ th' \in [Thread -> ThreadState]
      BY <2>2, <3>3, <3>4 DEF Others
    <3>6. TypeOK'
      BY <1>0, <2>1, <3>5 DEF TypeOK
    <3>7. ThreadIsSound(t)'
      BY <2>2, <3>1, <3>4, <3>5 DEF ThreadIsSound, Making
    <3> QED
      BY <1>1, <2>1, <3>4, <3>5, <3>6, <3>7 DEF Making
  <2> QED
    BY <1>8, <2>3, <2>4 DEF CheckWork
<1>9. ASSUME NEW t \in Thread, WriteWork(t) PROVE RowsInv'
  <2>1. /\ th[t].pc = "write_work" /\ th[t].id \in Id /\ th[t].goal \in WorkStatus
        /\ work' = [work EXCEPT ![th[t].id] = th[t].goal]
        /\ UNCHANGED <<gap, proposal, ability, deduped, jobs, faults>>
    BY <1>0, <1>9 DEF WriteWork, ThreadsAreSound, ThreadIsSound
  <2>2. \/ th'[t].pc = "idle" /\ Others(t) /\ th' \in [Thread -> ThreadState]
        \/ Now(t, "enqueue") /\ th' \in [Thread -> ThreadState]
    BY <1>0, <1>9, GotoIs DEF WriteWork, PC
  <2>3. TypeOK'
    BY <1>0, <2>1, <2>2 DEF TypeOK
  <2>4. ThreadIsSound(t)' /\ Others(t) /\ th'[t].pc \notin Making
    BY <2>1, <2>2 DEF ThreadIsSound, Now, Making
  <2>5. \A i \in Id : work[i] # "absent" => work'[i] # "absent"
    BY <1>0, <2>1 DEF TypeOK, WorkStatus
  <2> QED
    BY <1>1, <2>1, <2>3, <2>4, <2>5
<1>10. ASSUME NEW t \in Thread, Enqueue(t) PROVE RowsInv'
  <2>1. /\ th[t].pc = "enqueue" /\ th[t].id \in Id /\ faults' \in 0..MaxFaults
        /\ jobs' \subseteq jobs \cup {th[t].id}
        /\ UNCHANGED <<gap, proposal, work, ability, deduped>>
    BY <1>0, <1>10, ProposalAssumption
       DEF Enqueue, ThreadsAreSound, ThreadIsSound, Fault, TypeOK
  <2>2. th'[t].pc = "idle" /\ Others(t) /\ th' \in [Thread -> ThreadState]
    BY <1>0, <1>10, GotoIs DEF Enqueue
  <2>3. TypeOK' /\ ThreadIsSound(t)'
    BY <1>0, <2>1, <2>2 DEF TypeOK, ThreadIsSound, Making
  <2> QED
    BY <1>1, <2>1, <2>2, <2>3 DEF Making
<1>11. ASSUME NEW t \in Thread, NEW i \in Id, NEW goal \in UserGoals,
              CheckStatus(t, i, goal)
       PROVE  RowsInv'
  <2>1. th[t].pc = "idle" /\ goal \in WorkStatus /\ UNCHANGED <<tables, faults>>
    BY <1>11, ProposalAssumption DEF CheckStatus
  <2>2. th' = [th EXCEPT ![t] = [Idle EXCEPT !.pc = "write_work", !.id = i,
                                             !.goal = goal]]
    BY <1>11, Zenon DEF CheckStatus
  <2>3. /\ th'[t].pc = "write_work" /\ th'[t].id = i /\ th'[t].goal = goal
        /\ Others(t) /\ th' \in [Thread -> ThreadState]
    BY <1>0, <2>1, <2>2, BeginIs, ZenonT(40)
  <2>4. TypeOK' /\ ThreadIsSound(t)'
    BY <1>0, <2>1, <2>3 DEF TypeOK, ThreadIsSound, Making
  <2> QED
    BY <1>1, <2>1, <2>3, <2>4 DEF Making
<1>12. ASSUME NEW t \in Thread, NEW i \in Id, AskEnqueue(t, i) \/ AskRetry(t, i)
       PROVE  RowsInv'
  <2>1. th[t].pc = "idle" /\ UNCHANGED <<tables, faults>>
    BY <1>12 DEF AskEnqueue, AskRetry
  <2>2. \E pc \in {"enqueue", "retry"} :
           th' = [th EXCEPT ![t] = [Idle EXCEPT !.pc = pc, !.id = i]]
    BY <1>12, Zenon DEF AskEnqueue, AskRetry
  <2>3. /\ th'[t].pc \in {"enqueue", "retry"} /\ th'[t].id = i
        /\ Others(t) /\ th' \in [Thread -> ThreadState]
    BY <1>0, <2>2, AskIs
  <2>4. TypeOK' /\ ThreadIsSound(t)'
    BY <1>0, <2>1, <2>3 DEF TypeOK, ThreadIsSound, Making
  <2> QED
    BY <1>1, <2>1, <2>3, <2>4 DEF Making
<1>13. ASSUME NEW t \in Thread, Retry(t) PROVE RowsInv'
  <2>1. PICK i \in Id : i = th[t].id
    BY <1>0, <1>13 DEF Retry, ThreadsAreSound, ThreadIsSound
  <2>2. /\ th[t].pc = "retry" /\ faults' \in 0..MaxFaults
        /\ jobs' \subseteq jobs \cup {i}
        /\ UNCHANGED <<gap, proposal, ability, deduped>>
    BY <1>0, <1>13, <2>1, ProposalAssumption DEF Retry, Fault, TypeOK
  <2>3. /\ work' \in [Id -> WorkStatus \cup {"absent"}]
        /\ \A j \in Id : work[j] # "absent" => work'[j] # "absent"
    BY <1>0, <1>13, <2>1 DEF Retry, TypeOK, WorkStatus
  <2>4. th'[t].pc = "idle" /\ Others(t) /\ th' \in [Thread -> ThreadState]
    BY <1>0, <1>13, GotoIs DEF Retry
  <2>5. TypeOK' /\ ThreadIsSound(t)'
    BY <1>0, <2>1, <2>2, <2>3, <2>4 DEF TypeOK, ThreadIsSound, Making
  <2> QED
    BY <1>1, <2>2, <2>3, <2>4, <2>5 DEF Making
<1>14. CASE Crash
  <2>1. UNCHANGED tables /\ faults' \in 0..MaxFaults
        /\ th' = [t \in Thread |-> Idle]
    BY <1>0, <1>14, ProposalAssumption DEF Crash, Fault, TypeOK
  <2>2. Idle \in ThreadState /\ Idle.pc = "idle"
    BY DEF Idle, ThreadState, PC
  <2>3. TypeOK' /\ \A t \in Thread : th'[t].pc = "idle"
    BY <1>0, <2>1, <2>2 DEF TypeOK
  <2>4. ThreadsAreSound' /\ OneMakes'
    BY <2>3 DEF ThreadsAreSound, ThreadIsSound, OneMakes, Making
  <2>5. DuplicatesAreOver'
    BY <1>0, <2>1, <2>3 DEF DuplicatesAreOver, Makes, Making
  <2>6. ProposalIsBacked' /\ DuplicateHasNoProposal'
    BY <1>0, <2>1 DEF ProposalIsBacked, DuplicateHasNoProposal
  <2> QED
    BY <2>3, <2>4, <2>5, <2>6 DEF RowsInv, RowsBelongTogether
<1>15. CASE UNCHANGED vars
  BY <1>0, <1>15
     DEF vars, RowsInv, RowsBelongTogether, TypeOK, ProposalIsBacked,
         DuplicateHasNoProposal, ThreadsAreSound, ThreadIsSound, OneMakes,
         DuplicatesAreOver, Makes
<1> QED
  BY <1>2, <1>3, <1>4, <1>5, <1>6, <1>7, <1>8, <1>9, <1>10, <1>11, <1>12, <1>13,
     <1>14, <1>15
     DEF Next, Begin, Step

-----------------------------------------------------------------------------
\* Nothing is proposed that was not asked for, was forbidden or unclear, or exists;
\* a proposal has its work item; and a request that found an open proposal makes
\* none of its own (harness/capability_service.py).
THEOREM RowsAlwaysBelongTogether == Spec => []RowsBelongTogether
<1>1. RowsInv => RowsBelongTogether
  BY DEF RowsInv
<1> QED
  BY <1>1, InitRows, NextRows, PTL DEF Spec

-----------------------------------------------------------------------------
(* Requests about one thing come one by one.                               *)

\* What a request has found out still holds when it writes.
Steady(t) ==
    LET i == th[t].id  v == th[t].verdict IN
    /\ At(t, "create_work") \/ At(t, "create_proposal") => Open(th[t].ability) = {}
    /\ At(t, "write_proposal") => v \in ProposalNext(proposal[i])
    /\ At(t, "check_work") => proposal[i] = v /\ v \in Verdict
    /\ At(t, "write_work") /\ v # "none" => proposal[i] = v /\ th[t].goal = WorkGoal(v)
    /\ At(t, "enqueue") =>
         /\ v # "none" => proposal[i] = "approved_for_dev"
         /\ th[t].goal # "none" => work[i] = "accepted"
    /\ At(t, "retry") => v = "none" /\ th[t].goal = "none"

SerialInv ==
    ~overlapped =>
        /\ ~Overlapping
        /\ \A t \in Thread : Steady(t)
        /\ \A a \in Ability : \A i, j \in Open(a) : i = j

LEMMA InitSerial == HistoryInit => SerialInv
<1> SUFFICES ASSUME HistoryInit PROVE SerialInv
  OBVIOUS
<1>1. \A t \in Thread : th[t].pc = "idle"
  BY DEF HistoryInit, Init, Idle
<1>2. \A a : Open(a) = {}
  BY DEF HistoryInit, Init, Open, OpenStatus
<1> QED
  BY <1>1, <1>2 DEF SerialInv, Overlapping, Steady, At

\* A thread that stands still finds what it found.
LEMMA StaysSteady ==
  ASSUME NEW t \in Thread, Steady(t), th'[t] = th[t],
         \/ th[t].pc = "idle"
         \/ /\ proposal'[th[t].id] = proposal[th[t].id]
            /\ work'[th[t].id] = work[th[t].id]
            /\ th[t].pc \in Making => Open(th[t].ability)' \subseteq Open(th[t].ability)
  PROVE  Steady(t)'
<1>1. CASE th[t].pc = "idle"
  BY <1>1 DEF Steady, At
<1>2. CASE th[t].pc # "idle"
  <2>1. PICK a : a = th[t].ability
    OBVIOUS
  <2>2. th[t].pc \in Making /\ Open(a) = {} => Open(a)' = {}
    BY <1>2, <2>1
  <2> QED
    BY <1>2, <2>1, <2>2 DEF Steady, At, Making
<1> QED
  BY <1>1, <1>2

\* A request that only looks.
LEMMA BeginSerial ==
  ASSUME RowsInv, NEW t \in Thread, Begin(t)
  PROVE  /\ UNCHANGED <<proposal, work, ability, jobs>> /\ Others(t)
         /\ Steady(t) => Steady(t)'
<1>0. TypeOK
  BY DEF RowsInv, RowsBelongTogether
<1> USE DEF tables, At
<1>1. ASSUME NEW i \in Id, NEW kind \in IntentKind, NEW a \in Ability,
             RecordGap(t, i, kind, a)
      PROVE  /\ UNCHANGED <<proposal, work, ability, jobs>> /\ Others(t)
             /\ th'[t].pc \in {"idle", "find"}
  <2>1. th[t].pc = "idle" /\ UNCHANGED <<proposal, work, ability, jobs>>
    BY <1>1 DEF RecordGap
  <2>2. CASE th' = th
    BY <2>1, <2>2 DEF Others
  <2>3. CASE th' = [th EXCEPT ![t] = [Idle EXCEPT !.pc = "find", !.id = i, !.ability = a]]
    BY <1>0, <2>1, <2>3, BeginIs
  <2> QED
    BY <1>1, <2>2, <2>3 DEF RecordGap
<1>2. ASSUME NEW i \in Id, NEW v \in Verdict, CheckProposal(t, i, v)
      PROVE  /\ UNCHANGED <<proposal, work, ability, jobs>> /\ Others(t)
             /\ th'[t].pc = "write_proposal"
             /\ th'[t].verdict \in ProposalNext(proposal[th'[t].id])
  <2>1. /\ UNCHANGED <<proposal, work, ability, jobs>> /\ v \in ProposalNext(proposal[i])
        /\ th' = [th EXCEPT ![t] = [Idle EXCEPT !.pc = "write_proposal", !.id = i,
                                                !.verdict = v]]
    BY <1>2, Zenon DEF CheckProposal
  <2>2. /\ th'[t].pc = "write_proposal" /\ th'[t].id = i /\ th'[t].verdict = v
        /\ Others(t)
    BY <1>0, <2>1, BeginIs
  <2> QED
    BY <2>1, <2>2
<1>3. ASSUME NEW i \in Id, NEW goal \in UserGoals, CheckStatus(t, i, goal)
      PROVE  /\ UNCHANGED <<proposal, work, ability, jobs>> /\ Others(t)
             /\ th'[t].pc = "write_work" /\ th'[t].verdict = "none"
  BY <1>0, <1>3, BeginIs, ProposalAssumption DEF CheckStatus
<1>4. ASSUME NEW i \in Id, AskEnqueue(t, i) \/ AskRetry(t, i)
      PROVE  /\ UNCHANGED <<proposal, work, ability, jobs>> /\ Others(t)
             /\ th'[t].pc \in {"enqueue", "retry"}
             /\ th'[t].verdict = "none" /\ th'[t].goal = "none"
  <2>1. \E pc \in {"enqueue", "retry"} :
           th' = [th EXCEPT ![t] = [Idle EXCEPT !.pc = pc, !.id = i]]
    BY <1>4, Zenon DEF AskEnqueue, AskRetry
  <2>2. /\ th'[t].pc \in {"enqueue", "retry"} /\ Others(t)
        /\ th'[t].verdict = "none" /\ th'[t].goal = "none"
    BY <1>0, <2>1, AskIs
  <2> QED
    BY <1>4, <2>2 DEF AskEnqueue, AskRetry
<1> QED
  BY <1>1, <1>2, <1>3, <1>4 DEF Begin, Steady

\* A request that writes, writes rows of its own and holds on to what it found.
LEMMA StepSerial ==
  ASSUME RowsInv, NEW t \in Thread, Step(t), Steady(t)
  PROVE  /\ Others(t) /\ th[t].pc # "idle" /\ Steady(t)'
         /\ \A i \in Id \ {th[t].id} : proposal'[i] = proposal[i] /\ work'[i] = work[i]
         /\ \A a : \/ Open(a)' \subseteq Open(a)
                   \/ /\ a = th[t].ability /\ th[t].pc = "create_proposal"
                      /\ Open(a) = {} /\ Open(a)' = {th[t].id}
         /\ \A i \in Id : proposal[i] = "rejected" => proposal'[i] = "rejected"
         /\ \A i \in jobs' \ jobs :
              /\ t \in Queuers(i)
              /\ th[t].verdict # "none" => proposal[i] = "approved_for_dev"
              /\ th[t].goal # "none" => work[i] = "accepted"
<1> USE DEF tables, At
<1>0. TypeOK /\ ThreadIsSound(t)
  BY DEF RowsInv, RowsBelongTogether, ThreadsAreSound
<1>1. PICK i \in Id : i = th[t].id
  BY <1>0 DEF ThreadIsSound, Step, FindDuplicate, CreateWork, CreateProposal,
              WriteProposal, CheckWork, WriteWork, Enqueue, Retry
<1>2. ASSUME UNCHANGED <<proposal, ability>> PROVE \A a : Open(a)' = Open(a)
  BY <1>2 DEF Open
<1>3. CASE FindDuplicate(t)
  <2>1. UNCHANGED <<proposal, ability, work, jobs>> /\ th[t].pc = "find"
    BY <1>3 DEF FindDuplicate
  <2>2. \/ th'[t].pc = "idle" /\ Others(t)
        \/ Now(t, "create_work") /\ Open(th[t].ability) = {}
    BY <1>0, <1>3, GotoIs DEF FindDuplicate, PC
  <2>3. Steady(t)'
    BY <1>2, <2>1, <2>2 DEF Steady, Now
  <2> QED
    BY <1>2, <2>1, <2>2, <2>3 DEF Now
<1>4. CASE CreateWork(t)
  <2>1. /\ UNCHANGED <<proposal, ability, jobs>> /\ th[t].pc = "create_work"
        /\ Now(t, "create_proposal")
        /\ \A j \in Id \ {i} : work'[j] = work[j]
    BY <1>0, <1>1, <1>4, GotoIs DEF CreateWork, PC, TypeOK
  <2>2. Steady(t)'
    BY <1>2, <2>1 DEF Steady, Now
  <2> QED
    BY <1>1, <1>2, <2>1, <2>2 DEF Now
<1>5. CASE CreateProposal(t)
  <2>1. /\ UNCHANGED <<work, jobs>> /\ th[t].pc = "create_proposal"
        /\ th'[t].pc = "idle" /\ Others(t)
        /\ \/ /\ proposal' = [proposal EXCEPT ![i] = "proposed"]
              /\ ability' = [ability EXCEPT ![i] = th[t].ability]
           \/ UNCHANGED <<proposal, ability>>
    BY <1>0, <1>1, <1>5, GotoIs DEF CreateProposal
  <2>2. Steady(t)'
    BY <2>1 DEF Steady
  <2>3. Open(th[t].ability) = {} /\ proposal[i] = "absent"
    BY <1>0, <1>1, <2>1 DEF Steady, ThreadIsSound, Making
  <2>4. ASSUME NEW a
        PROVE  \/ Open(a)' \subseteq Open(a)
               \/ a = th[t].ability /\ Open(a) = {} /\ Open(a)' = {i}
    <3>1. CASE UNCHANGED <<proposal, ability>>
      BY <1>2, <3>1
    <3>2. CASE /\ proposal' = [proposal EXCEPT ![i] = "proposed"]
               /\ ability' = [ability EXCEPT ![i] = th[t].ability]
      <4>1. /\ proposal'[i] \in OpenStatus /\ ability'[i] = th[t].ability
            /\ \A j \in Id \ {i} : proposal'[j] = proposal[j] /\ ability'[j] = ability[j]
        BY <1>0, <3>2 DEF TypeOK, OpenStatus
      <4>2. CASE a = th[t].ability
        BY <1>1, <2>3, <4>1, <4>2 DEF Open
      <4>3. CASE a # th[t].ability
        BY <1>1, <4>1, <4>3 DEF Open
      <4> QED
        BY <4>2, <4>3
    <3> QED
      BY <2>1, <3>1, <3>2
  <2>5. \A j \in Id : proposal[j] = "rejected" => proposal'[j] = "rejected"
    BY <1>0, <2>1, <2>3 DEF TypeOK
  <2>6. \A j \in Id \ {i} : proposal'[j] = proposal[j]
    BY <1>0, <2>1 DEF TypeOK
  <2> QED
    BY <1>1, <2>1, <2>2, <2>4, <2>5, <2>6
<1>6. CASE WriteProposal(t)
  <2>1. /\ UNCHANGED <<ability, work, jobs>> /\ th[t].pc = "write_proposal"
        /\ Now(t, "check_work")
        /\ proposal' = [proposal EXCEPT ![i] = th[t].verdict]
    BY <1>0, <1>1, <1>6, GotoIs DEF WriteProposal, PC
  <2>2. /\ th[t].verdict \in ProposalNext(proposal[i]) /\ th[t].verdict \in Verdict
    BY <1>0, <1>1, <2>1 DEF Steady, ThreadIsSound, Making
  <2>3. proposal[i] \in OpenStatus
    BY <2>2 DEF ProposalNext, Verdict, OpenStatus
  <2>4. /\ proposal'[i] = th[t].verdict
        /\ \A j \in Id \ {i} : proposal'[j] = proposal[j]
    BY <1>0, <2>1 DEF TypeOK
  <2>5. Steady(t)'
    BY <1>1, <2>1, <2>2, <2>4 DEF Steady, Now
  <2>6. \A a : Open(a)' \subseteq Open(a)
    BY <2>1, <2>3, <2>4 DEF Open
  <2> QED
    BY <1>1, <2>1, <2>3, <2>4, <2>5, <2>6 DEF Now, OpenStatus
<1>7. CASE CheckWork(t)
  <2>1. UNCHANGED <<proposal, ability, work, jobs>> /\ th[t].pc = "check_work"
    BY <1>7 DEF CheckWork
  <2>2. CASE Return(t)
    <3>1. th'[t].pc = "idle" /\ Others(t)
      BY <1>0, <2>2, GotoIs
    <3> QED
      BY <1>2, <2>1, <3>1 DEF Steady
  <2>3. ASSUME th' = [th EXCEPT ![t].pc = "write_work", ![t].goal = WorkGoal(th[t].verdict)]
        PROVE  /\ Others(t) /\ th'[t].pc = "write_work" /\ th'[t].id = th[t].id
               /\ th'[t].verdict = th[t].verdict /\ th'[t].goal = WorkGoal(th[t].verdict)
    <3>1. PICK x : x = [th[t] EXCEPT !.pc = "write_work", !.goal = WorkGoal(th[t].verdict)]
      OBVIOUS
    <3>2. th' = [th EXCEPT ![t] = x]
      BY <2>3, <3>1, Zenon
    <3>3. th[t] \in ThreadState /\ th \in [Thread -> ThreadState]
      BY <1>0 DEF TypeOK
    <3>4. /\ x.pc = "write_work" /\ x.goal = WorkGoal(th[t].verdict) /\ x.id = th[t].id
          /\ x.verdict = th[t].verdict
      BY <3>1, <3>3 DEF ThreadState
    <3> QED
      BY <3>2, <3>3, <3>4 DEF Others
  <2>4. CASE th' = [th EXCEPT ![t].pc = "write_work", ![t].goal = WorkGoal(th[t].verdict)]
    <3>1. Steady(t)'
      BY <2>1, <2>3, <2>4 DEF Steady
    <3> QED
      BY <1>2, <2>1, <2>3, <2>4, <3>1
  <2> QED
    BY <1>7, <2>2, <2>4 DEF CheckWork
<1>8. CASE WriteWork(t)
  <2>1. /\ UNCHANGED <<proposal, ability, jobs>> /\ th[t].pc = "write_work"
        /\ work'[i] = th[t].goal /\ \A j \in Id \ {i} : work'[j] = work[j]
        /\ \/ th'[t].pc = "idle" /\ Others(t)
           \/ Now(t, "enqueue") /\ th[t].goal = "accepted"
    BY <1>0, <1>1, <1>8, GotoIs DEF WriteWork, PC, TypeOK
  <2>2. th[t].verdict \in Verdict \cup {"none"}
    BY <1>0 DEF TypeOK, ThreadState
  <2>3. Steady(t)'
    BY <1>1, <2>1, <2>2 DEF Steady, Now, WorkGoal, Verdict
  <2> QED
    BY <1>1, <1>2, <2>1, <2>3 DEF Now
<1>9. CASE Enqueue(t)
  <2>1. /\ UNCHANGED <<proposal, ability, work>> /\ th[t].pc = "enqueue"
        /\ jobs' \subseteq jobs \cup {i}
        /\ th'[t].pc = "idle" /\ Others(t)
    BY <1>0, <1>1, <1>9, GotoIs DEF Enqueue
  <2> QED
    BY <1>1, <1>2, <2>1 DEF Steady, Queuers
<1>10. CASE Retry(t)
  <2>1. /\ UNCHANGED <<proposal, ability>> /\ th[t].pc = "retry"
        /\ jobs' \subseteq jobs \cup {i}
        /\ \A j \in Id \ {i} : work'[j] = work[j]
        /\ th'[t].pc = "idle" /\ Others(t)
    BY <1>0, <1>1, <1>10, GotoIs DEF Retry, TypeOK
  <2> QED
    BY <1>1, <1>2, <2>1 DEF Steady, Queuers
<1> QED
  BY <1>3, <1>4, <1>5, <1>6, <1>7, <1>8, <1>9, <1>10 DEF Step

\* A step about one thing leaves those about others steady.
LEMMA NextSerial ==
  RowsInv /\ SerialInv /\ [HistoryNext]_<<vars, overlapped>> => SerialInv'
<1> SUFFICES ASSUME RowsInv, SerialInv, [HistoryNext]_<<vars, overlapped>>, ~overlapped'
             PROVE  /\ ~Overlapping'
                    /\ \A t \in Thread : Steady(t)'
                    /\ \A a \in Ability : \A i, j \in Open(a)' : i = j
  BY DEF SerialInv
<1> USE DEF tables, At
<1>1. CASE UNCHANGED <<vars, overlapped>>
  <2>1. \A t \in Thread : Steady(t) => Steady(t)'
    BY <1>1, StaysSteady DEF vars, Open
  <2> QED
    BY <1>1, <2>1 DEF vars, SerialInv, Overlapping, Open
<1>2. CASE HistoryNext
  <2>1. ~overlapped /\ ~Overlapping' /\ Next
    BY <1>2 DEF HistoryNext
  <2>2. /\ ~Overlapping /\ \A t \in Thread : Steady(t)
        /\ \A a \in Ability : \A i, j \in Open(a) : i = j
    BY <2>1 DEF SerialInv
  <2>3. CASE Crash
    <3>1. UNCHANGED <<proposal, ability>> /\ \A t \in Thread : th'[t].pc = "idle"
      BY <2>3 DEF Crash, Idle
    <3> QED
      BY <2>1, <2>2, <3>1 DEF Steady, Open
  <2>4. ASSUME NEW t \in Thread, Begin(t)
        PROVE  /\ \A u \in Thread : Steady(u)'
               /\ \A a \in Ability : \A i, j \in Open(a)' : i = j
    <3>1. UNCHANGED <<proposal, work, ability>> /\ Others(t) /\ Steady(t)'
      BY <2>2, <2>4, BeginSerial
    <3>2. \A a : Open(a)' = Open(a)
      BY <3>1 DEF Open
    <3>3. \A u \in Thread \ {t} : Steady(u)'
      BY <2>2, <3>1, <3>2, StaysSteady DEF Others
    <3> QED
      BY <2>2, <3>1, <3>2, <3>3
  <2>5. ASSUME NEW t \in Thread, Step(t)
        PROVE  /\ \A u \in Thread : Steady(u)'
               /\ \A a \in Ability : \A i, j \in Open(a)' : i = j
    <3>1. /\ Others(t) /\ th[t].pc # "idle" /\ Steady(t)'
          /\ \A i \in Id \ {th[t].id} : proposal'[i] = proposal[i] /\ work'[i] = work[i]
          /\ \A a : \/ Open(a)' \subseteq Open(a)
                    \/ /\ a = th[t].ability /\ th[t].pc = "create_proposal"
                       /\ Open(a) = {} /\ Open(a)' = {th[t].id}
      BY <2>2, <2>5, StepSerial
    <3>2. ASSUME NEW u \in Thread \ {t} PROVE Steady(u)'
      <4>1. th'[u] = th[u] /\ Steady(u) /\ ThreadIsSound(u) /\ ThreadIsSound(t)
        BY <2>2, <3>1, <3>2 DEF Others, RowsInv, ThreadsAreSound
      <4>2. CASE th[u].pc # "idle"
        <5>1. th[u].id \in Id /\ th[u].id # th[t].id
          BY <2>2, <3>1, <4>1, <4>2 DEF Overlapping, ThreadIsSound
        <5>2. ASSUME th[u].pc \in Making
              PROVE  Open(th[u].ability)' \subseteq Open(th[u].ability)
          <6>1. th[u].ability \in Ability /\ th[u].ability # None
            BY <4>1, <5>2, ProposalAssumption DEF ThreadIsSound
          <6>2. th[u].ability # th[t].ability
            BY <2>2, <3>1, <4>2, <6>1 DEF Overlapping
          <6>3. PICK a : a = th[u].ability
            OBVIOUS
          <6>4. Open(a)' \subseteq Open(a)
            BY <3>1, <6>2, <6>3
          <6> QED
            BY <4>1, <6>3, <6>4
        <5> QED
          BY <3>1, <4>1, <5>1, <5>2, StaysSteady
      <4>3. CASE th[u].pc = "idle"
        BY <4>1, <4>3, StaysSteady
      <4> QED
        BY <4>2, <4>3
    <3>3. ASSUME NEW a \in Ability, NEW i \in Open(a)', NEW j \in Open(a)' PROVE i = j
      <4>1. CASE Open(a)' \subseteq Open(a)
        BY <2>2, <3>3, <4>1
      <4>2. CASE Open(a)' = {th[t].id}
        BY <3>3, <4>2
      <4> QED
        BY <3>1, <4>1, <4>2
    <3> QED
      BY <3>1, <3>2, <3>3
  <2> QED
    BY <2>1, <2>3, <2>4, <2>5 DEF Next
<1> QED
  BY <1>1, <1>2

LEMMA SerialAlways == HistorySpec => [](RowsInv /\ SerialInv)
<1>1. HistoryInit => RowsInv /\ SerialInv
  BY InitRows, InitSerial DEF HistoryInit
<1>2. RowsInv /\ SerialInv /\ [HistoryNext]_<<vars, overlapped>> => (RowsInv /\ SerialInv)'
  BY NextRows, NextSerial DEF HistoryNext
<1> QED
  BY <1>1, <1>2, PTL DEF HistorySpec

-----------------------------------------------------------------------------
\* As long as no two requests for an ability look at the same time, it has one open
\* proposal at most, crashes between the commits included
\* (harness/capability_service.py, _find_duplicate).
THEOREM OneProposalIsOpen == HistorySpec => []OneOpenWhenSerial
<1>1. SerialInv => OneOpenWhenSerial
  <2> SUFFICES ASSUME SerialInv, ~overlapped, NEW a \in Ability
               PROVE  Cardinality(Open(a)) <= 1
    BY DEF OneOpenWhenSerial
  <2>1. \A i, j \in Open(a) : i = j
    BY DEF SerialInv
  <2>2. CASE Open(a) = {}
    BY <2>2, FS_EmptySet
  <2>3. CASE Open(a) # {}
    <3>1. PICK i \in Open(a) : Open(a) = {i}
      BY <2>1, <2>3
    <3>2. Cardinality(Open(a)) = 1
      BY <3>1, FS_Singleton, Zenon
    <3> QED
      BY <3>2
  <2> QED
    BY <2>2, <2>3
<1> QED
  BY <1>1, SerialAlways, PTL

\* As long as requests about a proposal come one by one, a verdict makes a job only
\* for a proposal that stands approved, a change of status only for a work item that
\* stands accepted, all others are asked for by name, and a rejected proposal stays
\* rejected (transition in harness/capability_service.py; transition, enqueue and
\* retry in harness/work_service.py).
THEOREM VerdictsAlwaysHold == HistorySpec => VerdictsHold
<1>1. RowsInv /\ SerialInv /\ [HistoryNext]_<<vars, overlapped>> =>
        [VerdictStands]_<<vars, overlapped>>
  <2> DEFINE Stand ==
        /\ \A i \in jobs' \ jobs : \E t \in Queuers(i) :
             /\ th[t].verdict # "none" => proposal[i] = "approved_for_dev"
             /\ th[t].goal # "none" => work[i] = "accepted"
        /\ \A i \in Id : proposal[i] = "rejected" => proposal'[i] = "rejected"
  <2> SUFFICES ASSUME RowsInv, SerialInv, HistoryNext, ~overlapped' PROVE Stand
    BY DEF VerdictStands
  <2>1. \A t \in Thread : Steady(t)
    BY DEF HistoryNext, SerialInv
  <2>2. CASE Crash
    BY <2>2 DEF Crash, tables
  <2>3. ASSUME NEW t \in Thread, Begin(t) PROVE Stand
    <3>1. UNCHANGED <<proposal, jobs>>
      BY <2>3, BeginSerial
    <3> QED
      BY <3>1
  <2>4. ASSUME NEW t \in Thread, Step(t) PROVE Stand
    <3>1. /\ \A i \in jobs' \ jobs :
               /\ t \in Queuers(i)
               /\ th[t].verdict # "none" => proposal[i] = "approved_for_dev"
               /\ th[t].goal # "none" => work[i] = "accepted"
          /\ \A i \in Id : proposal[i] = "rejected" => proposal'[i] = "rejected"
      BY <2>1, <2>4, StepSerial
    <3> QED
      BY <3>1
  <2> QED
    BY <2>2, <2>3, <2>4 DEF HistoryNext, Next
<1> QED
  BY <1>1, SerialAlways, PTL DEF HistorySpec, VerdictsHold
=============================================================================
