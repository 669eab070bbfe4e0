---------------------------- MODULE EpisodeProofs ----------------------------
(***************************************************************************)
(* Proofs about Episode and EpisodeReplay, for worlds of every kind and    *)
(* size.                                                                   *)
(***************************************************************************)
EXTENDS EpisodeReplay, FiniteSetTheorems, WellFoundedInduction, TLAPS

-----------------------------------------------------------------------------
(* Worlds and their states.                                                *)

ActionName == {"inspect", "reset", "press", "move", "search", "read", "summarize"}

\* A state of a world: TypeOK, and that it has these fields and no others.  In two
\* worlds every slot is known.
IsState(w, s) ==
    /\ s \in [progress : 0..Len(w.goal), steps : 0..w.max, known : SUBSET Slots(w),
              seen : {<<>>} \cup (ActionName \X Slots(w)), armed : BOOLEAN,
              done : BOOLEAN]
    /\ s.seen # <<>> => s.seen[2] \in s.known
    /\ w.kind \in {"trap", "precondition"} => s.known = Slots(w)

\* A state in which an action may be chosen.
IsOpen(w, s) == IsState(w, s) /\ s.progress < Len(w.goal)

LEMMA GoalHasSlots ==
  ASSUME NEW w, IsWorld(w)
  PROVE  /\ Slots(w) = 1..Len(w.goal) /\ Len(w.goal) \in Nat \ {0}
         /\ \A n \in Slots(w) : w.goal[n] \in GoalActions(w)
BY DEF IsWorld, Slots

\* The three shapes of a world.
LEMMA Shapes ==
  ASSUME NEW w, IsWorld(w)
  PROVE  /\ Lock(w) => ~Maze(w) /\ ~Tool(w)
         /\ Maze(w) => ~Lock(w) /\ ~Tool(w)
         /\ Tool(w) => ~Lock(w) /\ ~Maze(w)
         /\ Lock(w) \/ Maze(w) \/ Tool(w)
BY DEF IsWorld, Lock, Maze, Tool, Kind

-----------------------------------------------------------------------------
(* What actions do.                                                        *)

\* A state that differs from s in what actions change.
Became(s, progress, known, seen, armed) ==
    [progress |-> progress, steps |-> s.steps, known |-> known, seen |-> seen,
     armed |-> armed, done |-> s.done]

LEMMA Changes ==
  ASSUME NEW w, NEW s, IsState(w, s)
  PROVE  /\ s = Became(s, s.progress, s.known, s.seen, s.armed)
         /\ Forward(s) = Became(s, s.progress + 1, s.known, s.seen, s.armed)
         /\ Back(s) = Became(s, IF s.progress > 0 THEN s.progress - 1 ELSE 0,
                             s.known, s.seen, s.armed)
         /\ ToStart(s) = Became(s, 0, s.known, s.seen, s.armed)
         /\ Reveal(s) = Became(s, s.progress, s.known \cup {s.progress + 1},
                               s.seen, s.armed)
<1>1. s = Became(s, s.progress, s.known, s.seen, s.armed)
  BY DEF IsState, Became
<1> QED
  BY <1>1 DEF Became, Forward, Back, ToStart, Reveal

LEMMA Rearmed ==
  ASSUME NEW s, NEW p, NEW k, NEW o, NEW b, NEW c
  PROVE  [Became(s, p, k, o, b) EXCEPT !.armed = c] = Became(s, p, k, o, c)
BY DEF Became

LEMMA Disarmed ==
  ASSUME NEW s, NEW p, NEW k, NEW o, NEW b
  PROVE  Unarmed(Became(s, p, k, o, b)) = Became(s, p, k, o, FALSE)
<1> DEFINE c == FALSE
<1> HIDE DEF c
<1>1. [Became(s, p, k, o, b) EXCEPT !.armed = c] = Became(s, p, k, o, c)
  BY Rearmed
<1> QED
  BY <1>1 DEF c, Unarmed

\* The right action is the next one of the goal.
LEMMA RightIs ==
  ASSUME NEW w, IsWorld(w), NEW s, IsOpen(w, s), NEW a
  PROVE  /\ s.progress + 1 \in Slots(w)
         /\ Right(w, s, a) => a \in GoalActions(w)
         /\ w.kind \in {"trap", "precondition"} => ~SlotUnknown(w, s)
<1>1. s.progress + 1 \in Slots(w)
  BY GoalHasSlots DEF IsOpen, IsState
<1> QED
  BY <1>1, GoalHasSlots DEF Right, IsOpen, IsState, SlotUnknown

LEMMA GoalNames ==
  ASSUME NEW w, IsWorld(w), NEW a \in GoalActions(w)
  PROVE  /\ Lock(w) => Name(a) = "press"
         /\ Maze(w) => Name(a) = "move"
         /\ Tool(w) => Name(a) \in {"search", "read", "summarize"}
         /\ w.kind = "precondition" => Name(a) # "search"
         /\ Name(Inspect) = "inspect" /\ Name(Reset) = "reset"
<1>1. \A d : Name(Press(d)) = "press" /\ Name(Move(d)) = "move" /\ Name(Use(d)) = d
  BY DEF Name, Press, Move, Use
<1>2. Name(Inspect) = "inspect" /\ Name(Reset) = "reset"
  BY DEF Name, Inspect, Reset
<1>3. /\ Tool(w) <=> w.kind \in {"tool", "precondition"}
      /\ Lock(w) <=> w.kind \in {"lock", "trap"}
      /\ Maze(w) <=> w.kind \in {"maze", "hazard"}
  BY DEF Tool, Lock, Maze
<1>4. CASE Lock(w)
  <2>1. PICK d \in 1..4 : a = Press(d)
    BY <1>3, <1>4 DEF GoalActions
  <2>2. Name(a) = "press"
    BY <1>1, <2>1
  <2> QED
    BY <1>2, <1>3, <1>4, <2>2
<1>5. CASE Maze(w)
  <2>1. PICK n \in DOMAIN w.doors : a = Move(w.doors[n])
    BY <1>3, <1>5 DEF GoalActions
  <2>2. Name(a) = "move"
    BY <1>1, <2>1
  <2> QED
    BY <1>2, <1>3, <1>5, <2>2
<1>6. CASE w.kind = "tool"
  <2>1. a \in {Use("search"), Use("read"), Use("summarize")}
    BY <1>3, <1>6 DEF GoalActions
  <2>2. Name(a) \in {"search", "read", "summarize"}
    BY <1>1, <2>1
  <2> QED
    BY <1>2, <1>3, <1>6, <2>2
<1>7. CASE w.kind = "precondition"
  <2>1. a \in {Use("read"), Use("summarize")}
    BY <1>3, <1>7 DEF GoalActions
  <2>2. Name(a) \in {"read", "summarize"}
    BY <1>1, <2>1
  <2> QED
    BY <1>2, <1>3, <1>7, <2>2
<1> QED
  BY <1>3, <1>4, <1>5, <1>6, <1>7, Shapes

LEMMA LockEffectIs ==
  ASSUME NEW w, IsWorld(w), Lock(w), NEW s, IsOpen(w, s), NEW a
  PROVE  Effect(w, s, a) =
           Became(s, IF a = Inspect THEN s.progress
                     ELSE IF a # Reset /\ Right(w, s, a) /\ ~s.armed
                             THEN s.progress + 1 ELSE 0,
                 IF a = Inspect THEN s.known \cup {s.progress + 1} ELSE s.known,
                 IF a = Inspect /\ w.kind = "lock"
                    THEN <<Name(a), s.progress + 1>> ELSE s.seen,
                 IF a = Inspect THEN FALSE
                 ELSE IF a = Reset THEN w.kind = "trap" ELSE s.armed)
<1>1. Effect(w, s, a) = LockEffect(w, s, a)
  BY Shapes DEF Effect
<1>2. Inspect # Reset
  BY DEF Inspect, Reset
<1>3. w.kind \in {"lock", "trap"}
  BY DEF Lock
<1>4. CASE a = Inspect
  <2>1. Effect(w, s, a) = Unarmed(Observe(w, s, a))
    BY <1>1, <1>2, <1>4, RightIs, GoalNames DEF LockEffect
  <2>2. Reveal(s) = Became(s, s.progress, s.known \cup {s.progress + 1}, s.seen,
                          s.armed)
    BY Changes DEF IsOpen
  <2>3. Observe(w, s, a) =
          Became(s, s.progress, s.known \cup {s.progress + 1},
                 IF w.kind = "lock" THEN <<Name(a), s.progress + 1>> ELSE s.seen,
                 s.armed)
    BY <1>3, <2>2 DEF Observe, Became
  <2>4. Effect(w, s, a) =
          Became(s, s.progress, s.known \cup {s.progress + 1},
                 IF w.kind = "lock" THEN <<Name(a), s.progress + 1>> ELSE s.seen,
                 FALSE)
    BY <2>1, <2>3, Disarmed
  <2> QED
    BY <1>4, <2>4
<1>5. CASE a = Reset
  <2>1. Effect(w, s, a) = [ToStart(s) EXCEPT !.armed = w.kind = "trap"]
    BY <1>1, <1>2, <1>5, RightIs, GoalNames DEF LockEffect
  <2>2. ToStart(s) = Became(s, 0, s.known, s.seen, s.armed)
    BY Changes DEF IsOpen
  <2>3. Effect(w, s, a) = Became(s, 0, s.known, s.seen, w.kind = "trap")
    BY <2>1, <2>2 DEF Became
  <2> QED
    BY <1>2, <1>5, <2>3
<1>6. CASE a # Inspect /\ a # Reset
  BY <1>1, <1>6, Changes DEF LockEffect, IsOpen
<1> QED
  BY <1>4, <1>5, <1>6

LEMMA MazeEffectIs ==
  ASSUME NEW w, IsWorld(w), Maze(w), NEW s, IsOpen(w, s), NEW a
  PROVE  Effect(w, s, a) =
           Became(s, IF a # Inspect /\ Right(w, s, a) /\ ~s.armed
                         /\ (w.kind = "hazard" \/ 1 \in s.known)
                       THEN s.progress + 1 ELSE s.progress,
                 IF a = Inspect THEN s.known \cup {s.progress + 1} ELSE s.known,
                 s.seen,
                 IF a = Inspect THEN FALSE ELSE s.armed)
<1>1. Effect(w, s, a) = MazeEffect(w, s, a)
  BY Shapes DEF Effect
<1>2. CASE a = Inspect
  <2>1. Effect(w, s, a) = Unarmed(Reveal(s))
    BY <1>1, <1>2, RightIs, GoalNames DEF MazeEffect
  <2>2. Reveal(s) = Became(s, s.progress, s.known \cup {s.progress + 1}, s.seen,
                          s.armed)
    BY Changes DEF IsOpen
  <2>3. Effect(w, s, a) =
          Became(s, s.progress, s.known \cup {s.progress + 1}, s.seen, FALSE)
    BY <2>1, <2>2, Disarmed
  <2> QED
    BY <1>2, <2>3
<1>3. CASE a # Inspect
  BY <1>1, <1>3, Changes DEF MazeEffect, IsOpen
<1> QED
  BY <1>2, <1>3

\* search in a chain that has a precondition.
SetsUp(w, a) == w.kind = "precondition" /\ Name(a) = "search"

LEMMA ToolEffectIs ==
  ASSUME NEW w, IsWorld(w), Tool(w), NEW s, IsOpen(w, s), NEW a
  PROVE  Effect(w, s, a) =
           Became(s, IF Revealing(w, s, a) \/ SetsUp(w, a) THEN s.progress
                     ELSE IF Right(w, s, a) /\ ~s.armed THEN s.progress + 1
                     ELSE IF s.progress > 0 THEN s.progress - 1 ELSE 0,
                 IF Revealing(w, s, a) THEN s.known \cup {s.progress + 1} ELSE s.known,
                 IF Revealing(w, s, a) /\ w.kind = "tool"
                    THEN <<Name(a), s.progress + 1>> ELSE s.seen,
                 IF ~Revealing(w, s, a) /\ SetsUp(w, a) THEN FALSE ELSE s.armed)
<1>1. Effect(w, s, a) = ToolEffect(w, s, a)
  BY Shapes DEF Effect
<1>2. w.kind \in {"tool", "precondition"}
  BY DEF Tool
<1>3. CASE Revealing(w, s, a)
  <2>1. Reveal(s) = Became(s, s.progress, s.known \cup {s.progress + 1}, s.seen,
                          s.armed)
    BY Changes DEF IsOpen
  <2>2. Effect(w, s, a) = Observe(w, s, a)
    BY <1>1, <1>3, RightIs DEF ToolEffect, Revealing
  <2>3. Effect(w, s, a) =
          Became(s, s.progress, s.known \cup {s.progress + 1},
                 IF w.kind = "tool" THEN <<Name(a), s.progress + 1>> ELSE s.seen,
                 s.armed)
    BY <1>2, <2>1, <2>2 DEF Observe, Became
  <2> QED
    BY <1>3, <2>3
<1>4. CASE ~Revealing(w, s, a) /\ SetsUp(w, a)
  <2>1. Effect(w, s, a) = Unarmed(s)
    BY <1>1, <1>4, RightIs, GoalNames DEF ToolEffect, SetsUp
  <2>2. s = Became(s, s.progress, s.known, s.seen, s.armed)
    BY Changes DEF IsOpen
  <2>3. Unarmed(Became(s, s.progress, s.known, s.seen, s.armed)) =
          Became(s, s.progress, s.known, s.seen, FALSE)
    BY Disarmed
  <2>4. Effect(w, s, a) = Became(s, s.progress, s.known, s.seen, FALSE)
    BY <2>1, <2>2, <2>3, Zenon
  <2> QED
    BY <1>4, <2>4
<1>5. CASE ~Revealing(w, s, a) /\ ~SetsUp(w, a)
  BY <1>1, <1>5, Changes DEF ToolEffect, IsOpen, SetsUp
<1> QED
  BY <1>3, <1>4, <1>5

-----------------------------------------------------------------------------
(* What the candidates are.                                                *)

\* A set of numbers that is not empty has a least one.
LEMMA LeastNumber ==
  ASSUME NEW S \in SUBSET Nat, S # {}
  PROVE  \E m \in S : \A k \in S : m =< k
<1>1. PICK m \in S : \A k \in S : <<k, m>> \notin OpToRel(<, Nat)
  BY WFMin, NatLessThanWellFounded, Zenon
<1>2. \A k \in S : ~(k < m)
  BY <1>1, Zenon DEF OpToRel
<1> QED
  BY <1>2

\* Of the members of a set of numbers, one is the n-th in order.
LEMMA NthMember ==
  ASSUME NEW N \in Nat, NEW F \in SUBSET (1..N), NEW n \in 1..Cardinality(F)
  PROVE  \E m \in F : Cardinality(F \cap 1..m) = n
<1> DEFINE C(m) == Cardinality(F \cap 1..m)
           S == {m \in 0..N : C(m) >= n}
<1>1. IsFiniteSet(F) /\ \A m \in 0..N : IsFiniteSet(F \cap 1..m) /\ C(m) \in Nat
  <2>1. IsFiniteSet(1..N)
    BY FS_Interval
  <2>2. IsFiniteSet(F)
    BY <2>1, FS_Subset
  <2>3. \A m \in 0..N : IsFiniteSet(F \cap 1..m)
    BY <2>2, FS_Subset
  <2> QED
    BY <2>2, <2>3, FS_CardinalityType
<1>2. N \in S
  <2>1. F \cap 1..N = F
    OBVIOUS
  <2> QED
    BY <2>1
<1>3. PICK m \in S : \A k \in S : m =< k
  <2>1. S \in SUBSET Nat
    OBVIOUS
  <2> HIDE DEF S
  <2> QED
    BY <1>2, <2>1, LeastNumber
<1> HIDE DEF S
<1>4. m \in 0..N /\ C(m) >= n /\ \A k \in 0..N : k < m => ~(C(k) >= n)
  BY <1>3 DEF S
<1>5. m # 0
  <2>1. F \cap 1..0 = {}
    OBVIOUS
  <2> QED
    BY <1>4, <2>1, FS_EmptySet
<1>6. C(m - 1) < n
  BY <1>1, <1>4, <1>5
<1>7. F \cap 1..m = IF m \in F THEN (F \cap 1..(m - 1)) \cup {m} ELSE F \cap 1..(m - 1)
  BY <1>4, <1>5
<1>8. C(m) = IF m \in F THEN C(m - 1) + 1 ELSE C(m - 1)
  <2>1. m - 1 \in 0..N /\ m \notin F \cap 1..(m - 1)
    BY <1>4, <1>5
  <2>2. IsFiniteSet(F \cap 1..(m - 1))
    BY <1>1, <2>1
  <2>3. Cardinality((F \cap 1..(m - 1)) \cup {m}) = C(m - 1) + 1
    BY <2>1, <2>2, FS_AddElement
  <2> QED
    BY <1>7, <2>3
<1>9. C(m) \in Nat /\ C(m - 1) \in Nat /\ n \in Nat
  BY <1>1, <1>4, <1>5, FS_CardinalityType
<1> HIDE DEF C
<1>10. m \in F /\ C(m) = n
  BY <1>4, <1>6, <1>8, <1>9
<1> QED
  BY <1>10 DEF C

\* ... and no two are.
LEMMA NthIsOne ==
  ASSUME NEW N \in Nat, NEW F \in SUBSET (1..N), NEW m \in F, NEW k \in F
  PROVE  /\ Cardinality(F \cap 1..m) \in 1..Cardinality(F)
         /\ Cardinality(F \cap 1..m) = Cardinality(F \cap 1..k) => m = k
<1>1. IsFiniteSet(F)
  <2>1. IsFiniteSet(1..N)
    BY FS_Interval
  <2> QED
    BY <2>1, FS_Subset
<1>2. \A i \in F : IsFiniteSet(F \cap 1..i)
  BY <1>1, FS_Subset
<1>3. \A i, j \in F : i < j => Cardinality(F \cap 1..i) # Cardinality(F \cap 1..j)
  <2> SUFFICES ASSUME NEW i \in F, NEW j \in F, i < j,
                      Cardinality(F \cap 1..i) = Cardinality(F \cap 1..j)
               PROVE  FALSE
    OBVIOUS
  <2>1. F \cap 1..i \in SUBSET (F \cap 1..j)
    OBVIOUS
  <2>2. F \cap 1..i = F \cap 1..j
    BY <1>2, <2>1, FS_Subset
  <2>3. j \in F \cap 1..j /\ j \notin F \cap 1..i
    OBVIOUS
  <2> QED
    BY <2>2, <2>3
<1>4. Cardinality(F \cap 1..m) \in 1..Cardinality(F)
  <2>1. Cardinality(F \cap 1..m) \in Nat /\ Cardinality(F) \in Nat
    BY <1>1, <1>2, FS_CardinalityType
  <2>2. Cardinality(F \cap 1..m) =< Cardinality(F)
    BY <1>1, FS_Subset
  <2>3. m \in F \cap 1..m
    OBVIOUS
  <2>4. Cardinality(F \cap 1..m) # 0
    BY <1>2, <2>3, FS_EmptySet
  <2> QED
    BY <2>1, <2>2, <2>4
<1> QED
  BY <1>3, <1>4

\* A tool chain offers the tools of its goal.
LEMMA ToolOffers ==
  ASSUME NEW w, IsWorld(w), w.kind = "tool", NEW s
  PROVE  /\ DOMAIN Candidates(w, s) = 1..Cardinality(FirstUses(w))
         /\ Cardinality(FirstUses(w)) \in Nat \ {0}
         /\ \A n \in DOMAIN Candidates(w, s) :
              \E m \in Slots(w) : Candidates(w, s)[n] = w.goal[m]
         /\ \A m \in Slots(w) :
              \E n \in DOMAIN Candidates(w, s) : Candidates(w, s)[n] = w.goal[m]
<1> DEFINE F == FirstUses(w)
           nth(n) == CHOOSE m \in F : Cardinality(F \cap 1..m) = n
<1>1. F \in SUBSET (1..Len(w.goal)) /\ Len(w.goal) \in Nat \ {0} /\ Slots(w) = 1..Len(w.goal)
  BY GoalHasSlots DEF FirstUses, Slots
<1>2. Candidates(w, s) = [n \in 1..Cardinality(F) |-> w.goal[nth(n)]]
  BY DEF Candidates, Lock, Maze
<1>3. \A n \in 1..Cardinality(F) : nth(n) \in F /\ Cardinality(F \cap 1..nth(n)) = n
  BY <1>1, NthMember
<1>4. \A m \in Slots(w) : \E k \in F : w.goal[k] = w.goal[m]
  <2> TAKE m \in Slots(w)
  <2> DEFINE S == {k \in Slots(w) : w.goal[k] = w.goal[m]}
  <2>1. PICK k \in S : \A j \in S : k =< j
    <3>1. S \in SUBSET Nat /\ m \in S
      BY <1>1
    <3> HIDE DEF S
    <3> QED
      BY <3>1, LeastNumber
  <2>2. \A j \in 1..(k - 1) : w.goal[j] # w.goal[k]
    BY <1>1, <2>1
  <2> QED
    BY <2>1, <2>2 DEF FirstUses, Slots
<1> HIDE DEF F, nth
<1>5. \A k \in F : \E n \in 1..Cardinality(F) : nth(n) = k
  <2> TAKE k \in F
  <2> DEFINE n == Cardinality(F \cap 1..k)
  <2>1. n \in 1..Cardinality(F)
    BY <1>1, NthIsOne
  <2>2. nth(n) \in F /\ Cardinality(F \cap 1..nth(n)) = n
    BY <1>3, <2>1
  <2>3. nth(n) = k
    BY <1>1, <2>2, NthIsOne, ZenonT(30)
  <2> QED
    BY <2>1, <2>3
<1>6. Cardinality(F) \in Nat \ {0}
  <2>1. PICK k \in F : w.goal[k] = w.goal[1]
    BY <1>1, <1>4
  <2>2. IsFiniteSet(F)
    <3>1. IsFiniteSet(1..Len(w.goal))
      BY <1>1, FS_Interval
    <3> QED
      BY <1>1, <3>1, FS_Subset
  <2> QED
    BY <2>1, <2>2, FS_CardinalityType, FS_EmptySet
<1>7. \A n \in 1..Cardinality(F) : Candidates(w, s)[n] = w.goal[nth(n)]
  BY <1>2
<1>8. DOMAIN Candidates(w, s) = 1..Cardinality(F)
  BY <1>2
<1>9. \A n \in DOMAIN Candidates(w, s) : nth(n) \in Slots(w)
  BY <1>1, <1>3, <1>8
<1>10. \A m \in Slots(w) :
         \E n \in DOMAIN Candidates(w, s) : Candidates(w, s)[n] = w.goal[m]
  <2> TAKE m \in Slots(w)
  <2>1. PICK k \in F : w.goal[k] = w.goal[m]
    BY <1>4
  <2>2. PICK n \in 1..Cardinality(F) : nth(n) = k
    BY <1>5
  <2> QED
    BY <1>7, <1>8, <2>1, <2>2
<1> QED
  BY <1>6, <1>7, <1>8, <1>9, <1>10 DEF F

\* The candidates are inspect, reset and the four digits, inspect and the doors, or
\* tools; all of them are actions of the world.
LEMMA CandidatesAre ==
  ASSUME NEW w, IsWorld(w), NEW s, NEW a \in ToSet(Candidates(w, s))
  PROVE  /\ Lock(w) => a \in {Inspect, Reset} \cup GoalActions(w)
         /\ Maze(w) => a \in {Inspect} \cup GoalActions(w)
         /\ w.kind = "tool" => \E m \in Slots(w) : a = w.goal[m]
         /\ w.kind = "precondition" => a \in {Use("search")} \cup GoalActions(w)
<1>1. PICK n \in DOMAIN Candidates(w, s) : a = Candidates(w, s)[n]
  BY DEF ToSet
<1>2. /\ Tool(w) <=> w.kind \in {"tool", "precondition"}
      /\ Lock(w) <=> w.kind \in {"lock", "trap"}
      /\ Maze(w) <=> w.kind \in {"maze", "hazard"}
  BY DEF Tool, Lock, Maze
<1>3. ASSUME Lock(w) PROVE a \in {Inspect, Reset} \cup GoalActions(w)
  <2> DEFINE head == IF w.kind = "trap" \/ s.progress + 1 \notin s.known
                        THEN <<Inspect>> ELSE <<>>
             digits == [d \in 1..4 |-> Press(d)]
  <2>1. Candidates(w, s) = head \o digits \o <<Reset>>
    BY <1>2, <1>3 DEF Candidates
  <2>2. GoalActions(w) = {Press(d) : d \in 1..4}
    BY <1>3, Shapes DEF GoalActions, Tool
  <2>3. digits \in Seq(GoalActions(w)) /\ Len(digits) = 4
    BY <2>2
  <2>4. head \in Seq({Inspect})
    <3>1. <<Inspect>> \in Seq({Inspect}) /\ <<>> \in Seq({Inspect})
      OBVIOUS
    <3> QED
      BY <3>1
  <2> HIDE DEF head, digits
  <2>5. head \o digits \o <<Reset>> \in Seq({Inspect, Reset} \cup GoalActions(w))
    BY <2>3, <2>4
  <2> QED
    BY <1>1, <2>1, <2>5
<1>4. ASSUME Maze(w) PROVE a \in {Inspect} \cup GoalActions(w)
  <2> DEFINE moves == [i \in DOMAIN w.doors |-> Move(w.doors[i])]
  <2>1. Candidates(w, s) = <<Inspect>> \o moves
    BY <1>2, <1>4 DEF Candidates
  <2>2. GoalActions(w) = {Move(w.doors[i]) : i \in DOMAIN w.doors}
    BY <1>2, <1>4, Shapes DEF GoalActions
  <2>3. moves \in Seq(GoalActions(w))
    BY <2>2 DEF IsWorld
  <2> HIDE DEF moves
  <2>4. <<Inspect>> \o moves \in Seq({Inspect} \cup GoalActions(w))
    BY <2>3
  <2> QED
    BY <1>1, <2>1, <2>4
<1>5. ASSUME w.kind = "precondition" PROVE a \in {Use("search")} \cup GoalActions(w)
  <2>1. Candidates(w, s) = <<Use("search"), Use("read"), Use("summarize")>>
    BY <1>2, <1>5 DEF Candidates
  <2>2. GoalActions(w) = {Use("read"), Use("summarize")}
    BY <1>2, <1>5 DEF GoalActions
  <2> QED
    BY <1>1, <2>1, <2>2
<1> QED
  BY <1>1, <1>3, <1>4, <1>5, ToolOffers

-----------------------------------------------------------------------------
(* The states that an episode passes.                                      *)

\* An episode is over when it succeeded or ran out of steps; nothing that was known
\* at its start is forgotten; and while the world is armed nothing is done.
StateSound(w, s) ==
    /\ IsState(w, s)
    /\ s.done <=> Succeeded(w, s) \/ s.steps >= w.max
    /\ InitiallyKnown(w) \subseteq s.known
    /\ s.armed => InitiallyArmed(w) /\ s.progress = 0

LEMMA InitiallyKnownType ==
  ASSUME NEW w, IsWorld(w)
  PROVE  /\ InitiallyKnown(w) \subseteq Slots(w)
         /\ w.kind \in {"trap", "precondition"} => InitiallyKnown(w) = Slots(w)
         /\ InitiallyArmed(w) \in BOOLEAN
<1>1. Maze(w) => 1 \in Slots(w)
  BY GoalHasSlots
<1> QED
  BY <1>1 DEF InitiallyKnown, InitiallyArmed, IsWorld, Kind, Maze

LEMMA ResetSound ==
  ASSUME NEW w, IsWorld(w), NEW s
  PROVE  /\ StateSound(w, ResetWorld(w, s))
         /\ ~ResetWorld(w, s).done
<1> DEFINE t == ResetWorld(w, s)
<1>1. /\ t.progress = 0 /\ t.steps = 0 /\ t.known = InitiallyKnown(w) /\ t.seen = <<>>
      /\ t.armed = InitiallyArmed(w) /\ t.done = FALSE
  BY DEF ResetWorld
<1>2. Len(w.goal) \in Nat \ {0} /\ w.max \in Nat \ {0}
  BY GoalHasSlots DEF IsWorld
<1>3. t \in [progress : 0..Len(w.goal), steps : 0..w.max, known : SUBSET Slots(w),
             seen : {<<>>} \cup (ActionName \X Slots(w)), armed : BOOLEAN, done : BOOLEAN]
  BY <1>2, InitiallyKnownType DEF ResetWorld
<1> HIDE DEF t
<1>4. IsState(w, t)
  BY <1>1, <1>3, InitiallyKnownType DEF IsState
<1>5. ~Succeeded(w, t) /\ ~(t.steps >= w.max)
  BY <1>1, <1>2 DEF Succeeded
<1>6. InitiallyKnown(w) \subseteq t.known /\ (t.armed => InitiallyArmed(w) /\ t.progress = 0)
  BY <1>1
<1>7. ~t.done
  BY <1>1
<1>8. StateSound(w, t)
  BY <1>4, <1>5, <1>6, <1>7 DEF StateSound
<1> QED
  BY <1>7, <1>8 DEF t

\* What is left of an open state.
LEMMA SoundIsOpen ==
  ASSUME NEW w, IsWorld(w), NEW s, StateSound(w, s), ~s.done
  PROVE  IsOpen(w, s) /\ s.steps < w.max
BY GoalHasSlots DEF StateSound, IsOpen, IsState, Succeeded, IsWorld

\* What an action makes of a state, whichever it is.
LEMMA EffectIs ==
  ASSUME NEW w, IsWorld(w), NEW s, StateSound(w, s), ~s.done,
         NEW a, Name(a) \in ActionName
  PROVE  \E p \in 0..Len(w.goal), k \in SUBSET Slots(w),
            o \in {<<>>} \cup (ActionName \X Slots(w)), b \in BOOLEAN :
           /\ Effect(w, s, a) = Became(s, p, k, o, b)
           /\ s.known \subseteq k /\ (o # <<>> => o[2] \in k)
           /\ b => InitiallyArmed(w) /\ p = 0
<1> DEFINE p1 == s.progress + 1
<1>1. /\ IsOpen(w, s) /\ IsState(w, s) /\ s.progress < Len(w.goal) /\ p1 \in Slots(w)
      /\ s.known \subseteq Slots(w) /\ s.armed \in BOOLEAN
      /\ s.armed => InitiallyArmed(w) /\ s.progress = 0
      /\ s.progress \in Nat /\ Len(w.goal) \in Nat
  BY SoundIsOpen, RightIs, GoalHasSlots DEF IsOpen, IsState, StateSound
<1>2. /\ s.seen \in {<<>>} \cup (ActionName \X Slots(w))
      /\ s.seen # <<>> => s.seen[2] \in s.known
      /\ <<Name(a), p1>> \in ActionName \X Slots(w) /\ <<Name(a), p1>>[2] = p1
  BY <1>1 DEF IsState
<1>3. w.kind = "trap" => InitiallyArmed(w)
  BY DEF InitiallyArmed
<1>4. CASE Lock(w)
  <2> DEFINE p == IF a = Inspect THEN s.progress
                  ELSE IF a # Reset /\ Right(w, s, a) /\ ~s.armed
                          THEN s.progress + 1 ELSE 0
             k == IF a = Inspect THEN s.known \cup {p1} ELSE s.known
             o == IF a = Inspect /\ w.kind = "lock" THEN <<Name(a), p1>> ELSE s.seen
             b == IF a = Inspect THEN FALSE
                  ELSE IF a = Reset THEN w.kind = "trap" ELSE s.armed
  <2>1. Effect(w, s, a) = Became(s, p, k, o, b)
    BY <1>1, <1>4, LockEffectIs
  <2>2. p \in 0..Len(w.goal) /\ k \in SUBSET Slots(w) /\ s.known \subseteq k
    BY <1>1
  <2>3. b \in BOOLEAN /\ (b => InitiallyArmed(w) /\ p = 0)
    BY <1>1, <1>3
  <2>4. o \in {<<>>} \cup (ActionName \X Slots(w)) /\ (o # <<>> => o[2] \in k)
    BY <1>2
  <2> HIDE DEF p, k, o, b
  <2> QED
    BY <2>1, <2>2, <2>3, <2>4, Zenon
<1>5. CASE Maze(w)
  <2> DEFINE p == IF a # Inspect /\ Right(w, s, a) /\ ~s.armed
                       /\ (w.kind = "hazard" \/ 1 \in s.known)
                     THEN s.progress + 1 ELSE s.progress
             k == IF a = Inspect THEN s.known \cup {p1} ELSE s.known
             b == IF a = Inspect THEN FALSE ELSE s.armed
  <2>1. Effect(w, s, a) = Became(s, p, k, s.seen, b)
    BY <1>1, <1>5, MazeEffectIs
  <2>2. p \in 0..Len(w.goal) /\ k \in SUBSET Slots(w) /\ s.known \subseteq k
    BY <1>1
  <2>3. b \in BOOLEAN /\ (b => InitiallyArmed(w) /\ p = 0)
    BY <1>1
  <2>4. s.seen # <<>> => s.seen[2] \in k
    BY <1>2
  <2> HIDE DEF p, k, b
  <2> QED
    BY <1>2, <2>1, <2>2, <2>3, <2>4, Zenon
<1>6. CASE Tool(w)
  <2> DEFINE p == IF Revealing(w, s, a) \/ SetsUp(w, a) THEN s.progress
                  ELSE IF Right(w, s, a) /\ ~s.armed THEN s.progress + 1
                  ELSE IF s.progress > 0 THEN s.progress - 1 ELSE 0
             k == IF Revealing(w, s, a) THEN s.known \cup {p1} ELSE s.known
             o == IF Revealing(w, s, a) /\ w.kind = "tool"
                     THEN <<Name(a), p1>> ELSE s.seen
             b == IF ~Revealing(w, s, a) /\ SetsUp(w, a) THEN FALSE ELSE s.armed
  <2>1. Effect(w, s, a) = Became(s, p, k, o, b)
    BY <1>1, <1>6, ToolEffectIs
  <2>2. p \in 0..Len(w.goal) /\ k \in SUBSET Slots(w) /\ s.known \subseteq k
    BY <1>1
  <2>3. b \in BOOLEAN /\ (b => InitiallyArmed(w) /\ p = 0)
    <3>1. s.armed => p = 0
      BY <1>1
    <3>2. b \in BOOLEAN /\ (b => s.armed)
      BY <1>1
    <3> QED
      BY <1>1, <3>1, <3>2
  <2>4. o \in {<<>>} \cup (ActionName \X Slots(w)) /\ (o # <<>> => o[2] \in k)
    BY <1>2
  <2> HIDE DEF p, k, o, b
  <2> QED
    BY <2>1, <2>2, <2>3, <2>4, Zenon
<1> QED
  BY <1>4, <1>5, <1>6, Shapes

LEMMA StepSound ==
  ASSUME NEW w, IsWorld(w), NEW s, StateSound(w, s), ~s.done,
         NEW a, Name(a) \in ActionName
  PROVE  /\ StateSound(w, StepWorld(w, s, a))
         /\ StepWorld(w, s, a).steps = s.steps + 1
         /\ s.known \subseteq StepWorld(w, s, a).known
<1>1. PICK p \in 0..Len(w.goal), k \in SUBSET Slots(w),
           o \in {<<>>} \cup (ActionName \X Slots(w)), b \in BOOLEAN :
           /\ Effect(w, s, a) = Became(s, p, k, o, b)
           /\ s.known \subseteq k /\ (o # <<>> => o[2] \in k)
           /\ b => InitiallyArmed(w) /\ p = 0
  BY EffectIs
<1> DEFINE t == StepWorld(w, s, a)
           d == Succeeded(w, Effect(w, s, a)) \/ s.steps + 1 >= w.max
<1>2. /\ IsState(w, s) /\ s.steps < w.max /\ s.steps \in Nat /\ w.max \in Nat
      /\ InitiallyKnown(w) \subseteq s.known
  BY SoundIsOpen DEF IsOpen, IsState, StateSound, IsWorld
<1>3. t = [progress |-> p, steps |-> s.steps + 1, known |-> k, seen |-> o,
           armed |-> b, done |-> d]
  <2>1. /\ Effect(w, s, a).progress = p /\ Effect(w, s, a).known = k
        /\ Effect(w, s, a).seen = o /\ Effect(w, s, a).armed = b
    BY <1>1 DEF Became
  <2>2. t = [progress |-> Effect(w, s, a).progress, steps |-> s.steps + 1,
             known |-> Effect(w, s, a).known, seen |-> Effect(w, s, a).seen,
             armed |-> Effect(w, s, a).armed, done |-> d]
    BY Zenon DEF StepWorld
  <2> HIDE DEF d, t
  <2> QED
    BY <2>1, <2>2
<1>4. d \in BOOLEAN /\ Effect(w, s, a).progress = p
  BY <1>1 DEF Became
<1>5. d <=> Succeeded(w, Effect(w, s, a)) \/ s.steps + 1 >= w.max
  OBVIOUS
<1> HIDE DEF t, d
<1>6. /\ t.progress = p /\ t.steps = s.steps + 1 /\ t.known = k /\ t.seen = o
      /\ t.armed = b /\ t.done = d
  BY <1>3
<1>7. t \in [progress : 0..Len(w.goal), steps : 0..w.max, known : SUBSET Slots(w),
             seen : {<<>>} \cup (ActionName \X Slots(w)), armed : BOOLEAN, done : BOOLEAN]
  BY <1>2, <1>3, <1>4
<1>8. w.kind \in {"trap", "precondition"} => k = Slots(w)
  BY <1>1, <1>2 DEF IsState
<1>9. IsState(w, t)
  BY <1>1, <1>6, <1>7, <1>8 DEF IsState
<1>10. Succeeded(w, t) <=> Succeeded(w, Effect(w, s, a))
  BY <1>4, <1>6 DEF Succeeded
<1>11. StateSound(w, t)
  BY <1>1, <1>2, <1>5, <1>6, <1>9, <1>10 DEF StateSound
<1> QED
  BY <1>1, <1>6, <1>11 DEF t

LEMMA AllowedNames ==
  ASSUME NEW w, IsWorld(w), NEW a, Allowed(w, a)
  PROVE  Name(a) \in ActionName
<1>1. CASE w.kind = "tool"
  <2>1. PICK n \in DOMAIN w.goal : Name(a) = Name(w.goal[n])
    BY <1>1 DEF Allowed, ActionNames, Lock, Maze
  <2>2. Tool(w) /\ w.goal[n] \in GoalActions(w)
    BY <1>1, GoalHasSlots DEF Tool, Slots
  <2>3. Name(w.goal[n]) \in {"search", "read", "summarize"}
    BY <2>2, GoalNames
  <2> QED
    BY <2>1, <2>3 DEF ActionName
<1>2. CASE w.kind # "tool"
  <2>1. ActionNames(w) \in
          {{"inspect", "press", "reset"}, {"inspect", "move"},
           {"search", "read", "summarize"}}
    BY <1>2, Shapes DEF ActionNames
  <2> QED
    BY <2>1 DEF Allowed, ActionName
<1> QED
  BY <1>1, <1>2

-----------------------------------------------------------------------------
(* Every state of every episode is sound.                                  *)

EpisodeInv ==
    /\ world \in World /\ agent \in Agent
    /\ episode \in 1..MaxEpisodes /\ pc \in {"play", "raised"}
    /\ StateSound(world, state)

\* The two things that happen: an allowed action is taken, or a new episode starts.
LEMMA Steps ==
  ASSUME EpisodeInv, Next
  PROVE  /\ world' = world /\ agent' = agent
         /\ \/ /\ pc = "play" /\ ~state.done /\ episode' = episode
               /\ \/ /\ pc' = "raised" /\ state' = state
                     /\ \E a \in Answers : ~Allowed(world, a)
                  \/ /\ pc' = pc
                     /\ \E a \in Answers : Allowed(world, a) /\ state' = StepWorld(world, state, a)
            \/ /\ pc = "play" /\ pc' = pc /\ state.done /\ episode < MaxEpisodes
               /\ episode' = episode + 1 /\ state' = ResetWorld(world, state)
BY DEF Next, Act, NextEpisode

LEMMA EpisodeInvInit == Init => EpisodeInv
<1> SUFFICES ASSUME Init PROVE EpisodeInv
  OBVIOUS
<1>1. world \in World /\ agent \in Agent /\ pc = "play" /\ episode = 1
      /\ state = ResetWorld(world, [known |-> {}])
  BY DEF Init
<1>2. IsWorld(world) /\ 1 \in 1..MaxEpisodes
  BY <1>1, EpisodeAssumption
<1>3. StateSound(world, state)
  BY <1>1, <1>2, ResetSound
<1> QED
  BY <1>1, <1>2, <1>3 DEF EpisodeInv

LEMMA EpisodeInvStep == EpisodeInv /\ [Next]_vars => EpisodeInv'
<1> SUFFICES ASSUME EpisodeInv, [Next]_vars PROVE EpisodeInv'
  OBVIOUS
<1>1. IsWorld(world)
  BY EpisodeAssumption DEF EpisodeInv
<1>2. CASE UNCHANGED vars
  BY <1>2 DEF vars, EpisodeInv
<1>3. CASE Next
  <2>1. world' = world /\ agent' = agent
    BY <1>3, Steps
  <2>2. CASE pc = "play" /\ ~state.done /\ episode' = episode /\ pc' = "raised"
              /\ state' = state
    BY <2>1, <2>2 DEF EpisodeInv
  <2>3. CASE /\ pc = "play" /\ ~state.done /\ episode' = episode /\ pc' = pc
             /\ \E a \in Answers : Allowed(world, a) /\ state' = StepWorld(world, state, a)
    <3>1. PICK a \in Answers : Allowed(world, a) /\ state' = StepWorld(world, state, a)
      BY <2>3
    <3>2. Name(a) \in ActionName
      BY <1>1, <3>1, AllowedNames
    <3>3. StateSound(world, state')
      BY <1>1, <2>3, <3>1, <3>2, StepSound DEF EpisodeInv
    <3> QED
      BY <2>1, <2>3, <3>3 DEF EpisodeInv
  <2>4. CASE /\ pc = "play" /\ pc' = pc /\ state.done /\ episode < MaxEpisodes
             /\ episode' = episode + 1 /\ state' = ResetWorld(world, state)
    <3>1. StateSound(world, state')
      BY <1>1, <2>4, ResetSound
    <3>2. episode' \in 1..MaxEpisodes
      BY <2>4, EpisodeAssumption DEF EpisodeInv
    <3> QED
      BY <2>1, <2>4, <3>1, <3>2 DEF EpisodeInv
  <2> QED
    BY <1>3, <2>1, <2>2, <2>3, <2>4, Steps
<1> QED
  BY <1>2, <1>3

LEMMA EpisodeInvAlways == Spec => []EpisodeInv
BY EpisodeInvInit, EpisodeInvStep, PTL DEF Spec

\* The variables have their types in every world of every size: progress, mask and
\* memory of an episode stay within the goal of its world, whoever plays.
THEOREM EpisodeType == Spec => []TypeOK
<1>1. EpisodeInv => TypeOK
  <2> SUFFICES ASSUME EpisodeInv PROVE TypeOK
    OBVIOUS
  <2>1. IsState(world, state)
    BY DEF EpisodeInv, StateSound
  <2>2. /\ state.progress \in 0..Len(world.goal) /\ state.steps \in 0..world.max
        /\ state.known \subseteq Slots(world)
        /\ state.armed \in BOOLEAN /\ state.done \in BOOLEAN
        /\ state.seen = <<>> \/ state.seen[2] \in state.known
    BY <2>1 DEF IsState
  <2> QED
    BY <2>2 DEF EpisodeInv, TypeOK
<1> QED
  BY <1>1, EpisodeInvAlways, PTL

\* What holds of every sound state holds of every state that an episode passes.
LEMMA PlayingIsOpen ==
  ASSUME EpisodeInv, ~state.done
  PROVE  IsWorld(world) /\ StateSound(world, state) /\ IsOpen(world, state)
BY EpisodeAssumption, SoundIsOpen DEF EpisodeInv

-----------------------------------------------------------------------------
(* A belief requires what the gate requires.                               *)

LEMMA BeliefRequires ==
  ASSUME NEW w, IsWorld(w), NEW s, IsOpen(w, s),
         Maze(w) => w.goal[1] = Move(w.doors[1]),
         w.kind = "hazard" => HintSeen(s)
  PROVE  BeliefOf(w, s).required = Required(w, s)
<1>1. BeliefOf(w, s).required = RequiredValue(w, s)
  BY DEF BeliefOf
<1>2. /\ s.progress + 1 \in Slots(w) /\ s.progress < Len(w.goal)
      /\ s.progress \in Nat /\ Len(w.goal) \in Nat
      /\ w.kind \in {"trap", "precondition"} => s.progress + 1 \in s.known
  BY GoalHasSlots, RightIs DEF IsOpen, IsState, SlotUnknown
<1>3. CASE Maze(w)
  <2>1. s.progress = 0
    BY <1>2, <1>3 DEF IsWorld
  <2>2. 1 \in DOMAIN w.doors
    <3>1. w.goal[1] \in GoalActions(w)
      BY <1>2, <2>1, GoalHasSlots
    <3>2. GoalActions(w) = {Move(w.doors[n]) : n \in DOMAIN w.doors}
      BY <1>3, Shapes DEF GoalActions, Tool
    <3>3. w.doors \in Seq(STRING)
      BY DEF IsWorld
    <3> QED
      BY <3>1, <3>2, <3>3
  <2>3. DOMAIN VisibleValues(w, s) = DOMAIN w.doors
        /\ VisibleValues(w, s)[1] = Move(w.doors[1])
    BY <1>3, <2>2 DEF VisibleValues
  <2>4. DOMAIN BeliefSlots(w, s) = DOMAIN w.doors
        /\ BeliefSlots(w, s)[1].value = Move(w.doors[1])
    BY <2>2, <2>3 DEF BeliefSlots, Slot
  <2>5. CurrentSlotKnown(w, s) <=> HintSeen(s)
    BY <1>3 DEF CurrentSlotKnown, Maze
  <2> QED
    BY <1>1, <1>3, <2>1, <2>2, <2>4, <2>5
       DEF RequiredValue, CurrentSlot, Required, SlotUnknown, HintSeen
<1>4. CASE ~Maze(w)
  <2>1. DOMAIN VisibleValues(w, s) = Slots(w)
        /\ VisibleValues(w, s)[s.progress + 1] =
             IF s.progress + 1 \in s.known THEN w.goal[s.progress + 1] ELSE NoAction
    BY <1>2, <1>4 DEF VisibleValues
  <2>2. DOMAIN BeliefSlots(w, s) = Slots(w)
        /\ BeliefSlots(w, s)[s.progress + 1].value =
             IF s.progress + 1 \in s.known THEN w.goal[s.progress + 1] ELSE NoAction
    BY <1>2, <2>1 DEF BeliefSlots, Slot
  <2>3. w.kind \in {"lock", "trap", "tool", "precondition"}
    BY <1>4 DEF Maze, IsWorld, Kind
  <2>4. CurrentSlotKnown(w, s) <=> s.progress + 1 \in s.known
    BY <1>2, <2>3 DEF CurrentSlotKnown
  <2> QED
    BY <1>1, <1>2, <1>4, <2>2, <2>4 DEF RequiredValue, CurrentSlot, Required, SlotUnknown
<1> QED
  BY <1>3, <1>4

\* Candidates are actions of the world.
LEMMA CandidateNames ==
  ASSUME NEW w, IsWorld(w), NEW s, NEW a \in ToSet(Candidates(w, s))
  PROVE  Allowed(w, a) /\ Name(a) \in ActionName /\ a # NoAction
<1>1. /\ Tool(w) <=> w.kind \in {"tool", "precondition"}
      /\ Lock(w) <=> w.kind \in {"lock", "trap"}
      /\ Maze(w) <=> w.kind \in {"maze", "hazard"}
  BY DEF Tool, Lock, Maze
<1>2. Name(Inspect) = "inspect" /\ Name(Reset) = "reset"
  BY DEF Name, Inspect, Reset
<1>3. CASE Lock(w)
  <2>1. Name(a) \in {"inspect", "press", "reset"}
    BY <1>2, <1>3, CandidatesAre, GoalNames
  <2> QED
    BY <1>3, <2>1, Shapes DEF Allowed, ActionNames, ActionName, NoAction, Name, Tool
<1>4. CASE Maze(w)
  <2>1. Name(a) \in {"inspect", "move"}
    BY <1>2, <1>4, CandidatesAre, GoalNames
  <2>2. Name(a) = "move" => a[2] \in ToSet(w.doors)
    <3> SUFFICES ASSUME Name(a) = "move" PROVE a[2] \in ToSet(w.doors)
      OBVIOUS
    <3>1. a \in GoalActions(w)
      BY <1>2, <1>4, CandidatesAre
    <3>2. PICK n \in DOMAIN w.doors : a = Move(w.doors[n])
      BY <1>4, <3>1, Shapes DEF GoalActions, Tool
    <3> QED
      BY <3>2 DEF Move, ToSet
  <2>3. ActionNames(w) = {"inspect", "move"}
    BY <1>4, Shapes DEF ActionNames, Tool
  <2> QED
    BY <2>1, <2>2, <2>3 DEF Allowed, ActionName, NoAction, Name
<1>5. CASE w.kind = "tool"
  <2>1. PICK m \in Slots(w) : a = w.goal[m]
    BY <1>5, CandidatesAre
  <2>2. Name(a) \in {"search", "read", "summarize"}
    BY <1>1, <1>5, <2>1, GoalHasSlots, GoalNames
  <2>3. ActionNames(w) = {Name(w.goal[n]) : n \in DOMAIN w.goal}
    BY <1>5 DEF ActionNames, Lock, Maze
  <2>4. Name(a) \in ActionNames(w)
    BY <2>1, <2>3 DEF Slots
  <2> QED
    BY <2>2, <2>4 DEF Allowed, ActionName, NoAction, Name
<1>6. CASE w.kind = "precondition"
  <2>1. Name(Use("search")) = "search"
    BY DEF Name, Use
  <2>2. Name(a) \in {"search", "read", "summarize"}
    BY <1>1, <1>6, <2>1, CandidatesAre, GoalNames
  <2>3. ActionNames(w) = {"search", "read", "summarize"}
    BY <1>6 DEF ActionNames, Lock, Maze
  <2> QED
    BY <2>2, <2>3 DEF Allowed, ActionName, NoAction, Name
<1> QED
  BY <1>1, <1>3, <1>4, <1>5, <1>6, Shapes

LEMMA SetUpCorrect ==
  ASSUME NEW w, IsWorld(w), NEW s, IsOpen(w, s), NEW a \in ToSet(Candidates(w, s)),
         Matches(w, s, a), SetupState(w, s) = "post_setup_done"
  PROVE  PostSetupExecution(w, s, a)
<1>1. PostSetup(w, s)
  BY DEF PostSetup
<1>2. w.kind \in {"trap", "hazard", "precondition"}
  BY DEF SetupState, IsWorld, Kind
<1>3. a \in GoalActions(w)
  BY GoalHasSlots, RightIs, CandidateNames DEF Matches, Required
<1>4. CASE w.kind = "trap"
  <2>1. Lock(w)
    BY <1>4 DEF Lock
  <2>2. Name(a) = "press"
    BY <1>3, <2>1, GoalNames
  <2> QED
    BY <1>1, <2>1, <2>2, Shapes DEF PostSetupExecution
<1>5. CASE w.kind = "hazard"
  <2>1. Maze(w)
    BY <1>5 DEF Maze
  <2>2. Name(a) = "move"
    BY <1>3, <2>1, GoalNames
  <2> QED
    BY <1>1, <2>1, <2>2, Shapes DEF PostSetupExecution
<1>6. CASE w.kind = "precondition"
  <2>1. Tool(w)
    BY <1>6 DEF Tool
  <2>2. Name(a) \in {"read", "summarize"}
    BY <1>3, <1>6, <2>1, GoalNames
  <2> QED
    BY <1>1, <2>1, <2>2, Shapes DEF PostSetupExecution
<1> QED
  BY <1>2, <1>4, <1>5, <1>6

\* The belief requires the action that the gate requires, and the rows that are
\* counted as correct after a setup are the ones that match it, in every world.
THEOREM BeliefIsTheGates == Spec => []BeliefAgreesWithGate
<1>1. EpisodeInv => BeliefAgreesWithGate
  <2> SUFFICES ASSUME EpisodeInv, ~state.done,
                      Maze(world) => world.goal[1] = Move(world.doors[1]),
                      world.kind = "hazard" => HintSeen(state)
               PROVE  /\ BeliefOf(world, state).required = Required(world, state)
                      /\ \A a \in ToSet(Candidates(world, state)) :
                           PostSetupCorrect(world, state, a)
                             <=> /\ SetupState(world, state) = "post_setup_done"
                                 /\ Matches(world, state, a)
    BY Zenon DEF BeliefAgreesWithGate, Playing
  <2>1. IsWorld(world) /\ IsOpen(world, state)
    BY PlayingIsOpen
  <2>2. BeliefOf(world, state).required = Required(world, state)
    BY <2>1, BeliefRequires
  <2>3. ASSUME NEW a \in ToSet(Candidates(world, state))
        PROVE  PostSetupCorrect(world, state, a)
                 <=> /\ SetupState(world, state) = "post_setup_done"
                     /\ Matches(world, state, a)
    BY <2>1, <2>2, SetUpCorrect DEF PostSetupCorrect, Matches
  <2> QED
    BY <2>2, <2>3
<1> QED
  BY <1>1, EpisodeInvAlways, PTL

-----------------------------------------------------------------------------
(* Where the symbolic predictor is exact.                                  *)

LEMMA Fields ==
  ASSUME NEW s, NEW p, NEW k, NEW o, NEW b
  PROVE  /\ Became(s, p, k, o, b).progress = p /\ Became(s, p, k, o, b).known = k
         /\ Became(s, p, k, o, b).armed = b
BY DEF Became

LEMMA SymbolicLockIs ==
  ASSUME NEW w, IsWorld(w), Lock(w), NEW s, IsOpen(w, s), NEW a
  PROVE  Symbolic(w, s, a).to =
           Became(s, IF a = Inspect THEN s.progress
                     ELSE IF Right(w, s, a) /\ ~s.armed THEN s.progress + 1 ELSE 0,
                  s.known, s.seen, IF a = Inspect THEN FALSE ELSE s.armed)
<1>1. Symbolic(w, s, a) = PredictLock(w, s, a)
  BY Shapes DEF Symbolic
<1>2. Name(Inspect) = "inspect" /\ Name(Reset) = "reset"
  BY DEF Name, Inspect, Reset
<1>3. Right(w, s, a) => a # Inspect /\ a # Reset
  BY <1>2, RightIs, GoalNames
<1>4. /\ s = Became(s, s.progress, s.known, s.seen, s.armed)
      /\ Forward(s) = Became(s, s.progress + 1, s.known, s.seen, s.armed)
      /\ ToStart(s) = Became(s, 0, s.known, s.seen, s.armed)
  BY Changes DEF IsOpen
<1>5. Unarmed(s) = Became(s, s.progress, s.known, s.seen, FALSE)
  <2>1. Unarmed(Became(s, s.progress, s.known, s.seen, s.armed)) =
          Became(s, s.progress, s.known, s.seen, FALSE)
    BY Disarmed
  <2> QED
    BY <1>4, <2>1, Zenon
<1>6. CASE a = Inspect
  <2>1. Symbolic(w, s, a).to = Unarmed(s)
    BY <1>1, <1>2, <1>3, <1>6 DEF PredictLock, Predicted
  <2> QED
    BY <1>5, <1>6, <2>1
<1>7. CASE a # Inspect /\ Right(w, s, a) /\ ~s.armed
  <2>1. Symbolic(w, s, a).to = Forward(s)
    BY <1>1, <1>3, <1>7 DEF PredictLock, Predicted
  <2> QED
    BY <1>4, <1>7, <2>1
<1>8. CASE a # Inspect /\ ~(Right(w, s, a) /\ ~s.armed)
  <2>1. Symbolic(w, s, a).to = ToStart(s)
    BY <1>1, <1>3, <1>8 DEF PredictLock, Predicted
  <2> QED
    BY <1>4, <1>8, <2>1
<1> QED
  BY <1>6, <1>7, <1>8

LEMMA SymbolicMazeIs ==
  ASSUME NEW w, IsWorld(w), Maze(w), NEW s, IsOpen(w, s), NEW a
  PROVE  Symbolic(w, s, a).to =
           Became(s, IF a # Inspect /\ Right(w, s, a) /\ ~SlotUnknown(w, s) /\ ~s.armed
                        THEN s.progress + 1 ELSE s.progress,
                  IF a = Inspect THEN s.known \cup {s.progress + 1} ELSE s.known,
                  s.seen, IF a = Inspect THEN FALSE ELSE s.armed)
<1>1. Symbolic(w, s, a) = PredictMaze(w, s, a)
  BY Shapes DEF Symbolic
<1>2. Name(Inspect) = "inspect"
  BY DEF Name, Inspect
<1>3. Right(w, s, a) => a # Inspect
  BY <1>2, RightIs, GoalNames
<1>4. /\ s = Became(s, s.progress, s.known, s.seen, s.armed)
      /\ Forward(s) = Became(s, s.progress + 1, s.known, s.seen, s.armed)
      /\ Reveal(s) = Became(s, s.progress, s.known \cup {s.progress + 1}, s.seen, s.armed)
  BY Changes DEF IsOpen
<1>5. Unarmed(Reveal(s)) =
        Became(s, s.progress, s.known \cup {s.progress + 1}, s.seen, FALSE)
  <2>1. Unarmed(Became(s, s.progress, s.known \cup {s.progress + 1}, s.seen, s.armed))
          = Became(s, s.progress, s.known \cup {s.progress + 1}, s.seen, FALSE)
    BY Disarmed
  <2> QED
    BY <1>4, <2>1, Zenon
<1>6. CASE a = Inspect
  <2>1. Symbolic(w, s, a).to = Unarmed(Reveal(s))
    BY <1>1, <1>3, <1>6 DEF PredictMaze, Predicted
  <2> QED
    BY <1>5, <1>6, <2>1
<1>7. CASE a # Inspect /\ Right(w, s, a) /\ ~SlotUnknown(w, s) /\ ~s.armed
  <2>1. Symbolic(w, s, a).to = Forward(s)
    BY <1>1, <1>3, <1>7 DEF PredictMaze, Predicted
  <2> QED
    BY <1>4, <1>7, <2>1
<1>8. CASE a # Inspect /\ ~(Right(w, s, a) /\ ~SlotUnknown(w, s) /\ ~s.armed)
  <2>1. Symbolic(w, s, a).to = s
    BY <1>1, <1>3, <1>8 DEF PredictMaze, Predicted
  <2> QED
    BY <1>4, <1>8, <2>1
<1> QED
  BY <1>6, <1>7, <1>8

LEMMA SymbolicToolIs ==
  ASSUME NEW w, IsWorld(w), Tool(w), NEW s, StateSound(w, s), IsOpen(w, s), NEW a
  PROVE  Symbolic(w, s, a).to =
           Became(s, IF Revealing(w, s, a) THEN s.progress
                     ELSE IF Right(w, s, a) /\ ~s.armed THEN s.progress + 1
                     ELSE IF s.progress > 0 THEN s.progress - 1 ELSE 0,
                  s.known, s.seen, IF s.armed /\ Name(a) = "search" THEN FALSE ELSE s.armed)
<1>1. Symbolic(w, s, a) = PredictTool(w, s, a)
  BY Shapes DEF Symbolic
<1>2. /\ s.armed => s.progress = 0 /\ w.kind = "precondition" /\ ~SlotUnknown(w, s)
      /\ s.progress \in Nat
  BY RightIs, Shapes DEF StateSound, InitiallyArmed, IsState, IsOpen, Lock, Maze, Tool
<1>3. s.armed /\ Right(w, s, a) => Name(a) # "search"
  BY <1>2, RightIs, GoalNames
<1>4. /\ s = Became(s, s.progress, s.known, s.seen, s.armed)
      /\ Forward(s) = Became(s, s.progress + 1, s.known, s.seen, s.armed)
      /\ Back(s) = Became(s, IF s.progress > 0 THEN s.progress - 1 ELSE 0,
                          s.known, s.seen, s.armed)
  BY Changes DEF IsOpen
<1>5. Unarmed(s) = Became(s, s.progress, s.known, s.seen, FALSE)
  <2>1. Unarmed(Became(s, s.progress, s.known, s.seen, s.armed)) =
          Became(s, s.progress, s.known, s.seen, FALSE)
    BY Disarmed
  <2> QED
    BY <1>4, <2>1, Zenon
<1>6. CASE s.armed /\ Name(a) = "search"
  <2>1. Symbolic(w, s, a).to = Unarmed(s)
    BY <1>1, <1>2, <1>3, <1>6 DEF PredictTool, Predicted, Revealing
  <2>2. s.progress = 0 /\ ~(Right(w, s, a) /\ ~s.armed)
    BY <1>2, <1>6
  <2> QED
    BY <1>5, <1>6, <2>1, <2>2
<1>7. CASE s.armed /\ Name(a) # "search" /\ Right(w, s, a)
  <2>1. Symbolic(w, s, a).to = s
    BY <1>1, <1>2, <1>7 DEF PredictTool, Predicted, Revealing
  <2>2. s.progress = 0 /\ ~(Right(w, s, a) /\ ~s.armed)
    BY <1>2, <1>7
  <2>3. Symbolic(w, s, a).to = Became(s, 0, s.known, s.seen, s.armed)
    BY <1>4, <2>1, <2>2
  <2>4. ~(s.armed /\ Name(a) = "search")
    BY <1>7
  <2>5. 0 = IF Revealing(w, s, a) THEN s.progress
            ELSE IF Right(w, s, a) /\ ~s.armed THEN s.progress + 1
            ELSE IF s.progress > 0 THEN s.progress - 1 ELSE 0
    BY <2>2
  <2> QED
    BY <2>3, <2>4, <2>5, Zenon
<1>8. CASE ~s.armed /\ Revealing(w, s, a)
  <2>1. Symbolic(w, s, a).to = s
    BY <1>1, <1>8 DEF PredictTool, Predicted
  <2> QED
    BY <1>4, <1>8, <2>1
<1>9. CASE ~s.armed /\ ~Revealing(w, s, a) /\ Right(w, s, a)
  <2>1. Symbolic(w, s, a).to = Forward(s)
    BY <1>1, <1>9 DEF PredictTool, Predicted
  <2> QED
    BY <1>4, <1>9, <2>1
<1>10. CASE ~Right(w, s, a) /\ ~(s.armed /\ Name(a) = "search") /\ ~Revealing(w, s, a)
  <2>1. Symbolic(w, s, a).to = Back(s)
    BY <1>1, <1>10 DEF PredictTool, Predicted
  <2> QED
    BY <1>4, <1>10, <2>1
<1> QED
  BY <1>2, <1>6, <1>7, <1>8, <1>9, <1>10 DEF Revealing

LEMMA ShownIs ==
  ASSUME NEW t, NEW u
  PROVE  /\ ~Maze(world) =>
              (Shown(t) = Shown(u) <=> t.progress = u.progress /\ t.armed = u.armed)
         /\ Maze(world) =>
              (Shown(t) = Shown(u) <=> /\ t.progress = u.progress /\ t.armed = u.armed
                                       /\ 1 \in t.known <=> 1 \in u.known)
<1>1. Shown(t) = Shown(u) <=> /\ t.progress = u.progress /\ t.armed = u.armed
                              /\ Headway(world, t) = Headway(world, u)
  BY DEF Shown
<1>2. Maze(world) => (Headway(world, t) = Headway(world, u) <=>
                        (1 \in t.known <=> 1 \in u.known))
  BY DEF Headway, If, Unit
<1>3. ~Maze(world) => (t.progress = u.progress => Headway(world, t) = Headway(world, u))
  BY DEF Headway
<1> QED
  BY <1>1, <1>2, <1>3

\* What an action does to progress, mask and arming, field by field.
LockMoves(w, s, a) ==
    /\ Effect(w, s, a).progress =
         IF a = Inspect THEN s.progress
         ELSE IF a # Reset /\ Right(w, s, a) /\ ~s.armed THEN s.progress + 1 ELSE 0
    /\ Effect(w, s, a).known =
         IF a = Inspect THEN s.known \cup {s.progress + 1} ELSE s.known
    /\ a = Inspect => Effect(w, s, a).armed = FALSE
    /\ a = Reset => Effect(w, s, a).armed = (w.kind = "trap")
    /\ a # Inspect /\ a # Reset => Effect(w, s, a).armed = s.armed

LEMMA LockFields ==
  ASSUME NEW w, IsWorld(w), Lock(w), NEW s, IsOpen(w, s), NEW a
  PROVE  LockMoves(w, s, a)
<1>0. Inspect # Reset
  BY DEF Inspect, Reset
<1> DEFINE p == IF a = Inspect THEN s.progress
                ELSE IF a # Reset /\ Right(w, s, a) /\ ~s.armed
                        THEN s.progress + 1 ELSE 0
           k == IF a = Inspect THEN s.known \cup {s.progress + 1} ELSE s.known
           o == IF a = Inspect /\ w.kind = "lock"
                   THEN <<Name(a), s.progress + 1>> ELSE s.seen
           b == IF a = Inspect THEN FALSE
                ELSE IF a = Reset THEN w.kind = "trap" ELSE s.armed
<1>1. Effect(w, s, a) = Became(s, p, k, o, b)
  BY LockEffectIs
<1> HIDE DEF p, k, o, b
<1>2. /\ Effect(w, s, a).progress = p /\ Effect(w, s, a).known = k
      /\ Effect(w, s, a).armed = b
  BY <1>1, Fields
<1> QED
  BY <1>0, <1>2, Zenon DEF p, k, b, LockMoves

LEMMA ExactInLocks ==
  ASSUME NEW w, IsWorld(w), Lock(w), NEW s, StateSound(w, s), ~s.done, NEW a
  PROVE  /\ Symbolic(w, s, a).to.progress = Effect(w, s, a).progress
         /\ Symbolic(w, s, a).to.armed = Effect(w, s, a).armed
              <=> ~(w.kind = "trap" /\ a = Reset /\ ~s.armed)
<1>1. IsOpen(w, s)
  BY SoundIsOpen
<1>2. /\ s.armed => w.kind = "trap"
      /\ s.armed \in BOOLEAN /\ s.progress \in Nat
  BY <1>1, Shapes DEF StateSound, IsState, InitiallyArmed, Lock, Maze, Tool, IsOpen
<1>3. Name(Inspect) = "inspect" /\ Name(Reset) = "reset"
  BY DEF Name, Inspect, Reset
<1>4. Right(w, s, a) => a # Reset
  BY <1>1, <1>3, RightIs, GoalNames
<1>5. /\ Symbolic(w, s, a).to.progress =
           IF a = Inspect THEN s.progress
           ELSE IF Right(w, s, a) /\ ~s.armed THEN s.progress + 1 ELSE 0
      /\ Symbolic(w, s, a).to.armed = IF a = Inspect THEN FALSE ELSE s.armed
  <2> DEFINE p == IF a = Inspect THEN s.progress
                  ELSE IF Right(w, s, a) /\ ~s.armed THEN s.progress + 1 ELSE 0
             k == s.known
             o == s.seen
             b == IF a = Inspect THEN FALSE ELSE s.armed
  <2>1. Symbolic(w, s, a).to = Became(s, p, k, o, b)
    BY <1>1, SymbolicLockIs
  <2> HIDE DEF p, k, o, b
  <2>2. /\ Symbolic(w, s, a).to.progress = p /\ Symbolic(w, s, a).to.known = k
        /\ Symbolic(w, s, a).to.armed = b
    BY <2>1, Fields
  <2> QED
    BY <2>2, Zenon DEF p, k, b
<1>6. LockMoves(w, s, a)
  BY <1>1, LockFields
<1>7. Symbolic(w, s, a).to.progress = Effect(w, s, a).progress
  BY <1>4, <1>5, <1>6 DEF LockMoves
<1>8. CASE a = Reset
  <2>1. Symbolic(w, s, a).to.armed = s.armed /\ Effect(w, s, a).armed = (w.kind = "trap")
    BY <1>3, <1>5, <1>6, <1>8 DEF LockMoves
  <2> QED
    BY <1>2, <1>7, <1>8, <2>1
<1>9. CASE a # Reset
  BY <1>5, <1>6, <1>7, <1>9 DEF LockMoves
<1> QED
  BY <1>8, <1>9

ToolMoves(w, s, a) ==
    /\ Effect(w, s, a).progress =
         IF Revealing(w, s, a) \/ SetsUp(w, a) THEN s.progress
         ELSE IF Right(w, s, a) /\ ~s.armed THEN s.progress + 1
         ELSE IF s.progress > 0 THEN s.progress - 1 ELSE 0
    /\ Effect(w, s, a).known =
         IF Revealing(w, s, a) THEN s.known \cup {s.progress + 1} ELSE s.known
    /\ ~Revealing(w, s, a) /\ SetsUp(w, a) => Effect(w, s, a).armed = FALSE
    /\ Revealing(w, s, a) \/ ~SetsUp(w, a) => Effect(w, s, a).armed = s.armed

LEMMA ToolFields ==
  ASSUME NEW w, IsWorld(w), Tool(w), NEW s, IsOpen(w, s), NEW a
  PROVE  ToolMoves(w, s, a)
<1> DEFINE p == IF Revealing(w, s, a) \/ SetsUp(w, a) THEN s.progress
                ELSE IF Right(w, s, a) /\ ~s.armed THEN s.progress + 1
                ELSE IF s.progress > 0 THEN s.progress - 1 ELSE 0
           k == IF Revealing(w, s, a) THEN s.known \cup {s.progress + 1} ELSE s.known
           o == IF Revealing(w, s, a) /\ w.kind = "tool"
                   THEN <<Name(a), s.progress + 1>> ELSE s.seen
           b == IF ~Revealing(w, s, a) /\ SetsUp(w, a) THEN FALSE ELSE s.armed
<1>1. Effect(w, s, a) = Became(s, p, k, o, b)
  BY ToolEffectIs
<1> HIDE DEF p, k, o, b
<1>2. /\ Effect(w, s, a).progress = p /\ Effect(w, s, a).known = k
      /\ Effect(w, s, a).armed = b
  BY <1>1, Fields
<1> QED
  BY <1>2, Zenon DEF p, k, b, ToolMoves

LEMMA ExactInTools ==
  ASSUME NEW w, IsWorld(w), Tool(w), NEW s, StateSound(w, s), ~s.done, NEW a
  PROVE  /\ Symbolic(w, s, a).to.armed = Effect(w, s, a).armed
         /\ Symbolic(w, s, a).to.progress = Effect(w, s, a).progress
              <=> ~(w.kind = "precondition" /\ Name(a) = "search" /\ s.progress > 0)
<1>1. IsOpen(w, s)
  BY SoundIsOpen
<1>2. /\ s.armed => w.kind = "precondition" /\ s.progress = 0
      /\ s.armed \in BOOLEAN /\ s.progress \in Nat
      /\ w.kind = "precondition" => ~Revealing(w, s, a)
  BY <1>1, RightIs, Shapes
     DEF StateSound, IsState, InitiallyArmed, Lock, Maze, Tool, IsOpen, Revealing
<1>3. Right(w, s, a) /\ w.kind = "precondition" => Name(a) # "search"
  BY <1>1, RightIs, GoalNames
<1>4. /\ Symbolic(w, s, a).to.progress =
           IF Revealing(w, s, a) THEN s.progress
           ELSE IF Right(w, s, a) /\ ~s.armed THEN s.progress + 1
           ELSE IF s.progress > 0 THEN s.progress - 1 ELSE 0
      /\ Symbolic(w, s, a).to.armed =
           IF s.armed /\ Name(a) = "search" THEN FALSE ELSE s.armed
  <2> DEFINE p == IF Revealing(w, s, a) THEN s.progress
                  ELSE IF Right(w, s, a) /\ ~s.armed THEN s.progress + 1
                  ELSE IF s.progress > 0 THEN s.progress - 1 ELSE 0
             k == s.known
             o == s.seen
             b == IF s.armed /\ Name(a) = "search" THEN FALSE ELSE s.armed
  <2>1. Symbolic(w, s, a).to = Became(s, p, k, o, b)
    BY <1>1, SymbolicToolIs
  <2> HIDE DEF p, k, o, b
  <2>2. /\ Symbolic(w, s, a).to.progress = p /\ Symbolic(w, s, a).to.known = k
        /\ Symbolic(w, s, a).to.armed = b
    BY <2>1, Fields
  <2> QED
    BY <2>2, Zenon DEF p, k, b
<1>5. ToolMoves(w, s, a)
  BY <1>1, ToolFields
<1>6. Symbolic(w, s, a).to.armed = Effect(w, s, a).armed
  BY <1>2, <1>4, <1>5 DEF SetsUp, ToolMoves
<1>7. CASE SetsUp(w, a)
  <2>1. /\ Symbolic(w, s, a).to.progress = IF s.progress > 0 THEN s.progress - 1 ELSE 0
        /\ Effect(w, s, a).progress = s.progress
    BY <1>2, <1>3, <1>4, <1>5, <1>7 DEF SetsUp, ToolMoves
  <2> QED
    BY <1>2, <1>6, <1>7, <2>1 DEF SetsUp
<1>8. CASE ~SetsUp(w, a)
  BY <1>4, <1>5, <1>6, <1>8 DEF SetsUp, ToolMoves
<1> QED
  BY <1>7, <1>8

MazeMoves(w, s, a) ==
    /\ Effect(w, s, a).progress =
         IF a # Inspect /\ Right(w, s, a) /\ ~s.armed
              /\ (w.kind = "hazard" \/ 1 \in s.known)
            THEN s.progress + 1 ELSE s.progress
    /\ Effect(w, s, a).known =
         IF a = Inspect THEN s.known \cup {s.progress + 1} ELSE s.known
    /\ a = Inspect => Effect(w, s, a).armed = FALSE
    /\ a # Inspect => Effect(w, s, a).armed = s.armed

LEMMA MazeFields ==
  ASSUME NEW w, IsWorld(w), Maze(w), NEW s, IsOpen(w, s), NEW a
  PROVE  MazeMoves(w, s, a)
<1> DEFINE p == IF a # Inspect /\ Right(w, s, a) /\ ~s.armed
                     /\ (w.kind = "hazard" \/ 1 \in s.known)
                   THEN s.progress + 1 ELSE s.progress
           k == IF a = Inspect THEN s.known \cup {s.progress + 1} ELSE s.known
           o == s.seen
           b == IF a = Inspect THEN FALSE ELSE s.armed
<1>1. Effect(w, s, a) = Became(s, p, k, o, b)
  BY MazeEffectIs
<1> HIDE DEF p, k, o, b
<1>2. /\ Effect(w, s, a).progress = p /\ Effect(w, s, a).known = k
      /\ Effect(w, s, a).armed = b
  BY <1>1, Fields
<1> QED
  BY <1>2, Zenon DEF p, k, b, MazeMoves

LEMMA ExactInMazes ==
  ASSUME NEW w, IsWorld(w), Maze(w), NEW s, StateSound(w, s), ~s.done, NEW a
  PROVE  /\ Symbolic(w, s, a).to.armed = Effect(w, s, a).armed
         /\ Symbolic(w, s, a).to.known = Effect(w, s, a).known
         /\ Symbolic(w, s, a).to.progress = Effect(w, s, a).progress
              <=> ~(/\ w.kind = "hazard" /\ ~s.armed
                    /\ Right(w, s, a) /\ SlotUnknown(w, s))
<1>1. IsOpen(w, s)
  BY SoundIsOpen
<1>2. s.progress = 0
  BY <1>1, GoalHasSlots DEF IsOpen, IsState, IsWorld
<1>3. SlotUnknown(w, s) <=> 1 \notin s.known
  BY <1>2 DEF SlotUnknown
<1>4. Name(Inspect) = "inspect"
  BY DEF Name, Inspect
<1>5. Right(w, s, a) => a # Inspect
  BY <1>1, <1>4, RightIs, GoalNames
<1>6. /\ Symbolic(w, s, a).to.progress =
           IF a # Inspect /\ Right(w, s, a) /\ ~SlotUnknown(w, s) /\ ~s.armed
              THEN s.progress + 1 ELSE s.progress
      /\ Symbolic(w, s, a).to.known =
           IF a = Inspect THEN s.known \cup {s.progress + 1} ELSE s.known
      /\ Symbolic(w, s, a).to.armed = IF a = Inspect THEN FALSE ELSE s.armed
  <2> DEFINE p == IF a # Inspect /\ Right(w, s, a) /\ ~SlotUnknown(w, s) /\ ~s.armed
                     THEN s.progress + 1 ELSE s.progress
             k == IF a = Inspect THEN s.known \cup {s.progress + 1} ELSE s.known
             o == s.seen
             b == IF a = Inspect THEN FALSE ELSE s.armed
  <2>1. Symbolic(w, s, a).to = Became(s, p, k, o, b)
    BY <1>1, SymbolicMazeIs
  <2> HIDE DEF p, k, o, b
  <2>2. /\ Symbolic(w, s, a).to.progress = p /\ Symbolic(w, s, a).to.known = k
        /\ Symbolic(w, s, a).to.armed = b
    BY <2>1, Fields
  <2> QED
    BY <2>2, Zenon DEF p, k, b
<1>7. MazeMoves(w, s, a)
  BY <1>1, MazeFields
<1>8. Symbolic(w, s, a).to.known = Effect(w, s, a).known
  BY <1>6, <1>7, Zenon DEF MazeMoves
<1>9. Symbolic(w, s, a).to.armed = Effect(w, s, a).armed
  BY <1>6, <1>7 DEF MazeMoves
<1>10. Symbolic(w, s, a).to.progress = Effect(w, s, a).progress
         <=> ~(w.kind = "hazard" /\ ~s.armed /\ Right(w, s, a) /\ SlotUnknown(w, s))
  BY <1>2, <1>3, <1>5, <1>6, <1>7 DEF MazeMoves
<1> QED
  BY <1>8, <1>9, <1>10

\* In worlds of every kind and size the next state vector that the symbolic predictor
\* gives is the one that the world steps to, except in the three cases in which their
\* rules differ, and in each of them it is not.
THEOREM PredictorIsExact == Spec => []PredictionIsExact
<1>1. EpisodeInv => PredictionIsExact
  <2> SUFFICES ASSUME EpisodeInv, ~state.done,
                      NEW a \in ToSet(Candidates(world, state))
               PROVE  Shown(Symbolic(world, state, a).to) =
                        Shown(Effect(world, state, a)) <=> ~PredictorErrs(a)
    BY DEF PredictionIsExact
  <2>1. IsWorld(world) /\ StateSound(world, state)
    BY PlayingIsOpen
  <2>2. CASE Lock(world)
    <3>1. PredictorErrs(a) <=> world.kind = "trap" /\ a = Reset /\ ~state.armed
      BY <2>2 DEF PredictorErrs, Lock
    <3> QED
      BY <2>1, <2>2, <3>1, ShownIs, ExactInLocks, Shapes
  <2>3. CASE Maze(world)
    <3>1. PredictorErrs(a) <=> /\ world.kind = "hazard" /\ ~state.armed
                               /\ Right(world, state, a) /\ SlotUnknown(world, state)
      BY <2>3 DEF PredictorErrs, Maze
    <3> QED
      BY <2>1, <2>3, <3>1, ShownIs, ExactInMazes
  <2>4. CASE Tool(world)
    <3>1. PredictorErrs(a) <=>
            world.kind = "precondition" /\ Name(a) = "search" /\ state.progress > 0
      BY <2>4 DEF PredictorErrs, Tool
    <3> QED
      BY <2>1, <2>4, <3>1, ShownIs, ExactInTools, Shapes
  <2> QED
    BY <2>1, <2>2, <2>3, <2>4, Shapes
<1> QED
  BY <1>1, EpisodeInvAlways, PTL

-----------------------------------------------------------------------------
(* What a snapshot keeps.                                                  *)

\* Two worlds that differ in nothing but the hazard they start with.
Alike(v, w) ==
    /\ v.kind = w.kind /\ v.goal = w.goal /\ v.max = w.max /\ v.mode = w.mode
    /\ v.doors = w.doors /\ v.present = w.present /\ v.hint = w.hint

LEMMA AlikeOffer ==
  ASSUME NEW v, NEW w, Alike(v, w), NEW s
  PROVE  /\ Candidates(v, s) = Candidates(w, s)
         /\ \A a : StepWorld(v, s, a) = StepWorld(w, s, a)
         /\ InitiallyKnown(v) = InitiallyKnown(w)
<1>1. Lock(v) = Lock(w) /\ Maze(v) = Maze(w) /\ Tool(v) = Tool(w) /\ Slots(v) = Slots(w)
  BY DEF Alike, Lock, Maze, Tool, Slots
<1>2. FirstUses(v) = FirstUses(w)
  BY DEF Alike, FirstUses
<1>3. Candidates(v, s) = Candidates(w, s)
  BY <1>1, <1>2 DEF Alike, Candidates
<1>4. ASSUME NEW a PROVE StepWorld(v, s, a) = StepWorld(w, s, a)
  <2>1. /\ Observe(v, s, a) = Observe(w, s, a) /\ Right(v, s, a) = Right(w, s, a)
        /\ Revealing(v, s, a) = Revealing(w, s, a)
    BY DEF Alike, Observe, Right, Revealing, SlotUnknown
  <2>2. LockEffect(v, s, a) = LockEffect(w, s, a)
    BY <2>1, Zenon DEF Alike, LockEffect
  <2>3. MazeEffect(v, s, a) = MazeEffect(w, s, a)
    BY <2>1, Zenon DEF Alike, MazeEffect
  <2>4. ToolEffect(v, s, a) = ToolEffect(w, s, a)
    BY <2>1, Zenon DEF Alike, ToolEffect
  <2>5. Effect(v, s, a) = Effect(w, s, a)
    BY <1>1, <2>2, <2>3, <2>4, Zenon DEF Effect
  <2>6. \A t : Succeeded(v, t) = Succeeded(w, t)
    BY DEF Alike, Succeeded
  <2> QED
    BY <2>5, <2>6, Zenon DEF Alike, StepWorld
<1>5. InitiallyKnown(v) = InitiallyKnown(w)
  BY <1>1, Zenon DEF Alike, InitiallyKnown
<1> QED
  BY <1>3, <1>4, <1>5

LEMMA RestoredIs ==
  ASSUME NEW w, IsWorld(w), NEW s, IsState(w, s), NEW registered \in BOOLEAN
  PROVE  LET o == Restored(w, s, registered) IN
         /\ o.state = s /\ Alike(o.world, w)
         /\ registered => o.world = w
         /\ ~registered => (o.world.active <=> w.kind = "hazard" /\ s.armed)
<1> DEFINE p == Snapshot(w, s)
           o == Restored(w, s, registered)
           v == IF registered THEN w ELSE Rebuilt(p)
<1>1. /\ p.kind = w.kind /\ p.goal = w.goal /\ p.max = w.max /\ p.mode = w.mode
      /\ p.doors = w.doors /\ p.present = w.present /\ p.hint = w.hint
      /\ p.progress = s.progress /\ p.steps = s.steps /\ p.known = s.known
      /\ p.seen = s.seen /\ p.armed = s.armed /\ p.done = s.done
  BY DEF Snapshot
<1> HIDE DEF p
<1>2. o = Restore(v, p)
  BY Zenon DEF Restored, p
<1>3. v.kind = w.kind /\ (registered => v = w)
      /\ (~registered => (v.active <=> w.kind = "hazard" /\ s.armed))
  BY <1>1 DEF Rebuilt
<1> HIDE DEF v
<1>4. o.world = Overwritten(v, p)
      /\ o.state = [progress |-> p.progress, steps |-> p.steps, known |-> p.known,
                    seen |-> p.seen, armed |-> p.armed, done |-> p.done]
  BY <1>2 DEF Restore
<1>5. s = [progress |-> s.progress, steps |-> s.steps, known |-> s.known,
           seen |-> s.seen, armed |-> s.armed, done |-> s.done]
  BY DEF IsState
<1>6. o.state = s
  BY <1>1, <1>4, <1>5, Zenon
<1>7. Alike(o.world, w) /\ o.world.active = v.active
  BY <1>1, <1>3, <1>4 DEF Overwritten, Alike
<1>8. w = [kind |-> w.kind, goal |-> w.goal, max |-> w.max, mode |-> w.mode,
           doors |-> w.doors, present |-> w.present, active |-> w.active,
           hint |-> w.hint]
  BY DEF IsWorld
<1>9. registered => o.world = w
  BY <1>1, <1>3, <1>4, <1>8, Zenon DEF Overwritten
<1> HIDE DEF o
<1>10. ~registered => (o.world.active <=> w.kind = "hazard" /\ s.armed)
  BY <1>3, <1>7
<1> QED
  BY <1>6, <1>7, <1>9, <1>10 DEF o

\* Whatever is played in whatever world: a candidate that is tried in a world restored
\* from a snapshot leads where it leads in the world that was played, and a reset of
\* that world differs in the one case of a maze whose hazard was cleared.
THEOREM ProbesAreFaithful == Spec => []ProbeLeavesNothingOut
<1>1. EpisodeInv => ProbeLeavesNothingOut
  <2> SUFFICES ASSUME EpisodeInv, ~state.done, NEW registered \in BOOLEAN
               PROVE  LET o == Restored(world, state, registered) IN
                      /\ Candidates(o.world, o.state) = Candidates(world, state)
                      /\ \A a \in ToSet(Candidates(world, state)) :
                           StepWorld(o.world, o.state, a) = StepWorld(world, state, a)
                      /\ ResetWorld(o.world, o.state) # ResetWorld(world, state)
                           <=> /\ ~registered /\ world.kind = "hazard"
                               /\ world.active /\ ~state.armed
    BY DEF ProbeLeavesNothingOut, Playing
  <2> DEFINE o == Restored(world, state, registered)
  <2>1. IsWorld(world) /\ StateSound(world, state) /\ IsState(world, state)
    BY PlayingIsOpen DEF StateSound
  <2>2. /\ o.state = state /\ Alike(o.world, world)
        /\ registered => o.world = world
        /\ ~registered => (o.world.active <=> world.kind = "hazard" /\ state.armed)
    BY <2>1, RestoredIs
  <2> HIDE DEF o
  <2>3. /\ Candidates(o.world, o.state) = Candidates(world, state)
        /\ \A a : StepWorld(o.world, o.state, a) = StepWorld(world, state, a)
        /\ InitiallyKnown(o.world) = InitiallyKnown(world)
    BY <2>2, AlikeOffer
  <2>4. ResetWorld(o.world, o.state) = ResetWorld(world, state)
          <=> InitiallyArmed(o.world) = InitiallyArmed(world)
    <3>1. \A v, s : ResetWorld(v, s) =
            [progress |-> 0, steps |-> 0, known |-> InitiallyKnown(v),
             seen |-> <<>>, armed |-> InitiallyArmed(v), done |-> FALSE]
      BY DEF ResetWorld
    <3>2. \A v, s : ResetWorld(v, s).armed = InitiallyArmed(v)
      BY DEF ResetWorld
    <3> QED
      BY <2>3, <3>1, <3>2, Zenon
  <2>5. state.armed => InitiallyArmed(world)
    BY <2>1 DEF StateSound
  <2>6. InitiallyArmed(o.world) # InitiallyArmed(world)
          <=> ~registered /\ world.kind = "hazard" /\ world.active /\ ~state.armed
    BY <2>1, <2>2, <2>5 DEF InitiallyArmed, Alike, IsWorld
  <2>7. ResetWorld(o.world, o.state) # ResetWorld(world, state)
          <=> ~registered /\ world.kind = "hazard" /\ world.active /\ ~state.armed
    BY <2>4, <2>6
  <2> QED
    BY <2>3, <2>7 DEF o
<1> QED
  BY <1>1, EpisodeInvAlways, PTL

-----------------------------------------------------------------------------
(* What the features of a state depend on.                                 *)

\* Two worlds that a state cannot tell apart: they differ in hidden slots at most.
SameToSee(v, w, s) ==
    /\ v.kind = w.kind /\ v.max = w.max /\ v.mode = w.mode /\ v.doors = w.doors
    /\ v.present = w.present /\ v.active = w.active /\ v.hint = w.hint
    /\ Len(v.goal) = Len(w.goal) /\ Slots(v) = Slots(w)
    /\ \A n \in s.known : v.goal[n] = w.goal[n]

LEMMA SameSlots ==
  ASSUME NEW v, NEW w, NEW s, SameToSee(v, w, s), ~Maze(w), s.known \subseteq Slots(w),
         s.seen # <<>> => s.seen[2] \in s.known
  PROVE  /\ BeliefSlots(v, s) = BeliefSlots(w, s)
         /\ LastObservation(v, s) = LastObservation(w, s)
         /\ CurrentSlotKnown(v, s) = CurrentSlotKnown(w, s)
         /\ SetupState(v, s) = SetupState(w, s) /\ Mode(v, s) = Mode(w, s)
         /\ CurrentSlot(v, s) = CurrentSlot(w, s)
<1>1. /\ ~Maze(v) /\ Slots(v) = Slots(w) /\ w.kind # "maze"
      /\ \A n \in s.known : v.goal[n] = w.goal[n]
  BY DEF SameToSee, Maze
<1>2. VisibleValues(v, s) = VisibleValues(w, s)
  BY <1>1 DEF VisibleValues
<1>3. BeliefSlots(v, s) = BeliefSlots(w, s)
  BY <1>1, <1>2 DEF BeliefSlots
<1>4. LastObservation(v, s) = LastObservation(w, s)
  BY <1>1 DEF LastObservation, SameToSee
<1>5. CurrentSlotKnown(v, s) = CurrentSlotKnown(w, s)
  BY Zenon DEF SameToSee, CurrentSlotKnown
<1>6. SetupState(v, s) = SetupState(w, s) /\ Mode(v, s) = Mode(w, s)
  BY Zenon DEF SameToSee, SetupState, Mode
<1>7. CurrentSlot(v, s) = CurrentSlot(w, s)
  BY <1>1 DEF CurrentSlot
<1> QED
  BY <1>3, <1>4, <1>5, <1>6, <1>7

LEMMA SameFeatures ==
  ASSUME NEW v, NEW w, NEW s, SameToSee(v, w, s), ~Maze(w), s.known \subseteq Slots(w),
         s.seen # <<>> => s.seen[2] \in s.known
  PROVE  Encode(v, s) = Encode(w, s)
<1>1. ~Maze(v) /\ ~Maze(w)
  BY DEF SameToSee, Maze
<1>2. BeliefOf(v, s) = BeliefOf(w, s)
  <2>1. RequiredValue(v, s) = RequiredValue(w, s)
    BY SameSlots DEF RequiredValue
  <2>2. BeliefObservation(v, s) = BeliefObservation(w, s)
    BY SameSlots, SMTT(30) DEF BeliefObservation
  <2> QED
    BY <2>1, <2>2, SameSlots, Zenon DEF BeliefOf, SameToSee
<1>3. FinishFact(v, s) = FinishFact(w, s)
  BY <1>1, Zenon DEF FinishFact, CanFinish, LastStep, SlotUnknown, SameToSee
<1>4. TargetColor(v) = TargetColor(w)
  BY <1>1 DEF TargetColor
<1>5. HazardFeatures(v, s) = HazardFeatures(w, s)
  BY Zenon DEF HazardFeatures, SameToSee
<1>6. PostSetup(v, s) = PostSetup(w, s)
  BY SameSlots, Zenon DEF PostSetup
<1>7. GlobalFeatures(v, s) = GlobalFeatures(w, s)
  BY <1>1, <1>2, <1>3, <1>4, <1>5, <1>6, SameSlots, Zenon
     DEF GlobalFeatures, SameToSee
<1>8. ASSUME NEW n PROVE SlotFeatures(v, s, n) = SlotFeatures(w, s, n)
  BY <1>1, <1>2, <1>4, <1>5, SameSlots, Zenon DEF SlotFeatures
<1>9. Vector(v, s) = Vector(w, s)
  BY <1>1, Zenon DEF Vector, Headway, Succeeded, SameToSee
<1> QED
  BY <1>7, <1>8, <1>9, SameSlots DEF Encode

\* A maze has one door that its target is behind.
LEMMA OneTarget ==
  ASSUME NEW w, IsWorld(w), Maze(w)
  PROVE  \E k \in DOMAIN w.doors :
           {n \in DOMAIN w.doors : Move(w.doors[n]) = w.goal[1]} = {k}
<1>1. \A c, d : Move(c) = Move(d) => c = d
  BY DEF Move
<1>2. w.goal[1] \in GoalActions(w)
  BY GoalHasSlots
<1>3. PICK k \in DOMAIN w.doors : w.goal[1] = Move(w.doors[k])
  BY <1>2, Shapes DEF GoalActions, Tool
<1>4. \A n, m \in DOMAIN w.doors : w.doors[n] = w.doors[m] => n = m
  BY DEF IsWorld
<1> QED
  BY <1>1, <1>3, <1>4

LEMMA MazeIsGrounded ==
  ASSUME NEW w, IsWorld(w), Maze(w), NEW s
  PROVE  Grounded(w, s)
<1> DEFINE e == Encode(w, s)
<1>1. e.global.target = w.goal[1]
  BY DEF Encode, GlobalFeatures, TargetColor
<1>2. /\ DOMAIN BeliefSlots(w, s) = DOMAIN w.doors
      /\ \A n \in DOMAIN w.doors : BeliefSlots(w, s)[n].value = Move(w.doors[n])
  <2>1. /\ DOMAIN VisibleValues(w, s) = DOMAIN w.doors
        /\ \A n \in DOMAIN w.doors : VisibleValues(w, s)[n] = Move(w.doors[n])
    BY DEF VisibleValues
  <2> QED
    BY <2>1 DEF BeliefSlots, Slot
<1>3. /\ DOMAIN e.slots = DOMAIN w.doors
      /\ \A n \in DOMAIN w.doors : e.slots[n] = SlotFeatures(w, s, n)
  BY <1>2 DEF Encode
<1>4. \A n \in DOMAIN w.doors :
        SlotFeatures(w, s, n).target <=> Move(w.doors[n]) = w.goal[1]
  <2> TAKE n \in DOMAIN w.doors
  <2>1. BeliefOf(w, s).slots = BeliefSlots(w, s)
    BY DEF BeliefOf
  <2>2. SlotFeatures(w, s, n).target =
          (Maze(w) /\ BeliefOf(w, s).slots[n].value = TargetColor(w))
    BY DEF SlotFeatures
  <2> QED
    BY <1>2, <2>1, <2>2 DEF TargetColor
<1> HIDE DEF e
<1>5. {n \in DOMAIN e.slots : e.slots[n].target} =
        {n \in DOMAIN w.doors : Move(w.doors[n]) = w.goal[1]}
  BY <1>3, <1>4
<1>6. Cardinality({n \in DOMAIN e.slots : e.slots[n].target}) = 1
  <2>1. PICK k \in DOMAIN w.doors :
          {n \in DOMAIN w.doors : Move(w.doors[n]) = w.goal[1]} = {k}
    BY OneTarget
  <2>2. Cardinality({k}) = 1
    BY FS_Singleton
  <2> QED
    BY <1>5, <2>1, <2>2
<1> QED
  BY <1>1, <1>6, Zenon DEF Grounded, e

\* The features of a lock or a tool chain never depend on what its hidden slots hold,
\* and those of a maze always say which one of its doors is the target.
THEOREM FeaturesKeepSecrets == Spec => []HiddenSlotsStayHidden
<1>1. EpisodeInv => HiddenSlotsStayHidden
  <2> SUFFICES ASSUME EpisodeInv, ~state.done
               PROVE  /\ ~Maze(world) => \A goal \in OtherGoals(world, state) :
                           Encode([world EXCEPT !.goal = goal], state) =
                             Encode(world, state)
                      /\ Maze(world) => Grounded(world, state)
    BY Zenon DEF HiddenSlotsStayHidden, Playing
  <2>1. IsWorld(world) /\ IsState(world, state)
    BY PlayingIsOpen DEF StateSound
  <2>2. ASSUME ~Maze(world), NEW goal \in OtherGoals(world, state)
        PROVE  Encode([world EXCEPT !.goal = goal], state) = Encode(world, state)
    <3>1. PICK n \in Slots(world) \ state.known :
            \E c : goal = [world.goal EXCEPT ![n] = c]
      BY DEF OtherGoals
    <3>2. PICK c : goal = [world.goal EXCEPT ![n] = c]
      BY <3>1
    <3>3. /\ world.goal \in Seq(GoalActions(world)) /\ state.known \subseteq Slots(world)
          /\ state.seen # <<>> => state.seen[2] \in state.known
      BY <2>1 DEF IsWorld, IsState
    <3>4. /\ Len(goal) = Len(world.goal) /\ DOMAIN goal = DOMAIN world.goal
          /\ \A m \in state.known : goal[m] = world.goal[m]
      BY <3>1, <3>2, <3>3 DEF Slots
    <3> DEFINE v == [world EXCEPT !.goal = goal]
    <3>5. /\ v.kind = world.kind /\ v.max = world.max /\ v.mode = world.mode
          /\ v.doors = world.doors /\ v.present = world.present
          /\ v.active = world.active /\ v.hint = world.hint /\ v.goal = goal
      <4>1. DOMAIN world = {"kind", "goal", "max", "mode", "doors", "present",
                            "active", "hint"}
        BY <2>1 DEF IsWorld
      <4> QED
        BY <4>1
    <3> HIDE DEF v
    <3>6. SameToSee(v, world, state)
      BY <3>4, <3>5 DEF SameToSee, Slots
    <3> QED
      BY <2>2, <3>3, <3>6, SameFeatures DEF v
  <2> QED
    BY <2>1, <2>2, MazeIsGrounded
<1> QED
  BY <1>1, EpisodeInvAlways, PTL

-----------------------------------------------------------------------------
(* The choice of the gate.                                                 *)

\* The first of the best.
IsBest(A, f, n) == n \in A /\ \A m \in A : f[m] < f[n] \/ (f[m] = f[n] /\ n =< m)

\* Of any candidates whose scores are numbers, one is the first of the best.
LEMMA BestExists ==
  ASSUME NEW N \in Nat, NEW f, \A n \in 1..N : f[n] \in Int,
         NEW A \in SUBSET (1..N), A # {}
  PROVE  \E n \in A : IsBest(A, f, n)
<1> DEFINE Fails(k) == \E B \in SUBSET (1..k) : B # {} /\ \A n \in B : ~IsBest(B, f, n)
           S == {k \in 0..N : Fails(k)}
<1> SUFFICES ASSUME \A n \in A : ~IsBest(A, f, n)
             PROVE  FALSE
  OBVIOUS
<1>1. PICK k \in S : \A j \in S : k =< j
  <2>1. S \in SUBSET Nat /\ N \in S
    OBVIOUS
  <2> HIDE DEF S
  <2> QED
    BY <2>1, LeastNumber
<1>2. k \in 0..N /\ Fails(k) /\ \A j \in 0..N : j < k => ~Fails(j)
  BY <1>1
<1> HIDE DEF S
<1>3. PICK B \in SUBSET (1..k) : B # {} /\ \A n \in B : ~IsBest(B, f, n)
  BY <1>2
<1>4. k # 0
  <2>1. 1..0 = {}
    OBVIOUS
  <2> QED
    BY <1>3, <2>1
<1>5. k \in B
  <2> SUFFICES ASSUME k \notin B PROVE FALSE
    OBVIOUS
  <2>1. B \in SUBSET (1..(k - 1))
    BY <1>2, <1>3, <1>4
  <2>2. Fails(k - 1)
    BY <1>3, <2>1
  <2> QED
    BY <1>2, <1>4, <2>2
<1>6. B \ {k} # {}
  <2> SUFFICES ASSUME B = {k} PROVE FALSE
    BY <1>5
  <2>1. IsBest(B, f, k)
    BY <1>2 DEF IsBest
  <2> QED
    BY <1>3, <1>5, <2>1
<1>7. PICK b \in B \ {k} : IsBest(B \ {k}, f, b)
  <2>1. B \ {k} \in SUBSET (1..(k - 1))
    BY <1>2, <1>3, <1>4
  <2>2. ~Fails(k - 1)
    BY <1>2, <1>4
  <2> QED
    BY <1>6, <2>1, <2>2
<1>8. f[b] \in Int /\ f[k] \in Int /\ b < k /\ \A m \in B : f[m] \in Int
  BY <1>2, <1>3, <1>4, <1>7
<1>9. CASE f[k] =< f[b]
  <2>1. IsBest(B, f, b)
    BY <1>3, <1>7, <1>8, <1>9 DEF IsBest
  <2> QED
    BY <1>3, <1>7, <2>1
<1>10. CASE f[b] < f[k]
  <2>1. IsBest(B, f, k)
    BY <1>3, <1>5, <1>7, <1>8, <1>10 DEF IsBest
  <2> QED
    BY <1>3, <1>5, <2>1
<1> QED
  BY <1>8, <1>9, <1>10

\* The candidates of a world are a sequence that is not empty.
LEMMA CandidatesExist ==
  ASSUME NEW w, IsWorld(w), NEW s
  PROVE  \E N \in Nat \ {0} : DOMAIN Candidates(w, s) = 1..N
<1>1. /\ Tool(w) <=> w.kind \in {"tool", "precondition"}
      /\ Lock(w) <=> w.kind \in {"lock", "trap"}
      /\ Maze(w) <=> w.kind \in {"maze", "hazard"}
  BY DEF Tool, Lock, Maze
<1>2. CASE Lock(w)
  <2> DEFINE head == IF w.kind = "trap" \/ s.progress + 1 \notin s.known
                        THEN <<Inspect>> ELSE <<>>
             digits == [d \in 1..4 |-> Press(d)]
             c == head \o digits \o <<Reset>>
  <2>1. Candidates(w, s) = c
    BY <1>1, <1>2 DEF Candidates
  <2>2. digits \in Seq({Press(d) : d \in 1..4})
    OBVIOUS
  <2>3. head \in Seq({Inspect})
    <3>1. <<Inspect>> \in Seq({Inspect}) /\ <<>> \in Seq({Inspect})
      OBVIOUS
    <3> QED
      BY <3>1
  <2> DEFINE X == {Inspect, Reset} \cup {Press(d) : d \in 1..4}
  <2>4. head \in Seq(X) /\ digits \in Seq(X) /\ <<Reset>> \in Seq(X)
    BY <2>2, <2>3
  <2> HIDE DEF head, digits, X
  <2>5. c \in Seq(X) /\ Len(c) = Len(head) + Len(digits) + 1 /\ Len(head) \in Nat
        /\ Len(digits) \in Nat
    BY <2>4
  <2> QED
    BY <2>1, <2>5
<1>3. CASE Maze(w)
  <2> DEFINE moves == [i \in DOMAIN w.doors |-> Move(w.doors[i])]
  <2>1. Candidates(w, s) = <<Inspect>> \o moves
    BY <1>1, <1>3 DEF Candidates
  <2>2. moves \in Seq({Move(w.doors[i]) : i \in DOMAIN w.doors})
    BY DEF IsWorld
  <2> DEFINE X == {Inspect} \cup {Move(w.doors[i]) : i \in DOMAIN w.doors}
  <2>3. moves \in Seq(X) /\ <<Inspect>> \in Seq(X)
    BY <2>2
  <2> HIDE DEF moves, X
  <2>4. <<Inspect>> \o moves \in Seq(X) /\ Len(<<Inspect>> \o moves) = 1 + Len(moves)
        /\ Len(moves) \in Nat
    BY <2>3
  <2> QED
    BY <2>1, <2>4
<1>4. CASE w.kind = "tool"
  BY <1>4, ToolOffers
<1>5. CASE w.kind = "precondition"
  <2>1. Candidates(w, s) = <<Use("search"), Use("read"), Use("summarize")>>
    BY <1>1, <1>5 DEF Candidates
  <2> QED
    BY <2>1
<1> QED
  BY <1>1, <1>2, <1>3, <1>4, <1>5, Shapes

\* FirstBest answers a candidate that none outscores.
LEMMA FirstBestIs ==
  ASSUME NEW w, IsWorld(w), NEW s, NEW f,
         \A n \in DOMAIN Candidates(w, s) : f[n] \in Int
  PROVE  \E n \in DOMAIN Candidates(w, s) :
           /\ FirstBest(w, Candidates(w, s), f) = Candidates(w, s)[n]
           /\ \A m \in DOMAIN Candidates(w, s) : f[m] =< f[n]
<1> DEFINE c == Candidates(w, s)
           A == {n \in DOMAIN c : Allowed(w, c[n])}
<1>1. PICK N \in Nat \ {0} : DOMAIN c = 1..N
  BY CandidatesExist
<1>2. A = 1..N
  BY <1>1, CandidateNames DEF ToSet
<1>3. \E n \in A : IsBest(A, f, n)
  <2>1. \A n \in 1..N : f[n] \in Int
    BY <1>1
  <2> HIDE DEF A, c
  <2>2. A \in SUBSET (1..N) /\ A # {}
    BY <1>2
  <2> QED
    BY <2>1, <2>2, BestExists
<1> DEFINE b == CHOOSE n \in A : IsBest(A, f, n)
<1>4. b \in A /\ IsBest(A, f, b)
  BY <1>3
<1>5. FirstBest(w, c, f) = c[b]
  BY DEF FirstBest, IsBest
<1> HIDE DEF c, A, b
<1>6. \A m \in 1..N : f[m] =< f[b]
  BY <1>1, <1>2, <1>4 DEF IsBest, c
<1> QED
  BY <1>1, <1>2, <1>4, <1>5, <1>6 DEF c

-----------------------------------------------------------------------------
(* Scores.                                                                 *)

\* What a predictor says of an action, and what a gate makes of it.
Says(predictor, w, s, a) ==
    IF predictor = "symbolic" THEN Symbolic(w, s, a) ELSE NoOp(s)

Worth(mode, predictor, w, s, a) ==
    Score(mode, w, s, a, Says(predictor, w, s, a))

\* A part of the goal is a part of Unit, and more is not less.
LEMMA Share ==
  ASSUME NEW L \in Nat \ {0}, NEW p \in 0..L, NEW q \in 0..L
  PROVE  /\ (300 * p) \div L \in 0..300
         /\ p =< q => (300 * p) \div L =< (300 * q) \div L
OBVIOUS

LEMMA HeadwayType ==
  ASSUME NEW w, IsWorld(w), NEW t, ~Maze(w) => t.progress \in 0..Len(w.goal)
  PROVE  Headway(w, t) \in 0..300
<1>1. CASE Maze(w)
  BY <1>1 DEF Headway, If, Unit
<1>2. CASE ~Maze(w)
  <2>1. Headway(w, t) = (300 * t.progress) \div Len(w.goal)
    BY <1>2 DEF Headway, Unit
  <2>2. Len(w.goal) \in Nat \ {0}
    BY GoalHasSlots
  <2> QED
    BY <1>2, <2>1, <2>2, Share
<1> QED
  BY <1>1, <1>2

LEMMA HeadwayNow ==
  ASSUME NEW w, IsWorld(w), NEW s, StateSound(w, s)
  PROVE  s.progress \in 0..Len(w.goal) /\ Headway(w, s) \in 0..300
<1>1. s.progress \in 0..Len(w.goal)
  BY DEF StateSound, IsState
<1> QED
  BY <1>1, HeadwayType

LEMMA HeadwayGrows ==
  ASSUME NEW w, IsWorld(w), ~Maze(w), NEW t, NEW u,
         t.progress \in 0..Len(w.goal), u.progress \in 0..Len(w.goal),
         t.progress =< u.progress
  PROVE  Headway(w, t) =< Headway(w, u)
<1>1. /\ Headway(w, t) = (300 * t.progress) \div Len(w.goal)
      /\ Headway(w, u) = (300 * u.progress) \div Len(w.goal)
  BY DEF Headway, Unit
<1>2. PICK L \in Nat \ {0} : Len(w.goal) = L
  BY GoalHasSlots
<1>3. PICK p \in 0..L, q \in 0..L : t.progress = p /\ u.progress = q
  BY <1>2
<1>4. (300 * p) \div L =< (300 * q) \div L
  BY <1>3, Share, SMTT(30)
<1> QED
  BY <1>1, <1>2, <1>3, <1>4

\* Where the symbolic predictor leads, there is a headway.
LEMMA SymbolicStays ==
  ASSUME NEW w, IsWorld(w), NEW s, StateSound(w, s), ~s.done, NEW a
  PROVE  Symbolic(w, s, a).to.progress \in 0..Len(w.goal)
<1>1. /\ IsOpen(w, s) /\ s.progress \in 0..Len(w.goal) /\ s.progress < Len(w.goal)
      /\ Len(w.goal) \in Nat
  BY SoundIsOpen, GoalHasSlots DEF IsOpen, IsState
<1>2. CASE Lock(w)
  <2> DEFINE p == IF a = Inspect THEN s.progress
                  ELSE IF Right(w, s, a) /\ ~s.armed THEN s.progress + 1 ELSE 0
             b == IF a = Inspect THEN FALSE ELSE s.armed
  <2>1. Symbolic(w, s, a).to = Became(s, p, s.known, s.seen, b)
    BY <1>1, <1>2, SymbolicLockIs
  <2>2. p \in 0..Len(w.goal)
    BY <1>1
  <2> HIDE DEF p, b
  <2> QED
    BY <2>1, <2>2, Fields
<1>3. CASE Maze(w)
  <2> DEFINE p == IF a # Inspect /\ Right(w, s, a) /\ ~SlotUnknown(w, s) /\ ~s.armed
                     THEN s.progress + 1 ELSE s.progress
             k == IF a = Inspect THEN s.known \cup {s.progress + 1} ELSE s.known
             b == IF a = Inspect THEN FALSE ELSE s.armed
  <2>1. Symbolic(w, s, a).to = Became(s, p, k, s.seen, b)
    BY <1>1, <1>3, SymbolicMazeIs
  <2>2. p \in 0..Len(w.goal)
    BY <1>1
  <2> HIDE DEF p, k, b
  <2> QED
    BY <2>1, <2>2, Fields
<1>4. CASE Tool(w)
  <2> DEFINE p == IF Revealing(w, s, a) THEN s.progress
                  ELSE IF Right(w, s, a) /\ ~s.armed THEN s.progress + 1
                  ELSE IF s.progress > 0 THEN s.progress - 1 ELSE 0
             b == IF s.armed /\ Name(a) = "search" THEN FALSE ELSE s.armed
  <2>1. Symbolic(w, s, a).to = Became(s, p, s.known, s.seen, b)
    BY <1>1, <1>4, SymbolicToolIs
  <2>2. p \in 0..Len(w.goal)
    BY <1>1
  <2> HIDE DEF p, b
  <2> QED
    BY <2>1, <2>2, Fields
<1> QED
  BY <1>2, <1>3, <1>4, Shapes

\* Rewards and gains have their bounds.
InBounds(w, s, p) ==
    /\ p.reward \in -105..300 /\ p.info \in {0, 300} /\ p.delta \in BOOLEAN
    /\ Gain(w, s, p) \in -300..300

LEMMA SymbolicInBounds ==
  ASSUME NEW w, IsWorld(w), NEW s, StateSound(w, s), ~s.done, NEW a
  PROVE  InBounds(w, s, Symbolic(w, s, a))
<1> DEFINE p == Symbolic(w, s, a)
<1>1. p.reward \in -105..300 /\ p.info \in {0, 300} /\ p.delta \in BOOLEAN
  <2>1. CASE Lock(w)
    <3>1. p = PredictLock(w, s, a)
      BY <2>1, Shapes DEF Symbolic
    <3> QED
      BY <3>1 DEF PredictLock, Predicted, If, Unit
  <2>2. CASE Maze(w)
    <3>1. p = PredictMaze(w, s, a)
      BY <2>2, Shapes DEF Symbolic
    <3> QED
      BY <3>1 DEF PredictMaze, Predicted, If, Unit
  <2>3. CASE Tool(w)
    <3>1. p = PredictTool(w, s, a)
      BY <2>3, Shapes DEF Symbolic
    <3> QED
      BY <3>1 DEF PredictTool, Predicted, If, Unit
  <2> QED
    BY <2>1, <2>2, <2>3, Shapes
<1>2. PICK h \in 0..300 : Headway(w, p.to) = h
  BY SymbolicStays, HeadwayType
<1>3. PICK g \in 0..300 : Headway(w, s) = g
  BY HeadwayNow
<1> HIDE DEF p
<1>4. Gain(w, s, p) \in -300..300
  BY <1>2, <1>3 DEF Gain
<1> QED
  BY <1>1, <1>4 DEF p, InBounds

LEMMA SaysInBounds ==
  ASSUME NEW w, IsWorld(w), NEW s, StateSound(w, s), ~s.done, NEW a, NEW predictor
  PROVE  InBounds(w, s, Says(predictor, w, s, a))
<1>1. CASE predictor = "symbolic"
  BY <1>1, SymbolicInBounds DEF Says
<1>2. CASE predictor # "symbolic"
  <2>1. Says(predictor, w, s, a) = [to |-> s, reward |-> 0, info |-> 0, delta |-> FALSE]
    BY <1>2 DEF Says, NoOp, Predicted
  <2>2. Headway(w, s) \in 0..300
    BY HeadwayNow
  <2> QED
    BY <2>1, <2>2 DEF InBounds, Gain
<1> QED
  BY <1>1, <1>2

LEMMA PriorsInBounds ==
  ASSUME NEW w, NEW s, NEW a
  PROVE  Prior(w, s, a) \in -2040..600 /\ LegacyGuard(w, s, a) \in -1200..300
<1>1. Prior(w, s, a) \in -2040..600
  <2>1. PICK p1 \in {300, 0} : If(Matches(w, s, a), 300) = p1
    BY DEF If
  <2>2. PICK p2 \in {360, 0} :
          If(Known(w, s) /\ ~Matches(w, s, a) /\ Executes(a), 360) = p2
    BY DEF If
  <2>3. PICK p3 \in {300, 0} : If(~Known(w, s) /\ Reveals(a), 300) = p3
    BY DEF If
  <2>4. PICK p4 \in {600, 0} :
          If(~Known(w, s) /\ ~Reveals(a) /\ (RequiresKnown(w, a) \/ Executes(a)), 600) = p4
    BY DEF If
  <2>5. PICK p5 \in {600, 0} : If(TerminalOnly(a) /\ ~CanFinish(w, s), 600) = p5
    BY DEF If
  <2>6. PICK p6 \in {240, 0} : If(a = Reset /\ s.progress > 0, 240) = p6
    BY DEF If
  <2>7. Prior(w, s, a) = p1 - p2 + p3 - p4 - p5 - p6
    BY <2>1, <2>2, <2>3, <2>4, <2>5, <2>6 DEF Prior
  <2> QED
    BY <2>7
<1>2. LegacyGuard(w, s, a) \in -1200..300
  <2> DEFINE hidden == SlotUnknown(w, s) /\ w.mode # "visible"
             last == LastStep(w, s) /\ (w.kind = "maze" => ~SlotUnknown(w, s))
  <2>1. PICK p1 \in {300, 0} : If(hidden /\ Reveals(a), 300) = p1
    BY DEF If
  <2>2. PICK p2 \in {600, 0} : If(hidden /\ RequiresKnown(w, a), 600) = p2
    BY DEF If
  <2>3. PICK p3 \in {600, 0} : If(TerminalOnly(a) /\ ~last, 600) = p3
    BY DEF If
  <2>4. LegacyGuard(w, s, a) = p1 - p2 - p3
    BY <2>1, <2>2, <2>3 DEF LegacyGuard
  <2> QED
    BY <2>4
<1> QED
  BY <1>1, <1>2

LEMMA ModelInBounds ==
  ASSUME NEW w, NEW s, NEW a, NEW p, InBounds(w, s, p)
  PROVE  ModelScore(w, s, p) \in -705..1350 /\ Veto(w, s, a, p) \in {-450, 0}
<1>1. ModelScore(w, s, p) \in -705..1350
  <2> DEFINE ends == Succeeded(w, p.to) \/ s.steps + 1 >= w.max
  <2>1. ModelScore(w, s, p) = p.reward + 2 * Gain(w, s, p) + p.info
                                + If(ends /\ p.reward > 0, 150)
    BY DEF ModelScore, Unit
  <2>2. PICK e \in {150, 0} : If(ends /\ p.reward > 0, 150) = e
    BY DEF If
  <2>3. PICK r \in -105..300 : p.reward = r
    BY DEF InBounds
  <2>4. PICK g \in -300..300 : Gain(w, s, p) = g
    BY DEF InBounds
  <2>5. PICK i \in {0, 300} : p.info = i
    BY DEF InBounds
  <2> HIDE DEF ends
  <2>6. ModelScore(w, s, p) = r + 2 * g + i + e
    BY <2>1, <2>2, <2>3, <2>4, <2>5
  <2> QED
    BY <2>6
<1>2. Veto(w, s, a, p) \in {-450, 0}
  BY DEF Veto, If
<1> QED
  BY <1>1, <1>2

-----------------------------------------------------------------------------
(* The choice.                                                             *)

\* What no hard block keeps from being chosen.
Free(mode, w, s, a) ==
    ~Blocked(w, s, a) \/ (mode = "hybrid_veto" /\ Escapes(w, s, a))

LEMMA ScoreIs ==
  ASSUME NEW mode \in GateMode, NEW w, NEW s, NEW a, NEW p
  PROVE  /\ mode = "model_only" =>
              Score(mode, w, s, a, p) = ModelScore(w, s, p) + LegacyGuard(w, s, a)
         /\ mode = "prior_only" => Score(mode, w, s, a, p) = Prior(w, s, a)
         /\ mode = "hybrid" /\ Free(mode, w, s, a) =>
              Score(mode, w, s, a, p) = ModelScore(w, s, p) + Prior(w, s, a)
         /\ mode = "hybrid_veto" /\ Free(mode, w, s, a) =>
              Score(mode, w, s, a, p) =
                ModelScore(w, s, p) + Prior(w, s, a) + Veto(w, s, a, p)
         /\ mode \in {"hybrid", "hybrid_veto"} /\ ~Free(mode, w, s, a) =>
              Score(mode, w, s, a, p) = HardBlock + Prior(w, s, a)
BY DEF Score, Free

LEMMA HardBlockIs == HardBlock \in Int /\ HardBlock < -5000
BY DEF HardBlock, Unit

LEMMA WorthIs ==
  ASSUME NEW mode \in GateMode, NEW w, IsWorld(w), NEW s, StateSound(w, s), ~s.done,
         NEW a, NEW predictor
  PROVE  /\ Worth(mode, predictor, w, s, a) \in Int
         /\ mode = "prior_only" => Worth(mode, predictor, w, s, a) = Prior(w, s, a)
         /\ mode \in {"hybrid", "hybrid_veto"} /\ Free(mode, w, s, a) =>
              Worth(mode, predictor, w, s, a) >= -3400
         /\ mode \in {"hybrid", "hybrid_veto"} /\ ~Free(mode, w, s, a) =>
              /\ Worth(mode, predictor, w, s, a) = HardBlock + Prior(w, s, a)
              /\ Worth(mode, predictor, w, s, a) < -4000
<1> DEFINE p == Says(predictor, w, s, a)
<1>1. InBounds(w, s, p)
  BY SaysInBounds
<1>2. Worth(mode, predictor, w, s, a) = Score(mode, w, s, a, p)
  BY DEF Worth
<1> HIDE DEF p
<1>3. ModelScore(w, s, p) \in -705..1350 /\ Veto(w, s, a, p) \in {-450, 0}
  BY <1>1, ModelInBounds
<1>4. PICK m \in -705..1350 : ModelScore(w, s, p) = m
  BY <1>3
<1>5. PICK i \in -2040..600 : Prior(w, s, a) = i
  BY PriorsInBounds
<1>6. PICK g \in -1200..300 : LegacyGuard(w, s, a) = g
  BY PriorsInBounds
<1>7. PICK v \in {-450, 0} : Veto(w, s, a, p) = v
  BY <1>3
<1>8. PICK h \in Int : HardBlock = h /\ h < -5000
  BY HardBlockIs
<1>9. CASE mode = "model_only"
  <2>1. Worth(mode, predictor, w, s, a) = m + g
    BY <1>2, <1>4, <1>6, <1>9, ScoreIs
  <2>2. PICK x \in Int : x = m + g
    OBVIOUS
  <2>3. Worth(mode, predictor, w, s, a) = x
    BY <2>1, <2>2
  <2> QED
    BY <1>9, <2>3
<1>10. CASE mode = "prior_only"
  <2>1. Worth(mode, predictor, w, s, a) = i
    BY <1>2, <1>5, <1>10, ScoreIs
  <2>2. Prior(w, s, a) = i /\ i \in Int
    BY <1>5
  <2> QED
    BY <1>10, <2>1, <2>2
<1>11. CASE mode = "hybrid" /\ Free(mode, w, s, a)
  <2>1. Worth(mode, predictor, w, s, a) = m + i
    BY <1>2, <1>4, <1>5, <1>11, ScoreIs
  <2>2. PICK x \in Int : x = m + i /\ x >= -3400
    OBVIOUS
  <2>3. Worth(mode, predictor, w, s, a) = x
    BY <2>1, <2>2
  <2> QED
    BY <1>11, <2>2, <2>3
<1>12. CASE mode = "hybrid_veto" /\ Free(mode, w, s, a)
  <2>1. Worth(mode, predictor, w, s, a) = m + i + v
    BY <1>2, <1>4, <1>5, <1>7, <1>12, ScoreIs
  <2>2. PICK x \in Int : x = m + i + v /\ x >= -3400
    OBVIOUS
  <2>3. Worth(mode, predictor, w, s, a) = x
    BY <2>1, <2>2
  <2> QED
    BY <1>12, <2>2, <2>3
<1>13. CASE mode \in {"hybrid", "hybrid_veto"} /\ ~Free(mode, w, s, a)
  <2>1. Worth(mode, predictor, w, s, a) = h + i
    BY <1>2, <1>5, <1>8, <1>13, ScoreIs
  <2>2. PICK x \in Int : x = h + i /\ x < -4000
    BY <1>8
  <2>3. /\ Worth(mode, predictor, w, s, a) = x
        /\ HardBlock + Prior(w, s, a) = x
    BY <1>5, <1>8, <2>1, <2>2
  <2> QED
    BY <1>13, <2>2, <2>3
<1> QED
  BY <1>9, <1>10, <1>11, <1>12, <1>13 DEF GateMode

\* What is chosen is a candidate that no candidate outscores; where blocks count, it
\* is free if one is.
IsChoice(mode, predictor, w, s, a) ==
    /\ a \in ToSet(Candidates(w, s))
    /\ \A b \in ToSet(Candidates(w, s)) :
         Worth(mode, predictor, w, s, b) =< Worth(mode, predictor, w, s, a)
    /\ mode \in {"hybrid", "hybrid_veto"} =>
         \A b \in ToSet(Candidates(w, s)) : Free(mode, w, s, b) => Free(mode, w, s, a)

LEMMA ChosenIs ==
  ASSUME NEW mode \in GateMode, NEW w, IsWorld(w), NEW s, StateSound(w, s), ~s.done,
         NEW predictor
  PROVE  IsChoice(mode, predictor, w, s, Chosen(mode, predictor, w, s))
<1> DEFINE c == Candidates(w, s)
           S(a) == Worth(mode, predictor, w, s, a)
           f == [n \in DOMAIN c |-> S(c[n])]
<1>1. \A n \in DOMAIN c : f[n] = S(c[n]) /\ f[n] \in Int
  BY WorthIs
<1>2. Chosen(mode, predictor, w, s) = FirstBest(w, c, f)
  BY Zenon DEF Chosen, Says, Worth
<1> HIDE DEF S, f
<1>3. PICK n \in DOMAIN c : FirstBest(w, c, f) = c[n] /\ \A m \in DOMAIN c : f[m] =< f[n]
  BY <1>1, FirstBestIs
<1>4. c[n] \in ToSet(c) /\ \A b \in ToSet(c) : S(b) =< S(c[n])
  BY <1>1, <1>3 DEF ToSet
<1> HIDE DEF c
<1>5. ASSUME NEW b \in ToSet(c), mode \in {"hybrid", "hybrid_veto"}, Free(mode, w, s, b),
             ~Free(mode, w, s, c[n])
      PROVE  FALSE
  <2>1. S(b) \in Int /\ S(b) >= -3400
    BY <1>5, WorthIs DEF S
  <2>2. S(c[n]) \in Int /\ S(c[n]) < -4000
    BY <1>5, WorthIs DEF S
  <2>3. S(b) =< S(c[n])
    BY <1>4
  <2> QED
    BY <2>1, <2>2, <2>3
<1> QED
  BY <1>2, <1>3, <1>4, <1>5, Zenon DEF c, S, IsChoice

-----------------------------------------------------------------------------
(* What is offered.                                                        *)

LEMMA Joined ==
  ASSUME NEW X, NEW p \in Seq(X), NEW q \in Seq(X)
  PROVE  /\ p \o q \in Seq(X) /\ Len(p \o q) = Len(p) + Len(q)
         /\ \A n \in 1..Len(p) : (p \o q)[n] = p[n]
         /\ \A n \in 1..Len(q) : (p \o q)[Len(p) + n] = q[n]
OBVIOUS

LEMMA LockOffers ==
  ASSUME NEW w, IsWorld(w), Lock(w), NEW s
  PROVE  /\ \A d \in 1..4 : Press(d) \in ToSet(Candidates(w, s))
         /\ w.kind = "trap" \/ SlotUnknown(w, s) => Inspect \in ToSet(Candidates(w, s))
<1> DEFINE head == IF w.kind = "trap" \/ s.progress + 1 \notin s.known
                      THEN <<Inspect>> ELSE <<>>
           digits == [d \in 1..4 |-> Press(d)]
           c == head \o digits \o <<Reset>>
           X == {Inspect, Reset} \cup {Press(d) : d \in 1..4}
<1>0. /\ Tool(w) <=> w.kind \in {"tool", "precondition"}
      /\ Lock(w) <=> w.kind \in {"lock", "trap"}
      /\ Maze(w) <=> w.kind \in {"maze", "hazard"}
  BY DEF Tool, Lock, Maze
<1>1. Candidates(w, s) = c
  BY <1>0 DEF Candidates
<1>2. digits \in Seq(X) /\ Len(digits) = 4 /\ \A d \in 1..4 : digits[d] = Press(d)
  OBVIOUS
<1>3. head \in Seq(X) /\ Len(head) \in Nat
  <2>1. <<Inspect>> \in Seq(X) /\ <<>> \in Seq(X)
    OBVIOUS
  <2> QED
    BY <2>1
<1>4. <<Reset>> \in Seq(X) /\ Len(<<Reset>>) = 1
  OBVIOUS
<1>5. w.kind = "trap" \/ SlotUnknown(w, s) => Len(head) = 1 /\ head[1] = Inspect
  BY DEF SlotUnknown
<1> HIDE DEF head, digits, X
<1>6. /\ head \o digits \in Seq(X) /\ Len(head \o digits) = Len(head) + Len(digits)
      /\ \A n \in 1..Len(head) : (head \o digits)[n] = head[n]
      /\ \A n \in 1..Len(digits) : (head \o digits)[Len(head) + n] = digits[n]
  <2>1. head \in Seq(X) /\ digits \in Seq(X)
    BY <1>2, <1>3
  <2> QED
    BY <2>1, Joined
<1>7. /\ c \in Seq(X) /\ Len(c) = Len(head \o digits) + 1
      /\ \A n \in 1..Len(head \o digits) : c[n] = (head \o digits)[n]
  BY <1>4, <1>6, Joined
<1> HIDE DEF c
<1>8. DOMAIN c = 1..(Len(head) + 5)
  BY <1>2, <1>3, <1>6, <1>7
<1>9. \A d \in 1..4 : c[Len(head) + d] = Press(d)
  BY <1>2, <1>3, <1>6, <1>7, SMTT(30)
<1>10. Len(head) = 1 => c[1] = head[1]
  BY <1>2, <1>3, <1>6, <1>7
<1> QED
  BY <1>1, <1>3, <1>5, <1>8, <1>9, <1>10, SMTT(30) DEF ToSet

LEMMA MazeOffers ==
  ASSUME NEW w, IsWorld(w), Maze(w), NEW s
  PROVE  /\ \A n \in DOMAIN w.doors : Move(w.doors[n]) \in ToSet(Candidates(w, s))
         /\ Inspect \in ToSet(Candidates(w, s))
<1> DEFINE moves == [n \in DOMAIN w.doors |-> Move(w.doors[n])]
           c == <<Inspect>> \o moves
           X == {Inspect} \cup {Move(w.doors[n]) : n \in DOMAIN w.doors}
<1>0. /\ Tool(w) <=> w.kind \in {"tool", "precondition"}
      /\ Lock(w) <=> w.kind \in {"lock", "trap"}
      /\ Maze(w) <=> w.kind \in {"maze", "hazard"}
  BY DEF Tool, Lock, Maze
<1>1. Candidates(w, s) = c
  BY <1>0 DEF Candidates
<1>2. /\ moves \in Seq(X) /\ DOMAIN moves = DOMAIN w.doors
      /\ \A n \in DOMAIN w.doors : moves[n] = Move(w.doors[n])
  BY DEF IsWorld
<1>3. <<Inspect>> \in Seq(X) /\ Len(<<Inspect>>) = 1 /\ <<Inspect>>[1] = Inspect
  OBVIOUS
<1> HIDE DEF moves, X
<1>4. /\ DOMAIN c = 1..(Len(moves) + 1) /\ Len(moves) \in Nat
      /\ DOMAIN moves = 1..Len(moves)
  BY <1>2, <1>3
<1>5. c[1] = Inspect
  BY <1>2, <1>3
<1>6. \A n \in DOMAIN w.doors : c[n + 1] = Move(w.doors[n])
  BY <1>2, <1>3, <1>4
<1> HIDE DEF c
<1> QED
  BY <1>1, <1>2, <1>4, <1>5, <1>6 DEF ToSet

LEMMA PreconditionOffers ==
  ASSUME NEW w, w.kind = "precondition", NEW s
  PROVE  ToSet(Candidates(w, s)) = {Use("search"), Use("read"), Use("summarize")}
<1>1. Candidates(w, s) = <<Use("search"), Use("read"), Use("summarize")>>
  BY DEF Candidates, Lock, Maze
<1> QED
  BY <1>1 DEF ToSet

\* The right action is always offered, and so is what sets a world up or reveals the
\* slot of a lock or a maze.
LEMMA RightIsOffered ==
  ASSUME NEW w, IsWorld(w), NEW s, IsOpen(w, s)
  PROVE  w.goal[s.progress + 1] \in ToSet(Candidates(w, s))
<1>1. s.progress + 1 \in Slots(w) /\ w.goal[s.progress + 1] \in GoalActions(w)
  BY RightIs, GoalHasSlots
<1>2. CASE Lock(w)
  <2>1. GoalActions(w) = {Press(d) : d \in 1..4}
    BY <1>2, Shapes DEF GoalActions, Tool
  <2> QED
    BY <1>1, <1>2, <2>1, LockOffers
<1>3. CASE Maze(w)
  <2>1. GoalActions(w) = {Move(w.doors[n]) : n \in DOMAIN w.doors}
    BY <1>3, Shapes DEF GoalActions, Tool
  <2> QED
    BY <1>1, <1>3, <2>1, MazeOffers
<1>4. CASE w.kind = "tool"
  <2>1. \A m \in Slots(w) :
          \E n \in DOMAIN Candidates(w, s) : Candidates(w, s)[n] = w.goal[m]
    BY <1>4, ToolOffers
  <2> QED
    BY <1>1, <2>1 DEF ToSet
<1>5. CASE w.kind = "precondition"
  <2>1. GoalActions(w) = {Use("read"), Use("summarize")}
    BY <1>5 DEF GoalActions, Lock, Maze
  <2> QED
    BY <1>1, <1>5, <2>1, PreconditionOffers
<1> QED
  BY <1>2, <1>3, <1>4, <1>5, Shapes DEF Tool

\* Which worlds are armed.
LEMMA ArmedIs ==
  ASSUME NEW w, IsWorld(w), NEW s, StateSound(w, s), s.armed
  PROVE  /\ w.kind \in {"trap", "hazard", "precondition"} /\ s.progress = 0
         /\ InitiallyArmed(w)
         /\ Lock(w) => w.kind = "trap"
         /\ Maze(w) => w.kind = "hazard"
         /\ Tool(w) => w.kind = "precondition"
BY DEF StateSound, InitiallyArmed, Lock, Maze, Tool

-----------------------------------------------------------------------------
(* Who calls an action that the world refuses.                             *)

LEMMA ExpertCalls ==
  ASSUME NEW w, IsWorld(w), NEW s, StateSound(w, s), ~s.done
  PROVE  \/ ExpertAction(w, s) \in ToSet(Candidates(w, s))
         \/ ExpertAction(w, s) = Use("search")
<1>1. IsOpen(w, s)
  BY SoundIsOpen
<1>2. w.goal[s.progress + 1] \in ToSet(Candidates(w, s))
  BY <1>1, RightIsOffered
<1>3. CASE Lock(w)
  <2>1. ExpertAction(w, s) = IF s.armed \/ SlotUnknown(w, s)
                                THEN Inspect ELSE w.goal[s.progress + 1]
    BY <1>3 DEF ExpertAction, Lock
  <2>2. s.armed => w.kind = "trap"
    BY <1>3, ArmedIs
  <2> QED
    BY <1>2, <1>3, <2>1, <2>2, LockOffers
<1>4. CASE Maze(w)
  <2>1. ExpertAction(w, s) \in {Inspect, w.goal[s.progress + 1]}
    BY <1>4 DEF ExpertAction, Maze, Lock
  <2> QED
    BY <1>2, <1>4, <2>1, MazeOffers
<1>5. CASE Tool(w)
  <2>1. ExpertAction(w, s) \in {Use("search"), w.goal[s.progress + 1]}
    BY <1>5 DEF ExpertAction, Tool, Lock
  <2> QED
    BY <1>2, <2>1
<1> QED
  BY <1>3, <1>4, <1>5, Shapes

LEMMA GateAnswers ==
  ASSUME EpisodeInv, ~state.done, agent.role # "expert", NEW a \in Answers
  PROVE  a \in ToSet(Candidates(world, state))
<1>1. IsWorld(world) /\ StateSound(world, state)
  BY PlayingIsOpen
<1>2. agent.mode \in GateMode /\ "prior_only" \in GateMode
  BY DEF EpisodeInv, Agent, GateMode
<1>3. \A mode \in GateMode : \A predictor :
        Chosen(mode, predictor, world, state) \in ToSet(Candidates(world, state))
  BY <1>1, ChosenIs DEF IsChoice
<1>4. Choosable(agent.mode, world, state) \subseteq ToSet(Candidates(world, state))
  BY <1>2, <1>3 DEF Choosable
<1> QED
  BY <1>2, <1>3, <1>4 DEF Answers

LEMMA WhoIsRefused ==
  ASSUME EpisodeInv, ~state.done, NEW a \in Answers, ~Allowed(world, a)
  PROVE  agent.role = "expert" /\ ~Allowed(world, Use("search"))
<1>1. IsWorld(world) /\ StateSound(world, state)
  BY PlayingIsOpen
<1>2. a \notin ToSet(Candidates(world, state))
  BY <1>1, CandidateNames
<1>3. agent.role = "expert"
  BY <1>2, GateAnswers
<1>4. a = ExpertAction(world, state)
  BY <1>3 DEF Answers
<1> QED
  BY <1>1, <1>2, <1>3, <1>4, ExpertCalls

-----------------------------------------------------------------------------
(* What the priors of a known slot are.                                    *)

Wanted(w, s) == w.goal[s.progress + 1]

LEMMA WantedIs ==
  ASSUME NEW w, IsWorld(w), NEW s, IsOpen(w, s)
  PROVE  /\ Lock(w) => Name(Wanted(w, s)) = "press"
         /\ Maze(w) => Name(Wanted(w, s)) = "move" /\ LastStep(w, s)
         /\ Tool(w) => Name(Wanted(w, s)) \in {"search", "read", "summarize"}
         /\ w.kind = "precondition" => Name(Wanted(w, s)) # "search"
         /\ Name(Wanted(w, s)) = "summarize" => LastStep(w, s)
         /\ Wanted(w, s) # Inspect /\ Wanted(w, s) # Reset
         /\ Wanted(w, s) # NoAction
<1>1. /\ s.progress \in Nat /\ s.progress < Len(w.goal) /\ Len(w.goal) \in Nat
      /\ s.progress + 1 \in Slots(w) /\ Wanted(w, s) \in GoalActions(w)
  BY RightIs, GoalHasSlots DEF IsOpen, IsState, Wanted
<1>2. Maze(w) => LastStep(w, s)
  <2> SUFFICES ASSUME Maze(w) PROVE s.progress = Len(w.goal) - 1
    BY DEF LastStep
  <2>1. Len(w.goal) = 1
    BY DEF IsWorld
  <2>2. s.progress = 0
    BY <1>1, <2>1
  <2> QED
    BY <2>1, <2>2
<1>3. Name(Wanted(w, s)) = "summarize" => LastStep(w, s)
  <2> SUFFICES ASSUME Name(Wanted(w, s)) = "summarize", ~LastStep(w, s)
               PROVE  FALSE
    OBVIOUS
  <2>1. Tool(w)
    BY <1>1, GoalNames, Shapes
  <2>2. Wanted(w, s) = Use("summarize")
    <3>1. GoalActions(w) \subseteq {Use("search"), Use("read"), Use("summarize")}
      BY <2>1 DEF Tool, GoalActions, Lock, Maze
    <3>2. \A t : Name(Use(t)) = t
      BY DEF Name, Use
    <3> QED
      BY <1>1, <3>1, <3>2
  <2>3. s.progress + 1 \in 1..(Len(w.goal) - 1)
    BY <1>1 DEF LastStep
  <2> QED
    BY <2>2, <2>3 DEF IsWorld, Wanted
<1>4. Name(Inspect) = "inspect" /\ Name(Reset) = "reset" /\ Name(NoAction) = "none"
  BY DEF Name, Inspect, Reset, NoAction
<1>5. Name(Wanted(w, s)) \in {"press", "move", "search", "read", "summarize"}
  BY <1>1, GoalNames, Shapes
<1> QED
  BY <1>1, <1>2, <1>3, <1>4, <1>5, GoalNames

LEMMA WantedIsRequired ==
  ASSUME NEW w, IsWorld(w), NEW s, IsOpen(w, s), ~SlotUnknown(w, s)
  PROVE  Known(w, s) /\ \A a : Matches(w, s, a) <=> a = Wanted(w, s)
<1>1. Required(w, s) = Wanted(w, s)
  BY DEF Required, Wanted
<1> QED
  BY <1>1, WantedIs DEF Known, Matches

\* Only what is in need of a search keeps the wanted tool from being chosen.
LEMMA WantedPrior ==
  ASSUME NEW w, IsWorld(w), NEW s, IsOpen(w, s), ~SlotUnknown(w, s)
  PROVE  /\ ~s.armed \/ Maze(w) \/ Name(Wanted(w, s)) # "summarize" =>
              ~Blocked(w, s, Wanted(w, s)) /\ Prior(w, s, Wanted(w, s)) = 300
         /\ Prior(w, s, Wanted(w, s)) \in {300, -300}
<1> DEFINE r == Wanted(w, s)
<1>1. Known(w, s) /\ Matches(w, s, r)
  BY WantedIsRequired
<1>2. TerminalOnly(r) <=> Name(r) \in {"move", "summarize"}
  BY DEF TerminalOnly
<1>3. TerminalOnly(r) => LastStep(w, s)
  BY <1>2, WantedIs, Shapes
<1>4. TerminalOnly(r) => (CanFinish(w, s) <=> Maze(w) \/ ~s.armed)
  BY <1>3 DEF CanFinish
<1>5. r # Reset
  BY WantedIs
<1>6. Name(r) = "move" => Maze(w)
  BY WantedIs, Shapes
<1> HIDE DEF r
<1>7. Prior(w, s, r) = 300 - If(TerminalOnly(r) /\ ~CanFinish(w, s), 600)
  BY <1>1, <1>5 DEF Prior, If
<1>8. ASSUME ~s.armed \/ Maze(w) \/ Name(r) # "summarize"
      PROVE  ~Blocked(w, s, r) /\ Prior(w, s, r) = 300
  <2>1. ~(TerminalOnly(r) /\ ~CanFinish(w, s))
    BY <1>2, <1>4, <1>6, <1>8
  <2>2. Prior(w, s, r) = 300
    BY <1>7, <2>1 DEF If
  <2>3. ~Blocked(w, s, r)
    BY <1>1, <2>1 DEF Blocked
  <2> QED
    BY <2>2, <2>3
<1>9. Prior(w, s, r) \in {300, -300}
  BY <1>7 DEF If
<1> QED
  BY <1>8, <1>9 DEF r

LEMMA OtherPrior ==
  ASSUME NEW w, IsWorld(w), NEW s, IsOpen(w, s), ~SlotUnknown(w, s),
         NEW a, a # Wanted(w, s)
  PROVE  /\ Blocked(w, s, a) <=> ~(TerminalOnly(a) /\ CanFinish(w, s))
         /\ Prior(w, s, a) =< 0
         /\ Executes(a) => Prior(w, s, a) =< -360
         /\ Executes(a) /\ ~TerminalOnly(a) => Prior(w, s, a) = -360
         /\ a = Inspect => Prior(w, s, a) = 0
<1>1. Known(w, s) /\ ~Matches(w, s, a)
  BY WantedIsRequired
<1>2. Blocked(w, s, a) <=> ~(TerminalOnly(a) /\ CanFinish(w, s))
  BY <1>1 DEF Blocked
<1>3. Inspect # Reset /\ Name(Inspect) = "inspect" /\ Name(Reset) = "reset"
  BY DEF Inspect, Reset, Name
<1>4. Executes(a) => a # Reset
  BY <1>3 DEF Executes
<1>5. PICK e \in {360, 0} : If(Executes(a), 360) = e /\ (Executes(a) => e = 360)
                              /\ (~Executes(a) => e = 0)
  BY DEF If
<1>6. PICK t \in {600, 0} : If(TerminalOnly(a) /\ ~CanFinish(w, s), 600) = t
                              /\ (~TerminalOnly(a) => t = 0)
  BY DEF If
<1>7. PICK u \in {240, 0} : If(a = Reset /\ s.progress > 0, 240) = u
                              /\ (a # Reset => u = 0)
  BY DEF If
<1>8. Prior(w, s, a) = 0 - If(Executes(a), 360)
                         - If(TerminalOnly(a) /\ ~CanFinish(w, s), 600)
                         - If(a = Reset /\ s.progress > 0, 240)
  BY <1>1 DEF Prior, If
<1>9. Prior(w, s, a) = 0 - e - t - u
  BY <1>5, <1>6, <1>7, <1>8
<1>10. a = Inspect => ~Executes(a) /\ ~TerminalOnly(a) /\ a # Reset
  BY <1>3 DEF Executes, TerminalOnly
<1> QED
  BY <1>2, <1>4, <1>5, <1>6, <1>7, <1>9, <1>10

-----------------------------------------------------------------------------
(* Who never sets a world up.                                              *)

\* What disarms a world.
Disarms(w, a) == IF Tool(w) THEN Name(a) = "search" ELSE a = Inspect

LEMMA OnlyThatDisarms ==
  ASSUME NEW w, IsWorld(w), NEW s, StateSound(w, s), ~s.done, s.armed,
         NEW a, ~Disarms(w, a)
  PROVE  StepWorld(w, s, a).armed = TRUE
<1>1. IsOpen(w, s)
  BY SoundIsOpen
<1>2. StepWorld(w, s, a).armed = Effect(w, s, a).armed
  BY DEF StepWorld
<1>3. Effect(w, s, a).armed = TRUE
  <2>1. CASE Lock(w)
    <3>1. LockMoves(w, s, a)
      BY <1>1, <2>1, LockFields
    <3>2. w.kind = "trap" /\ a # Inspect
      BY <2>1, ArmedIs, Shapes DEF Disarms
    <3> QED
      BY <3>1, <3>2, ArmedIs DEF LockMoves
  <2>2. CASE Maze(w)
    <3>1. MazeMoves(w, s, a)
      BY <1>1, <2>2, MazeFields
    <3>2. a # Inspect
      BY <2>2, Shapes DEF Disarms
    <3> QED
      BY <3>1, <3>2 DEF MazeMoves
  <2>3. CASE Tool(w)
    <3>1. ToolMoves(w, s, a)
      BY <1>1, <2>3, ToolFields
    <3>2. ~SetsUp(w, a)
      BY <2>3 DEF Disarms, SetsUp
    <3> QED
      BY <3>1, <3>2 DEF ToolMoves
  <2> QED
    BY <2>1, <2>2, <2>3, Shapes
<1> QED
  BY <1>2, <1>3

\* A gate without a veto prefers the action it knows to come next, even where it is
\* blocked, to what would disarm the world.
LEMMA WithoutVeto ==
  ASSUME NEW w, IsWorld(w), NEW s, StateSound(w, s), ~s.done, s.armed,
         ~SlotUnknown(w, s), NEW mode \in {"prior_only", "hybrid"},
         NEW predictor, NEW a, IsChoice(mode, predictor, w, s, a)
  PROVE  ~Disarms(w, a)
<1> SUFFICES ASSUME Disarms(w, a) PROVE FALSE
  OBVIOUS
<1> DEFINE r == Wanted(w, s)
<1>1. IsOpen(w, s) /\ r \in ToSet(Candidates(w, s)) /\ mode \in GateMode
  BY SoundIsOpen, RightIsOffered DEF Wanted, GateMode
<1>2. a # r
  BY <1>1, ArmedIs, WantedIs DEF Disarms
<1>3. Blocked(w, s, a)
  <2>1. ~TerminalOnly(a)
    BY DEF Disarms, TerminalOnly, Name, Inspect
  <2> QED
    BY <1>1, <1>2, <2>1, OtherPrior
<1>4. PICK x \in -2040..600 : Prior(w, s, a) = x
  BY PriorsInBounds
<1>5. PICK y \in {300, -300} : Prior(w, s, r) = y
  BY <1>1, WantedPrior
<1>6. x < y
  <2>1. CASE Tool(w)
    <3>1. Executes(a)
      BY <2>1 DEF Disarms, Executes
    <3>2. x =< -360
      BY <1>1, <1>2, <1>4, <3>1, OtherPrior
    <3> QED
      BY <3>2
  <2>2. CASE ~Tool(w)
    <3>1. a = Inspect
      BY <2>2 DEF Disarms
    <3>2. x = 0
      BY <1>1, <1>2, <1>4, <3>1, OtherPrior
    <3>3. Name(r) # "summarize"
      BY <1>1, <2>2, WantedIs, Shapes
    <3>4. y = 300
      BY <1>1, <1>5, <3>3, WantedPrior
    <3> QED
      BY <3>2, <3>4
  <2> QED
    BY <2>1, <2>2
<1> HIDE DEF r
<1>7. Worth(mode, predictor, w, s, r) =< Worth(mode, predictor, w, s, a)
  BY <1>1 DEF IsChoice
<1>8. CASE mode = "prior_only"
  <2>1. /\ Worth(mode, predictor, w, s, a) = x
        /\ Worth(mode, predictor, w, s, r) = y
    BY <1>1, <1>4, <1>5, <1>8, WorthIs
  <2> QED
    BY <1>6, <1>7, <2>1
<1>9. CASE mode = "hybrid"
  <2>1. ~Free(mode, w, s, a)
    BY <1>3, <1>9 DEF Free
  <2>2. ~Free(mode, w, s, r)
    BY <1>1, <1>9, <2>1 DEF IsChoice
  <2>3. PICK h \in Int : HardBlock = h
    BY HardBlockIs
  <2>4. /\ Worth(mode, predictor, w, s, a) = h + x
        /\ Worth(mode, predictor, w, s, r) = h + y
    BY <1>1, <1>4, <1>5, <1>9, <2>1, <2>2, <2>3, WorthIs
  <2> QED
    BY <1>6, <1>7, <2>4
<1> QED
  BY <1>8, <1>9

\* ... whatever its predictor says.
LEMMA WithoutVetoOfAny ==
  ASSUME NEW w, IsWorld(w), NEW s, StateSound(w, s), ~s.done, s.armed,
         ~SlotUnknown(w, s), NEW mode \in {"prior_only", "hybrid"},
         NEW a \in Choosable(mode, w, s)
  PROVE  ~Disarms(w, a)
<1>1. IsOpen(w, s) /\ mode \in GateMode /\ "prior_only" \in GateMode
  BY SoundIsOpen DEF GateMode
<1> DEFINE best == Chosen("prior_only", "noop", w, s)
<1>2. ~Disarms(w, best)
  <2>1. IsChoice("prior_only", "noop", w, s, best)
    BY <1>1, ChosenIs
  <2> HIDE DEF best
  <2> QED
    BY <2>1, WithoutVeto
<1> HIDE DEF best
<1>3. a = best \/ ~Blocked(w, s, a)
  BY DEF Choosable, best
<1>4. ASSUME Disarms(w, a) PROVE Blocked(w, s, a)
  <2>1. a # Wanted(w, s)
    BY <1>1, <1>4, ArmedIs, WantedIs DEF Disarms
  <2>2. ~TerminalOnly(a)
    BY <1>4 DEF Disarms, TerminalOnly, Name, Inspect
  <2> QED
    BY <1>1, <2>1, <2>2, OtherPrior
<1> QED
  BY <1>2, <1>3, <1>4

\* A state of an episode that cannot be done: armed, and what comes next is known.
Stuck == state.armed /\ 1 \in state.known

LEMMA UnarmedNever ==
  ASSUME EpisodeInv, ~state.done, Gated({"prior_only", "hybrid"}), Stuck,
         NEW a \in Answers
  PROVE  StepWorld(world, state, a).armed = TRUE
<1>1. IsWorld(world) /\ StateSound(world, state)
  BY PlayingIsOpen
<1>2. ~SlotUnknown(world, state)
  <2>1. state.progress = 0
    BY <1>1, ArmedIs DEF Stuck
  <2> QED
    BY <2>1 DEF Stuck, SlotUnknown
<1>3. /\ agent.mode \in {"prior_only", "hybrid"} /\ agent.role = "gated"
      /\ agent.mode \in GateMode
  BY DEF Gated, GateMode
<1>4. \/ a \in Choosable(agent.mode, world, state)
      \/ a = Chosen(agent.mode, agent.predictor, world, state)
  BY <1>3 DEF Answers
<1>5. ~Disarms(world, a)
  <2>1. CASE a \in Choosable(agent.mode, world, state)
    BY <1>1, <1>2, <1>3, <2>1, WithoutVetoOfAny DEF Stuck
  <2>2. CASE a = Chosen(agent.mode, agent.predictor, world, state)
    <3>1. IsChoice(agent.mode, agent.predictor, world, state, a)
      BY <1>1, <1>3, <2>2, ChosenIs
    <3> QED
      BY <1>1, <1>2, <1>3, <3>1, WithoutVeto DEF Stuck
  <2> QED
    BY <1>4, <2>1, <2>2
<1> QED
  BY <1>1, <1>5, OnlyThatDisarms DEF Stuck

-----------------------------------------------------------------------------
(* The shortest way.                                                       *)

\* Whether something has to be done before what is wanted: an armed world is set up,
\* a slot is revealed; only who needs the hint looks at a hazard that is not active.
Pending(w, s, needsHint) ==
    s.armed \/ (SlotUnknown(w, s) /\ (w.kind = "hazard" => needsHint))

Prepares(w, s, a) ==
    IF s.armed THEN Disarms(w, a)
    ELSE IF Tool(w) THEN Reveals(a)
    ELSE a = Inspect

\* An action that is not a step too many.
Good(w, s, needsHint, a) ==
    IF Pending(w, s, needsHint) THEN Prepares(w, s, a) ELSE a = Wanted(w, s)

\* How often there is something to prepare.
ToPrepare(w, s, needsHint) ==
    IF w.kind = "hazard" THEN If(s.armed \/ (needsHint /\ 1 \notin s.known), 1)
    ELSE Cardinality(Slots(w) \ s.known) + If(s.armed, 1)

\* A way of n steps: those taken and those that are left.
OnTheWay(w, s, needsHint, n) ==
    /\ s.steps + (Len(w.goal) - s.progress) + ToPrepare(w, s, needsHint) = n
    /\ (w.kind = "hazard" => needsHint) => 1..s.progress \subseteq s.known
    /\ s.armed => s.known = InitiallyKnown(w)

LEMMA ToPrepareType ==
  ASSUME NEW w, IsWorld(w), NEW s, NEW needsHint
  PROVE  /\ Cardinality(Slots(w) \ s.known) \in Nat
         /\ IsFiniteSet(Slots(w) \ s.known)
         /\ ToPrepare(w, s, needsHint) \in Nat
<1>1. IsFiniteSet(Slots(w))
  BY GoalHasSlots, FS_Interval
<1>2. IsFiniteSet(Slots(w) \ s.known)
  BY <1>1, FS_Difference
<1>3. Cardinality(Slots(w) \ s.known) \in Nat
  BY <1>2, FS_CardinalityType
<1> QED
  BY <1>2, <1>3 DEF ToPrepare, If

LEMMA ToPrepareIs ==
  ASSUME NEW w, IsWorld(w), NEW s, NEW needsHint
  PROVE  /\ w.kind = "hazard" /\ (s.armed \/ (needsHint /\ 1 \notin s.known)) =>
              ToPrepare(w, s, needsHint) = 1
         /\ w.kind = "hazard" /\ ~(s.armed \/ (needsHint /\ 1 \notin s.known)) =>
              ToPrepare(w, s, needsHint) = 0
         /\ w.kind # "hazard" /\ s.armed =>
              ToPrepare(w, s, needsHint) = Cardinality(Slots(w) \ s.known) + 1
         /\ w.kind # "hazard" /\ ~s.armed =>
              ToPrepare(w, s, needsHint) = Cardinality(Slots(w) \ s.known)
<1>1. PICK k \in Nat : Cardinality(Slots(w) \ s.known) = k
  BY ToPrepareType
<1> QED
  BY <1>1 DEF ToPrepare, If

\* A good action prepares something or does what is wanted.
GoesWell(w, s, needsHint, t) ==
    /\ t.steps = s.steps + 1 /\ t.armed = FALSE
    /\ IF Pending(w, s, needsHint)
          THEN t.progress = s.progress /\ t.known = s.known \cup {s.progress + 1}
          ELSE t.progress = s.progress + 1 /\ t.known = s.known

LEMMA GoodEffect ==
  ASSUME NEW w, IsWorld(w), NEW s, StateSound(w, s), ~s.done,
         NEW needsHint \in BOOLEAN, NEW a, Good(w, s, needsHint, a)
  PROVE  GoesWell(w, s, needsHint, StepWorld(w, s, a))
<1> DEFINE t == StepWorld(w, s, a)
<1> SUFFICES /\ t.steps = s.steps + 1 /\ t.armed = FALSE
             /\ IF Pending(w, s, needsHint)
                   THEN t.progress = s.progress /\ t.known = s.known \cup {s.progress + 1}
                   ELSE t.progress = s.progress + 1 /\ t.known = s.known
  BY Zenon DEF GoesWell
<1> DEFINE e == Effect(w, s, a)
<1>1. /\ StepWorld(w, s, a).steps = s.steps + 1
      /\ StepWorld(w, s, a).progress = e.progress
      /\ StepWorld(w, s, a).known = e.known
      /\ StepWorld(w, s, a).armed = e.armed
  BY DEF StepWorld
<1>2. /\ IsOpen(w, s) /\ s.progress \in Nat /\ s.known \subseteq Slots(w)
      /\ s.armed \in BOOLEAN /\ s.progress + 1 \in Slots(w)
      /\ Maze(w) => s.progress = 0
  <2>1. IsOpen(w, s) /\ s.progress + 1 \in Slots(w)
    BY SoundIsOpen, RightIs
  <2>2. Maze(w) => Len(w.goal) = 1
    BY DEF IsWorld
  <2>3. /\ s.progress \in Nat /\ s.known \subseteq Slots(w) /\ s.armed \in BOOLEAN
        /\ s.progress < Len(w.goal) /\ Len(w.goal) \in Nat
    BY <2>1, GoalHasSlots DEF IsOpen, IsState
  <2>4. Maze(w) => s.progress = 0
    <3>1. PICK p \in Nat, L \in Nat : s.progress = p /\ Len(w.goal) = L /\ p < L
      BY <2>3
    <3> QED
      BY <2>2, <3>1
  <2> QED
    BY <2>1, <2>3, <2>4
<1>3. Right(w, s, a) <=> a = Wanted(w, s)
  BY DEF Right, Wanted
<1> HIDE DEF e
<1>4. CASE Lock(w)
  <2>1. LockMoves(w, s, a)
    BY <1>2, <1>4, LockFields
  <2>2. w.kind # "hazard" /\ ~Tool(w)
    BY <1>4, Shapes DEF Lock
  <2>3. CASE Pending(w, s, needsHint)
    <3>1. a = Inspect
      BY <2>2, <2>3 DEF Good, Prepares, Disarms
    <3> QED
      BY <1>1, <2>1, <2>3, <3>1 DEF LockMoves, e
  <2>4. CASE ~Pending(w, s, needsHint)
    <3>1. a = Wanted(w, s) /\ ~s.armed
      BY <2>4 DEF Good, Pending
    <3>2. a # Inspect /\ a # Reset
      BY <1>2, <3>1, WantedIs
    <3> QED
      BY <1>1, <1>2, <1>3, <2>1, <2>4, <3>1, <3>2 DEF LockMoves, e
  <2> QED
    BY <2>3, <2>4
<1>5. CASE Maze(w)
  <2>1. MazeMoves(w, s, a)
    BY <1>2, <1>5, MazeFields
  <2>2. ~Tool(w)
    BY <1>5, Shapes
  <2>3. CASE Pending(w, s, needsHint)
    <3>1. a = Inspect
      BY <2>2, <2>3 DEF Good, Prepares, Disarms
    <3> QED
      BY <1>1, <2>1, <2>3, <3>1 DEF MazeMoves, e
  <2>4. CASE ~Pending(w, s, needsHint)
    <3>1. a = Wanted(w, s) /\ ~s.armed
      BY <2>4 DEF Good, Pending
    <3>2. a # Inspect
      BY <1>2, <3>1, WantedIs
    <3>3. w.kind = "hazard" \/ 1 \in s.known
      BY <1>2, <1>5, <2>4 DEF Pending, SlotUnknown
    <3> QED
      BY <1>1, <1>2, <1>3, <2>1, <2>4, <3>1, <3>2, <3>3 DEF MazeMoves, e
  <2> QED
    BY <2>3, <2>4
<1>6. CASE Tool(w)
  <2>1. ToolMoves(w, s, a)
    BY <1>2, <1>6, ToolFields
  <2>2. /\ s.armed => w.kind = "precondition"
        /\ w.kind = "precondition" => ~SlotUnknown(w, s)
        /\ w.kind # "hazard"
    BY <1>2, <1>6, ArmedIs, RightIs DEF Tool
  <2>3. CASE s.armed
    <3>1. /\ Name(a) = "search" /\ Pending(w, s, needsHint) /\ SetsUp(w, a)
          /\ ~Revealing(w, s, a)
      BY <1>6, <2>2, <2>3 DEF Good, Prepares, Disarms, Pending, SetsUp, Revealing
    <3>2. s.known = s.known \cup {s.progress + 1}
      BY <2>2, <2>3 DEF SlotUnknown
    <3> QED
      BY <1>1, <2>1, <3>1, <3>2 DEF ToolMoves, e
  <2>4. CASE ~s.armed /\ SlotUnknown(w, s)
    <3>1. Revealing(w, s, a) /\ Pending(w, s, needsHint)
      BY <1>6, <2>2, <2>4 DEF Good, Prepares, Pending, Revealing
    <3> QED
      BY <1>1, <1>2, <2>1, <2>4, <3>1 DEF ToolMoves, e
  <2>5. CASE ~s.armed /\ ~SlotUnknown(w, s)
    <3>1. a = Wanted(w, s) /\ ~Revealing(w, s, a) /\ ~Pending(w, s, needsHint)
      BY <2>5 DEF Good, Pending, Revealing
    <3>2. ~SetsUp(w, a)
      BY <1>2, <3>1, WantedIs DEF SetsUp
    <3> QED
      BY <1>1, <1>2, <1>3, <2>1, <2>5, <3>1, <3>2 DEF ToolMoves, e
  <2> QED
    BY <2>3, <2>4, <2>5
<1> QED
  BY <1>4, <1>5, <1>6, Shapes

LEMMA GoodStep ==
  ASSUME NEW w, IsWorld(w), NEW s, StateSound(w, s), ~s.done,
         NEW needsHint \in BOOLEAN, NEW n, OnTheWay(w, s, needsHint, n),
         NEW a, Good(w, s, needsHint, a)
  PROVE  OnTheWay(w, StepWorld(w, s, a), needsHint, n)
<1> DEFINE t == StepWorld(w, s, a)
           H == Slots(w) \ s.known
<1>0. GoesWell(w, s, needsHint, t)
  BY GoodEffect
<1> SUFFICES OnTheWay(w, t, needsHint, n)
  OBVIOUS
<1> HIDE DEF t
<1>1. /\ t.steps = s.steps + 1 /\ t.armed = FALSE
      /\ Pending(w, s, needsHint) =>
           t.progress = s.progress /\ t.known = s.known \cup {s.progress + 1}
      /\ ~Pending(w, s, needsHint) => t.progress = s.progress + 1 /\ t.known = s.known
  BY <1>0 DEF GoesWell
<1>2. /\ s.progress + 1 \in Slots(w) /\ s.known \subseteq Slots(w)
      /\ s.armed \in BOOLEAN
  BY SoundIsOpen, RightIs DEF IsOpen, IsState
<1>3. PICK p \in Nat, i \in Nat, L \in Nat :
        s.progress = p /\ s.steps = i /\ Len(w.goal) = L
  BY SoundIsOpen, GoalHasSlots DEF IsOpen, IsState
<1>4. IsFiniteSet(H) /\ Cardinality(H) \in Nat
  BY ToPrepareType
<1>5. PICK k \in Nat : ToPrepare(w, s, needsHint) = k
  BY ToPrepareType
<1>6. i + (L - p) + k = n
  BY <1>3, <1>5 DEF OnTheWay
<1>7. CASE Pending(w, s, needsHint)
  <2>1. ToPrepare(w, t, needsHint) = k - 1
    <3>1. CASE w.kind = "hazard"
      <4>1. s.progress = 0
        <5>1. Len(w.goal) = 1
          BY <3>1 DEF IsWorld, Maze
        <5>2. p < L
          BY <1>3, SoundIsOpen DEF IsOpen
        <5> QED
          BY <1>3, <5>1, <5>2
      <4>2. s.armed \/ (needsHint /\ 1 \notin s.known)
        BY <1>7, <3>1, <4>1 DEF Pending, SlotUnknown
      <4>3. ~t.armed /\ 1 \in t.known
        BY <1>1, <1>7, <4>1
      <4>4. k = 1
        BY <1>5, <3>1, <4>2, ToPrepareIs
      <4>5. ToPrepare(w, t, needsHint) = 0
        BY <3>1, <4>3, ToPrepareIs
      <4> QED
        BY <4>4, <4>5
    <3>2. CASE w.kind # "hazard" /\ s.armed
      <4>1. w.kind \in {"trap", "precondition"}
        BY <3>2, ArmedIs
      <4>2. s.known = Slots(w)
        BY <4>1 DEF StateSound, IsState
      <4>3. t.known = s.known
        BY <1>1, <1>2, <1>7, <4>2
      <4>4. k = Cardinality(H) + 1
        BY <1>5, <3>2, ToPrepareIs
      <4>5. ToPrepare(w, t, needsHint) = Cardinality(H)
        BY <1>1, <3>2, <4>3, ToPrepareIs
      <4> QED
        BY <1>4, <4>4, <4>5
    <3>3. CASE w.kind # "hazard" /\ ~s.armed
      <4>1. s.progress + 1 \in H
        BY <1>2, <1>7, <3>3 DEF Pending, SlotUnknown
      <4>2. Slots(w) \ t.known = H \ {s.progress + 1}
        BY <1>1, <1>7
      <4>3. k = Cardinality(H)
        BY <1>5, <3>3, ToPrepareIs
      <4> HIDE DEF H
      <4>4. Cardinality(H \ {s.progress + 1}) = Cardinality(H) - 1
        BY <1>4, <4>1, FS_RemoveElement
      <4>5. ToPrepare(w, t, needsHint) = Cardinality(H \ {s.progress + 1})
        BY <1>1, <3>3, <4>2, ToPrepareIs
      <4> QED
        BY <1>4, <4>3, <4>4, <4>5
    <3> QED
      BY <1>2, <3>1, <3>2, <3>3
  <2>2. t.steps = i + 1 /\ t.progress = p
    BY <1>1, <1>3, <1>7
  <2>3. t.steps + (Len(w.goal) - t.progress) + ToPrepare(w, t, needsHint) = n
    BY <1>3, <1>6, <2>1, <2>2
  <2>4. (w.kind = "hazard" => needsHint) => 1..t.progress \subseteq t.known
    <3>1. (w.kind = "hazard" => needsHint) => 1..s.progress \subseteq s.known
      BY DEF OnTheWay
    <3> QED
      BY <1>1, <1>7, <3>1
  <2> QED
    BY <1>1, <2>3, <2>4 DEF OnTheWay
<1>8. CASE ~Pending(w, s, needsHint)
  <2>1. ~s.armed /\ ~t.armed /\ t.known = s.known
    BY <1>1, <1>8 DEF Pending
  <2>2. ToPrepare(w, t, needsHint) = k
    BY <1>5, <2>1, ToPrepareIs
  <2>3. t.steps = i + 1 /\ t.progress = p + 1
    BY <1>1, <1>3, <1>8
  <2>4. t.steps + (Len(w.goal) - t.progress) + ToPrepare(w, t, needsHint) = n
    BY <1>3, <1>6, <2>2, <2>3
  <2>5. ASSUME w.kind = "hazard" => needsHint
        PROVE  1..t.progress \subseteq t.known
    <3>1. p + 1 \in s.known /\ 1..p \subseteq s.known
      BY <1>3, <1>8, <2>5 DEF Pending, SlotUnknown, OnTheWay
    <3>2. 1..(p + 1) = 1..p \cup {p + 1}
      BY <1>3
    <3> QED
      BY <2>1, <2>3, <3>1, <3>2
  <2> QED
    BY <2>1, <2>4, <2>5 DEF OnTheWay
<1> QED
  BY <1>7, <1>8

LEMMA WayStarts ==
  ASSUME NEW w, IsWorld(w), NEW s, NEW needsHint \in BOOLEAN
  PROVE  LET t == ResetWorld(w, s) IN
         OnTheWay(w, t, needsHint, Len(w.goal) + ToPrepare(w, t, needsHint))
<1> DEFINE t == ResetWorld(w, s)
<1>1. t.progress = 0 /\ t.steps = 0 /\ t.known = InitiallyKnown(w)
  BY DEF ResetWorld
<1> HIDE DEF t
<1>2. PICK L \in Nat, k \in Nat : Len(w.goal) = L /\ ToPrepare(w, t, needsHint) = k
  BY ToPrepareType, GoalHasSlots
<1>3. 1..0 = {}
  OBVIOUS
<1> QED
  BY <1>1, <1>2, <1>3 DEF OnTheWay, t

\* Who never leaves the way succeeds at its end, if the steps suffice.
LEMMA WayEnds ==
  ASSUME NEW w, IsWorld(w), NEW s, StateSound(w, s), s.done,
         NEW needsHint \in BOOLEAN, NEW n \in Nat, OnTheWay(w, s, needsHint, n),
         w.max >= n
  PROVE  Succeeded(w, s) /\ s.steps = n
<1>1. PICK p \in Nat, i \in Nat, L \in Nat \ {0}, m \in Nat :
        s.progress = p /\ s.steps = i /\ Len(w.goal) = L /\ w.max = m
  BY GoalHasSlots DEF StateSound, IsState, IsWorld
<1>2. p =< L
  BY <1>1 DEF StateSound, IsState
<1>3. PICK k \in Nat : ToPrepare(w, s, needsHint) = k
  BY ToPrepareType
<1>4. i + (L - p) + k = n
  BY <1>1, <1>3 DEF OnTheWay
<1>5. p >= L \/ i >= m
  BY <1>1 DEF StateSound, Succeeded
<1>6. p = L
  BY <1>1, <1>2, <1>3, <1>4, <1>5
<1>7. ~s.armed
  BY <1>1, <1>6, ArmedIs
<1>8. k = 0
  <2>1. CASE w.kind = "hazard"
    <3>1. needsHint => 1 \in s.known
      <4>1. needsHint => 1..p \subseteq s.known
        BY <1>1 DEF OnTheWay
      <4> QED
        BY <1>1, <1>6, <4>1
    <3> QED
      BY <1>3, <1>7, <2>1, <3>1 DEF ToPrepare, If
  <2>2. CASE w.kind # "hazard"
    <3>1. 1..p \subseteq s.known
      BY <1>1, <2>2 DEF OnTheWay
    <3>2. Slots(w) \ s.known = {}
      BY <1>1, <1>6, <3>1, GoalHasSlots
    <3>3. k = Cardinality({}) + 0
      BY <1>3, <1>7, <2>2, <3>2 DEF ToPrepare, If
    <3> QED
      BY <3>3, FS_EmptySet
  <2> QED
    BY <2>1, <2>2
<1>9. i = n
  BY <1>1, <1>3, <1>4, <1>6, <1>8
<1> QED
  BY <1>1, <1>6, <1>9 DEF Succeeded

\* The expert never leaves the way.
LEMMA ExpertIsGood ==
  ASSUME NEW w, IsWorld(w), NEW s, StateSound(w, s), ~s.done
  PROVE  Good(w, s, FALSE, ExpertAction(w, s))
<1>1. /\ Lock(w) => w.kind \in {"lock", "trap"} /\ ~Tool(w)
      /\ Maze(w) => w.kind \in {"maze", "hazard"} /\ ~Tool(w) /\ ~Lock(w)
      /\ Tool(w) => w.kind \in {"tool", "precondition"} /\ ~Lock(w)
  BY Shapes DEF Lock, Maze, Tool
<1>2. s.armed => /\ Maze(w) => w.kind = "hazard"
                 /\ Tool(w) => w.kind = "precondition"
  BY ArmedIs
<1>3. w.kind = "precondition" => ~SlotUnknown(w, s)
  BY SoundIsOpen, RightIs
<1>4. Name(Use("search")) = "search" /\ Reveals(Use("search"))
  BY DEF Name, Use, Reveals
<1>5. CASE Lock(w)
  <2>1. ExpertAction(w, s) = IF s.armed \/ SlotUnknown(w, s)
                                THEN Inspect ELSE Wanted(w, s)
    BY <1>1, <1>5 DEF ExpertAction, Wanted
  <2> QED
    BY <1>1, <1>5, <2>1 DEF Good, Pending, Prepares, Disarms
<1>6. CASE w.kind = "maze"
  <2>1. ExpertAction(w, s) = IF SlotUnknown(w, s) THEN Inspect ELSE Wanted(w, s)
    BY <1>1, <1>6 DEF ExpertAction, Wanted, Maze
  <2>2. ~s.armed /\ ~Tool(w)
    BY <1>1, <1>2, <1>6 DEF Maze
  <2> QED
    BY <1>6, <2>1, <2>2 DEF Good, Pending, Prepares
<1>7. CASE w.kind = "hazard"
  <2>1. ExpertAction(w, s) = IF s.armed THEN Inspect ELSE Wanted(w, s)
    BY <1>1, <1>7 DEF ExpertAction, Wanted, Maze
  <2>2. ~Tool(w)
    BY <1>1, <1>7 DEF Maze
  <2> QED
    BY <1>7, <2>1, <2>2 DEF Good, Pending, Prepares, Disarms
<1>8. CASE w.kind = "precondition"
  <2>1. ExpertAction(w, s) = IF s.armed THEN Use("search") ELSE Wanted(w, s)
    BY <1>1, <1>8 DEF ExpertAction, Wanted, Tool
  <2>2. Tool(w)
    BY <1>8 DEF Tool
  <2> QED
    BY <1>3, <1>4, <1>8, <2>1, <2>2 DEF Good, Pending, Prepares, Disarms
<1>9. CASE w.kind = "tool"
  <2>1. ExpertAction(w, s) = IF SlotUnknown(w, s) /\ ~Reveals(Wanted(w, s))
                                THEN Use("search") ELSE Wanted(w, s)
    BY <1>1, <1>9 DEF ExpertAction, Wanted, Tool
  <2>2. ~s.armed /\ Tool(w)
    BY <1>2, <1>9 DEF Tool
  <2> QED
    BY <1>4, <1>9, <2>1, <2>2 DEF Good, Pending, Prepares
<1> QED
  BY <1>5, <1>6, <1>7, <1>8, <1>9, Shapes DEF Maze, Tool

-----------------------------------------------------------------------------
(* What the symbolic predictor's scores are.                               *)

Model(w, s, a) == ModelScore(w, s, Symbolic(w, s, a))

LEMMA ModelType ==
  ASSUME NEW w, IsWorld(w), NEW s, StateSound(w, s), ~s.done, NEW a
  PROVE  Model(w, s, a) \in Int
<1>1. InBounds(w, s, Symbolic(w, s, a))
  BY SymbolicInBounds
<1>2. /\ ModelScore(w, s, Symbolic(w, s, a)) \in -705..1350
      /\ Veto(w, s, a, Symbolic(w, s, a)) \in {-450, 0}
  BY <1>1, ModelInBounds
<1> QED
  BY <1>2 DEF Model

LEMMA ModelIs ==
  ASSUME NEW w, IsWorld(w), NEW s, StateSound(w, s), ~s.done, NEW a,
         NEW r \in -105..300, Symbolic(w, s, a).reward = r,
         NEW i \in {0, 300}, Symbolic(w, s, a).info = i,
         NEW g, g = Gain(w, s, Symbolic(w, s, a))
  PROVE  /\ g >= 0 => Model(w, s, a) >= r + i
         /\ g =< 0 => Model(w, s, a) =< r + i + 150
         /\ g =< 0 /\ r =< 0 => Model(w, s, a) =< r + i
<1> DEFINE p == Symbolic(w, s, a)
           ends == Succeeded(w, p.to) \/ s.steps + 1 >= w.max
<1>1. g \in -300..300 /\ p.reward = r /\ p.info = i
  BY SymbolicInBounds DEF InBounds
<1>2. Model(w, s, a) = p.reward + 2 * g + p.info + If(ends /\ p.reward > 0, 150)
  BY DEF Model, ModelScore, Unit
<1> HIDE DEF p, ends
<1>3. PICK e \in {150, 0} : If(ends /\ p.reward > 0, 150) = e /\ (r =< 0 => e = 0)
  BY <1>1 DEF If
<1>4. Model(w, s, a) = r + 2 * g + i + e
  BY <1>1, <1>2, <1>3
<1> QED
  BY <1>1, <1>3, <1>4

LEMMA GainIs ==
  ASSUME NEW w, IsWorld(w), NEW s, StateSound(w, s), ~s.done, NEW p,
         ~Maze(w) => p.to.progress \in 0..Len(w.goal)
  PROVE  /\ ~Maze(w) /\ p.to.progress = s.progress => Gain(w, s, p) = 0
         /\ ~Maze(w) /\ p.to.progress >= s.progress => Gain(w, s, p) >= 0
         /\ ~Maze(w) /\ p.to.progress =< s.progress => Gain(w, s, p) =< 0
         /\ Maze(w) /\ (1 \in p.to.known <=> 1 \in s.known) => Gain(w, s, p) = 0
<1>1. PICK h \in 0..300 : Headway(w, p.to) = h
  BY HeadwayType
<1>2. PICK g \in 0..300 : Headway(w, s) = g
  BY HeadwayNow
<1>3. Gain(w, s, p) = h - g
  BY <1>1, <1>2 DEF Gain
<1>4. s.progress \in 0..Len(w.goal)
  BY HeadwayNow
<1>5. ~Maze(w) /\ p.to.progress >= s.progress => g =< h
  BY <1>1, <1>2, <1>4, HeadwayGrows
<1>6. ~Maze(w) /\ p.to.progress =< s.progress => h =< g
  BY <1>1, <1>2, <1>4, HeadwayGrows
<1>7. ~Maze(w) /\ p.to.progress = s.progress => h = g
  <2>1. ~Maze(w) /\ p.to.progress = s.progress => Headway(w, p.to) = Headway(w, s)
    BY DEF Headway
  <2> QED
    BY <1>1, <1>2, <2>1
<1>8. Maze(w) /\ (1 \in p.to.known <=> 1 \in s.known) => h = g
  <2>1. ASSUME Maze(w), 1 \in p.to.known <=> 1 \in s.known
        PROVE  Headway(w, p.to) = Headway(w, s)
    BY <2>1 DEF Headway, If
  <2> QED
    BY <1>1, <1>2, <2>1
<1> QED
  BY <1>3, <1>5, <1>6, <1>7, <1>8

\* What the predictor says of what is wanted, before and after the world is set up.
Promising(w, s, a) ==
    /\ Symbolic(w, s, a).reward >= 60 /\ Gain(w, s, Symbolic(w, s, a)) >= 0
    /\ Model(w, s, a) >= 60

Warned(w, s, a) == Symbolic(w, s, a).reward =< -90 /\ Model(w, s, a) =< -90

LEMMA LockModel ==
  ASSUME NEW w, IsWorld(w), Lock(w), NEW s, StateSound(w, s), ~s.done, NEW a
  PROVE  /\ a = Inspect /\ (s.armed \/ SlotUnknown(w, s)) => Model(w, s, a) >= 315
         /\ a = Inspect /\ s.armed => Model(w, s, a) >= 330
         /\ a = Inspect /\ ~s.armed /\ ~SlotUnknown(w, s) => Model(w, s, a) =< 180
         /\ a = Wanted(w, s) /\ ~s.armed => Promising(w, s, a)
         /\ a = Wanted(w, s) /\ s.armed => Warned(w, s, a)
         /\ a # Inspect /\ a # Wanted(w, s) => Model(w, s, a) =< 0
<1> DEFINE p == Symbolic(w, s, a)
           g == Gain(w, s, p)
<1>0. PICK m \in Int : Model(w, s, a) = m
  BY ModelType
<1>1. p = PredictLock(w, s, a)
  BY Shapes DEF Symbolic
<1>2. /\ IsOpen(w, s) /\ s.progress \in Nat /\ Inspect # Reset
      /\ p.to.progress \in 0..Len(w.goal) /\ ~Maze(w)
      /\ s.armed => s.progress = 0
  BY SoundIsOpen, SymbolicStays, ArmedIs, Shapes DEF IsOpen, IsState, Inspect, Reset
<1>3. Right(w, s, a) <=> a = Wanted(w, s)
  BY DEF Right, Wanted
<1>4. Wanted(w, s) # Inspect /\ Wanted(w, s) # Reset
  BY <1>2, WantedIs
<1>5. p.to.progress = IF a = Inspect THEN s.progress
                      ELSE IF Right(w, s, a) /\ ~s.armed THEN s.progress + 1 ELSE 0
  <2> DEFINE q == IF a = Inspect THEN s.progress
                  ELSE IF Right(w, s, a) /\ ~s.armed THEN s.progress + 1 ELSE 0
             b == IF a = Inspect THEN FALSE ELSE s.armed
  <2>1. p.to = Became(s, q, s.known, s.seen, b)
    BY <1>2, SymbolicLockIs
  <2> HIDE DEF q, b, p
  <2>2. p.to.progress = q
    BY <2>1, Fields
  <2> QED
    BY <2>2 DEF q
<1>6. /\ p.to.progress = s.progress => g = 0
      /\ p.to.progress >= s.progress => g >= 0
      /\ p.to.progress =< s.progress => g =< 0
  BY <1>2, GainIs
<1>7. CASE a = Inspect /\ s.armed
  <2>0. If(s.armed \/ SlotUnknown(w, s), Unit) = 300
    BY <1>7 DEF If, Unit
  <2> DEFINE r == CASE s.armed -> 30 [] SlotUnknown(w, s) /\ ~s.armed -> 15
                    [] OTHER -> -3
  <2>a. r = 30
    BY <1>7
  <2>c. ~Right(w, s, a) /\ a # Reset /\ a = Inspect
    BY <1>2, <1>3, <1>4, <1>7
  <2>b. p = Predicted(Unarmed(s), r, If(s.armed \/ SlotUnknown(w, s), Unit), TRUE)
    BY <1>1, <2>c, Zenon DEF PredictLock
  <2> HIDE DEF r
  <2>1. p.reward = 30 /\ p.info = 300
    BY <2>0, <2>a, <2>b DEF Predicted
  <2>2. g = 0
    BY <1>5, <1>6, <1>7
  <2>3. Model(w, s, a) >= 30 + 300
    BY <2>1, <2>2, ModelIs
  <2> QED
    BY <1>0, <1>4, <1>7, <2>3
<1>8. CASE a = Inspect /\ ~s.armed /\ SlotUnknown(w, s)
  <2>0. If(s.armed \/ SlotUnknown(w, s), Unit) = 300
    BY <1>8 DEF If, Unit
  <2> DEFINE r == CASE s.armed -> 30 [] SlotUnknown(w, s) /\ ~s.armed -> 15
                    [] OTHER -> -3
  <2>a. r = 15
    BY <1>8
  <2>c. ~Right(w, s, a) /\ a # Reset /\ a = Inspect
    BY <1>2, <1>3, <1>4, <1>8
  <2>b. p = Predicted(Unarmed(s), r, If(s.armed \/ SlotUnknown(w, s), Unit), TRUE)
    BY <1>1, <2>c, Zenon DEF PredictLock
  <2> HIDE DEF r
  <2>1. p.reward = 15 /\ p.info = 300
    BY <2>0, <2>a, <2>b DEF Predicted
  <2>2. g = 0
    BY <1>5, <1>6, <1>8
  <2>3. Model(w, s, a) >= 15 + 300
    BY <2>1, <2>2, ModelIs
  <2> QED
    BY <1>0, <1>4, <1>8, <2>3
<1>9. CASE a = Inspect /\ ~s.armed /\ ~SlotUnknown(w, s)
  <2>0. If(s.armed \/ SlotUnknown(w, s), Unit) = 0
    BY <1>9 DEF If
  <2>1. p.reward = -3 /\ p.info = 0
    BY <1>1, <1>3, <1>4, <1>9, <2>0 DEF PredictLock, Predicted
  <2>2. g = 0
    BY <1>5, <1>6, <1>9
  <2>3. Model(w, s, a) =< -3 + 0
    BY <2>1, <2>2, ModelIs
  <2> QED
    BY <1>0, <1>4, <1>9, <2>3
<1>10. CASE a = Wanted(w, s) /\ ~s.armed
  <2>1. p.reward \in {60, 300} /\ p.info = 0
    BY <1>1, <1>3, <1>4, <1>10 DEF PredictLock, Predicted
  <2>2. g >= 0
    BY <1>2, <1>3, <1>4, <1>5, <1>6, <1>10
  <2>3. PICK r \in {60, 300} : p.reward = r
    BY <2>1
  <2>4. Model(w, s, a) >= r + 0
    BY <2>1, <2>2, <2>3, ModelIs
  <2>5. Promising(w, s, a)
    BY <1>0, <2>2, <2>3, <2>4 DEF Promising
  <2> QED
    BY <1>4, <1>10, <2>5
<1>11. CASE a = Wanted(w, s) /\ s.armed
  <2>1. p.reward = -105 /\ p.info = 0
    BY <1>1, <1>3, <1>4, <1>11 DEF PredictLock, Predicted
  <2>2. g = 0
    BY <1>2, <1>3, <1>4, <1>5, <1>6, <1>11
  <2>3. Model(w, s, a) =< -105 + 0
    BY <2>1, <2>2, ModelIs
  <2>4. Warned(w, s, a)
    BY <1>0, <2>1, <2>3 DEF Warned
  <2> QED
    BY <1>4, <1>11, <2>4
<1>12. CASE a # Inspect /\ a # Wanted(w, s)
  <2>1. p.reward \in {-3, -60} /\ p.info = 0
    BY <1>1, <1>3, <1>12 DEF PredictLock, Predicted
  <2>2. g =< 0
    BY <1>2, <1>3, <1>5, <1>6, <1>12
  <2>3. PICK r \in {-3, -60} : p.reward = r
    BY <2>1
  <2>4. Model(w, s, a) =< r + 0
    BY <2>1, <2>2, <2>3, ModelIs
  <2> QED
    BY <1>0, <1>12, <2>3, <2>4
<1> QED
  BY <1>7, <1>8, <1>9, <1>10, <1>11, <1>12

LEMMA MazeModel ==
  ASSUME NEW w, IsWorld(w), Maze(w), NEW s, StateSound(w, s), ~s.done,
         ~SlotUnknown(w, s), NEW a
  PROVE  /\ a = Inspect /\ s.armed => Model(w, s, a) >= 330
         /\ a = Inspect /\ ~s.armed => Model(w, s, a) =< 180
         /\ a = Wanted(w, s) /\ ~s.armed => Promising(w, s, a)
         /\ a = Wanted(w, s) /\ s.armed => Warned(w, s, a)
         /\ a # Inspect /\ a # Wanted(w, s) => Model(w, s, a) =< 0
<1> DEFINE p == Symbolic(w, s, a)
           g == Gain(w, s, p)
<1>0. PICK m \in Int : Model(w, s, a) = m
  BY ModelType
<1>1. p = PredictMaze(w, s, a)
  BY Shapes DEF Symbolic
<1>2. IsOpen(w, s) /\ s.progress + 1 \in s.known
  BY SoundIsOpen DEF SlotUnknown
<1>3. Right(w, s, a) <=> a = Wanted(w, s)
  BY DEF Right, Wanted
<1>4. Wanted(w, s) # Inspect
  BY <1>2, WantedIs
<1>5. g = 0
  <2> DEFINE q == IF a # Inspect /\ Right(w, s, a) /\ ~SlotUnknown(w, s) /\ ~s.armed
                     THEN s.progress + 1 ELSE s.progress
             k == IF a = Inspect THEN s.known \cup {s.progress + 1} ELSE s.known
             b == IF a = Inspect THEN FALSE ELSE s.armed
  <2>1. p.to = Became(s, q, k, s.seen, b)
    BY <1>2, SymbolicMazeIs
  <2>2. 1 \in k <=> 1 \in s.known
    BY <1>2
  <2> HIDE DEF q, k, b, p
  <2>3. p.to.known = k
    BY <2>1, Fields
  <2> QED
    BY <2>2, <2>3, GainIs
<1>6. CASE a = Inspect
  <2> DEFINE r == IF s.armed THEN 36 ELSE 30
             i == If(SlotUnknown(w, s) \/ s.armed, Unit)
  <2>1. ~Right(w, s, a)
    BY <1>3, <1>4, <1>6
  <2>2. p = Predicted(Unarmed(Reveal(s)), r, i, FALSE)
    BY <1>1, <1>6, <2>1, Zenon DEF PredictMaze
  <2>3. s.armed => r = 36 /\ i = 300
    BY DEF If, Unit
  <2>4. ~s.armed => r = 30 /\ i = 0
    BY DEF If
  <2> HIDE DEF r, i
  <2>5. p.reward = r /\ p.info = i
    BY <2>2 DEF Predicted
  <2>6. s.armed => Model(w, s, a) >= 36 + 300
    BY <1>5, <2>3, <2>5, ModelIs
  <2>7. ~s.armed => Model(w, s, a) =< 30 + 0 + 150
    BY <1>5, <2>4, <2>5, ModelIs
  <2> QED
    BY <1>0, <1>4, <1>6, <2>6, <2>7
<1>7. CASE a = Wanted(w, s) /\ ~s.armed
  <2>1. p.reward = 300 /\ p.info = 0
    BY <1>1, <1>3, <1>4, <1>7 DEF PredictMaze, Predicted
  <2>2. Model(w, s, a) >= 300 + 0
    BY <1>5, <2>1, ModelIs
  <2>3. Promising(w, s, a)
    BY <1>0, <1>5, <2>1, <2>2 DEF Promising
  <2> QED
    BY <1>4, <1>7, <2>3
<1>8. CASE a = Wanted(w, s) /\ s.armed
  <2>1. p.reward = -105 /\ p.info = 0
    BY <1>1, <1>3, <1>4, <1>8 DEF PredictMaze, Predicted
  <2>2. Model(w, s, a) =< -105 + 0
    BY <1>5, <2>1, ModelIs
  <2>3. Warned(w, s, a)
    BY <1>0, <2>1, <2>2 DEF Warned
  <2> QED
    BY <1>4, <1>8, <2>3
<1>9. CASE a # Inspect /\ a # Wanted(w, s)
  <2>1. p.reward = -75 /\ p.info = 0
    BY <1>1, <1>3, <1>9 DEF PredictMaze, Predicted
  <2>2. Model(w, s, a) =< -75 + 0
    BY <1>5, <2>1, ModelIs
  <2> QED
    BY <1>0, <1>9, <2>2
<1> QED
  BY <1>6, <1>7, <1>8, <1>9

LEMMA ToolModel ==
  ASSUME NEW w, IsWorld(w), Tool(w), NEW s, StateSound(w, s), ~s.done,
         ~SlotUnknown(w, s), NEW a
  PROVE  /\ Name(a) = "search" /\ s.armed => Model(w, s, a) >= 330
         /\ a = Wanted(w, s) /\ ~s.armed => Promising(w, s, a)
         /\ a = Wanted(w, s) /\ s.armed => Warned(w, s, a)
         /\ a # Wanted(w, s) /\ (s.armed => Name(a) # "search") =>
              Model(w, s, a) =< 0
<1> DEFINE p == Symbolic(w, s, a)
           g == Gain(w, s, p)
<1>0. PICK m \in Int : Model(w, s, a) = m
  BY ModelType
<1>1. p = PredictTool(w, s, a)
  BY Shapes DEF Symbolic
<1>2. /\ IsOpen(w, s) /\ s.progress \in Nat /\ ~Revealing(w, s, a)
      /\ p.to.progress \in 0..Len(w.goal) /\ ~Maze(w)
      /\ s.armed => s.progress = 0 /\ w.kind = "precondition"
  BY SoundIsOpen, SymbolicStays, ArmedIs, Shapes DEF IsOpen, IsState, Revealing
<1>3. Right(w, s, a) <=> a = Wanted(w, s)
  BY DEF Right, Wanted
<1>4. s.armed => Name(Wanted(w, s)) # "search"
  BY <1>2, WantedIs
<1>5. p.to.progress = IF Right(w, s, a) /\ ~s.armed THEN s.progress + 1
                      ELSE IF s.progress > 0 THEN s.progress - 1 ELSE 0
  <2> DEFINE q == IF Revealing(w, s, a) THEN s.progress
                  ELSE IF Right(w, s, a) /\ ~s.armed THEN s.progress + 1
                  ELSE IF s.progress > 0 THEN s.progress - 1 ELSE 0
             b == IF s.armed /\ Name(a) = "search" THEN FALSE ELSE s.armed
  <2>1. p.to = Became(s, q, s.known, s.seen, b)
    BY <1>2, SymbolicToolIs
  <2> HIDE DEF q, b, p
  <2>2. p.to.progress = q
    BY <2>1, Fields
  <2> QED
    BY <1>2, <2>2 DEF q
<1>6. /\ p.to.progress = s.progress => g = 0
      /\ p.to.progress >= s.progress => g >= 0
      /\ p.to.progress =< s.progress => g =< 0
  BY <1>2, GainIs
<1>7. CASE Name(a) = "search" /\ s.armed
  <2>1. p.reward = 36 /\ p.info = 300 /\ ~Right(w, s, a)
    BY <1>1, <1>2, <1>3, <1>4, <1>7 DEF PredictTool, Predicted, Unit
  <2>2. g = 0
    BY <1>2, <1>5, <1>6, <1>7, <2>1
  <2>3. Model(w, s, a) >= 36 + 300
    BY <2>1, <2>2, ModelIs
  <2> QED
    BY <1>0, <1>3, <1>7, <2>1, <2>3
<1>8. CASE a = Wanted(w, s) /\ ~s.armed
  <2>1. p.reward \in {75, 300} /\ p.info = 0
    BY <1>1, <1>2, <1>3, <1>8 DEF PredictTool, Predicted
  <2>2. g >= 0
    BY <1>2, <1>3, <1>5, <1>6, <1>8
  <2>3. PICK r \in {75, 300} : p.reward = r
    BY <2>1
  <2>4. Model(w, s, a) >= r + 0
    BY <2>1, <2>2, <2>3, ModelIs
  <2>5. Promising(w, s, a)
    BY <1>0, <2>2, <2>3, <2>4 DEF Promising
  <2> QED
    BY <1>8, <2>5
<1>9. CASE a = Wanted(w, s) /\ s.armed
  <2>1. p.reward = -90 /\ p.info = 0
    BY <1>1, <1>2, <1>3, <1>4, <1>9 DEF PredictTool, Predicted
  <2>2. g = 0
    BY <1>2, <1>5, <1>6, <1>9
  <2>3. Model(w, s, a) =< -90 + 0
    BY <2>1, <2>2, ModelIs
  <2>4. Warned(w, s, a)
    BY <1>0, <2>1, <2>3 DEF Warned
  <2> QED
    BY <1>4, <1>9, <2>4
<1>10. CASE a # Wanted(w, s) /\ (s.armed => Name(a) # "search")
  <2>1. p.reward = -30 /\ p.info = 0
    BY <1>1, <1>2, <1>3, <1>10 DEF PredictTool, Predicted
  <2>2. g =< 0
    BY <1>2, <1>3, <1>5, <1>6, <1>10
  <2>3. Model(w, s, a) =< -30 + 0
    BY <2>1, <2>2, ModelIs
  <2> QED
    BY <1>0, <1>10, <2>3
<1> QED
  BY <1>7, <1>8, <1>9, <1>10

-----------------------------------------------------------------------------
(* The gate around the symbolic predictor never leaves the way.            *)

LEMMA WantedModel ==
  ASSUME NEW w, IsWorld(w), NEW s, StateSound(w, s), ~s.done, ~SlotUnknown(w, s)
  PROVE  /\ ~s.armed => Promising(w, s, Wanted(w, s))
         /\ s.armed => Warned(w, s, Wanted(w, s))
BY LockModel, MazeModel, ToolModel, Shapes

\* The veto falls on what is wanted exactly as long as the world is not set up.
LEMMA WantedVeto ==
  ASSUME NEW w, IsWorld(w), NEW s, StateSound(w, s), ~s.done, ~SlotUnknown(w, s)
  PROVE  Veto(w, s, Wanted(w, s), Symbolic(w, s, Wanted(w, s))) =
           IF s.armed THEN -450 ELSE 0
<1> DEFINE a == Wanted(w, s)
           p == Symbolic(w, s, a)
<1>1. IsOpen(w, s)
  BY SoundIsOpen
<1>2. Matches(w, s, a) /\ Executes(a)
  BY <1>1, WantedIsRequired, WantedIs, Shapes DEF Executes
<1>3. PICK r \in -105..300, g \in -300..300 : p.reward = r /\ Gain(w, s, p) = g
  <2>1. InBounds(w, s, p)
    BY SymbolicInBounds
  <2>2. p.reward \in -105..300
    BY <2>1 DEF InBounds
  <2>3. Gain(w, s, p) \in -300..300
    BY <2>1 DEF InBounds
  <2> QED
    BY <2>2, <2>3
<1>4. ~s.armed => r >= 60 /\ g >= 0
  BY <1>3, WantedModel DEF Promising
<1>5. s.armed => r =< -90
  BY <1>3, WantedModel DEF Warned
<1> HIDE DEF a, p
<1>6. CASE s.armed
  BY <1>2, <1>3, <1>5, <1>6 DEF Veto, If, a, p
<1>7. CASE ~s.armed
  BY <1>2, <1>3, <1>4, <1>7 DEF Veto, If, a, p
<1> QED
  BY <1>6, <1>7

\* What a free action is worth.
LEMMA FreeWorth ==
  ASSUME NEW mode \in {"hybrid", "hybrid_veto"},
         NEW w, IsWorld(w), NEW s, StateSound(w, s), ~s.done,
         NEW a, Free(mode, w, s, a),
         NEW m \in Int, Model(w, s, a) = m, NEW i \in Int, Prior(w, s, a) = i,
         NEW v \in {-450, 0}, Veto(w, s, a, Symbolic(w, s, a)) = v
  PROVE  Worth(mode, "symbolic", w, s, a) = IF mode = "hybrid" THEN m + i ELSE m + i + v
<1>1. ModelScore(w, s, Symbolic(w, s, a)) = m
  BY DEF Model
<1>2. Worth(mode, "symbolic", w, s, a) = Score(mode, w, s, a, Symbolic(w, s, a))
  BY DEF Worth, Says
<1>3. mode \in GateMode
  BY DEF GateMode
<1>4. CASE mode = "hybrid"
  BY <1>1, <1>2, <1>3, <1>4, ScoreIs
<1>5. CASE mode = "hybrid_veto"
  BY <1>1, <1>2, <1>3, <1>5, ScoreIs
<1> QED
  BY <1>4, <1>5

\* No action is worth more than model and prior say, and one that does not match
\* is worth as much.
LEMMA UpTo ==
  ASSUME NEW mode \in {"hybrid", "hybrid_veto"},
         NEW w, IsWorld(w), NEW s, StateSound(w, s), ~s.done,
         NEW a, Free(mode, w, s, a),
         NEW m \in Int, Model(w, s, a) = m, NEW i \in Int, Prior(w, s, a) = i
  PROVE  /\ Worth(mode, "symbolic", w, s, a) \in Int
         /\ Worth(mode, "symbolic", w, s, a) =< m + i
         /\ ~Matches(w, s, a) => Worth(mode, "symbolic", w, s, a) = m + i
<1>1. PICK v \in {-450, 0} : Veto(w, s, a, Symbolic(w, s, a)) = v
  BY DEF Veto, If
<1>2. ~Matches(w, s, a) => v = 0
  BY <1>1 DEF Veto, If
<1>3. Worth(mode, "symbolic", w, s, a) = IF mode = "hybrid" THEN m + i ELSE m + i + v
  BY <1>1, FreeWorth
<1> QED
  BY <1>2, <1>3

\* What a candidate may be, by its name.
LEMMA CandidateKinds ==
  ASSUME NEW w, IsWorld(w), NEW s, NEW a \in ToSet(Candidates(w, s))
  PROVE  /\ Lock(w) => a = Inspect \/ a = Reset \/ Name(a) = "press"
         /\ Maze(w) => a = Inspect \/ Name(a) = "move"
         /\ Tool(w) => Name(a) \in {"search", "read", "summarize"}
<1>1. CASE Lock(w)
  BY <1>1, CandidatesAre, GoalNames, Shapes
<1>2. CASE Maze(w)
  BY <1>2, CandidatesAre, GoalNames, Shapes
<1>3. CASE w.kind = "tool"
  <2>1. PICK m \in Slots(w) : a = w.goal[m]
    BY <1>3, CandidatesAre
  <2>2. Tool(w) /\ a \in GoalActions(w)
    BY <1>3, <2>1, GoalHasSlots DEF Tool
  <2> QED
    BY <2>2, GoalNames, Shapes
<1>4. CASE w.kind = "precondition"
  <2>1. Tool(w) /\ (a = Use("search") \/ a \in GoalActions(w))
    BY <1>4, CandidatesAre DEF Tool
  <2>2. Name(Use("search")) = "search"
    BY DEF Name, Use
  <2> QED
    BY <2>1, <2>2, GoalNames, Shapes
<1> QED
  BY <1>1, <1>2, <1>3, <1>4, Shapes DEF Tool

\* Chains that hide that all there is to do is to summarize: no search is in them to
\* reveal it with, and what is not known to come next cannot be finished.
Blind(w) == w.kind = "tool" /\ w.mode = "hidden" /\ w.goal = <<Use("summarize")>>

LEMMA RevealIsOffered ==
  ASSUME NEW w, IsWorld(w), ~Blind(w), NEW s, StateSound(w, s), ~s.done,
         SlotUnknown(w, s)
  PROVE  \E b \in ToSet(Candidates(w, s)) : Reveals(b) /\ (~Tool(w) => b = Inspect)
<1>1. IsOpen(w, s) /\ w.kind \notin {"trap", "precondition"}
  BY SoundIsOpen, RightIs
<1>2. Reveals(Inspect)
  BY DEF Reveals, Name, Inspect
<1>3. CASE Lock(w)
  BY <1>2, <1>3, LockOffers, Shapes
<1>4. CASE Maze(w)
  BY <1>2, <1>4, MazeOffers, Shapes
<1>5. CASE w.kind = "tool"
  <2>1. PICK L \in Nat \ {0} : Len(w.goal) = L /\ Slots(w) = 1..L
    BY GoalHasSlots
  <2>2. 1 \in Slots(w) /\ w.goal[1] \in {Use("search"), Use("read"), Use("summarize")}
    <3>1. GoalActions(w) = {Use("search"), Use("read"), Use("summarize")}
      BY <1>5 DEF GoalActions, Lock, Maze
    <3> QED
      BY <2>1, <3>1, GoalHasSlots
  <2>3. ASSUME w.goal[1] = Use("summarize") PROVE FALSE
    <3>1. L = 1
      BY <2>1, <2>3 DEF IsWorld
    <3>2. w.goal = <<Use("summarize")>>
      <4>1. w.goal \in Seq(GoalActions(w))
        BY DEF IsWorld
      <4>2. w.goal = [n \in 1..1 |-> w.goal[n]]
        BY <2>1, <3>1, <4>1
      <4> QED
        BY <2>3, <4>2
    <3>3. s.progress = 0
      BY <1>1, <2>1, <3>1 DEF IsOpen, IsState
    <3>4. 1 \notin InitiallyKnown(w)
      BY <3>3 DEF SlotUnknown, StateSound
    <3>5. w.mode = "hidden"
      <4>1. w.mode \in {"visible", "partial_hidden", "hidden"}
        BY DEF IsWorld, Visibility
      <4> QED
        BY <1>5, <2>1, <2>2, <3>4, <4>1 DEF InitiallyKnown
    <3> QED
      BY <1>5, <3>2, <3>5 DEF Blind
  <2>4. Reveals(w.goal[1])
    BY <2>2, <2>3 DEF Reveals, Name, Use
  <2>5. w.goal[1] \in ToSet(Candidates(w, s))
    <3>1. \A m \in Slots(w) :
            \E n \in DOMAIN Candidates(w, s) : Candidates(w, s)[n] = w.goal[m]
      BY <1>5, ToolOffers
    <3> QED
      BY <2>2, <3>1 DEF ToSet
  <2>6. Tool(w)
    BY <1>5 DEF Tool
  <2> QED
    BY <2>4, <2>5, <2>6
<1> QED
  BY <1>1, <1>3, <1>4, <1>5, Shapes DEF Tool

\* Of a slot that is hidden the gate knows only what reveals it.
LEMMA HiddenPrior ==
  ASSUME NEW w, IsWorld(w), NEW s, StateSound(w, s), ~s.done, SlotUnknown(w, s),
         NEW a \in ToSet(Candidates(w, s))
  PROVE  /\ ~Matches(w, s, a) /\ ~Escapes(w, s, a)
         /\ Reveals(a) => ~Blocked(w, s, a) /\ Prior(w, s, a) = 300
         /\ ~Reveals(a) => Prior(w, s, a) =< 0
         /\ ~Reveals(a) /\ a # Reset => Blocked(w, s, a)
<1>1. a # NoAction
  BY CandidateNames
<1>2. Required(w, s) = NoAction /\ ~Known(w, s) /\ ~CanFinish(w, s)
  BY DEF Required, Known, CanFinish
<1>3. ~Matches(w, s, a) /\ ~Escapes(w, s, a)
  BY <1>1, <1>2 DEF Matches, Escapes
<1>4. ASSUME Reveals(a) PROVE ~Blocked(w, s, a) /\ Prior(w, s, a) = 300
  <2>1. ~TerminalOnly(a) /\ a # Reset
    BY <1>4 DEF Reveals, TerminalOnly, Name, Reset
  <2>2. ~Blocked(w, s, a)
    BY <1>2, <1>4, <2>1 DEF Blocked
  <2>3. Prior(w, s, a) = 0 - 0 + 300 - 0 - 0 + 0
    BY <1>2, <1>3, <1>4, <2>1 DEF Prior, If
  <2> QED
    BY <2>2, <2>3
<1>5. ASSUME ~Reveals(a) PROVE Prior(w, s, a) =< 0
  BY <1>2, <1>3, <1>5 DEF Prior, If
<1>6. ASSUME ~Reveals(a), a # Reset PROVE Blocked(w, s, a)
  <2>1. Name(a) \in {"press", "move", "search", "read", "summarize"}
    <3>1. Name(Inspect) = "inspect"
      BY DEF Name, Inspect
    <3>2. Reveals(Inspect)
      BY <3>1 DEF Reveals
    <3> QED
      BY <1>6, <3>2, CandidateKinds, Shapes
  <2>2. Executes(a)
    BY <2>1 DEF Executes
  <2> QED
    BY <1>2, <1>6, <2>2 DEF Blocked
<1> QED
  BY <1>3, <1>4, <1>5, <1>6

\* A gate with a prior reveals what is hidden before anything else.
LEMMA HiddenIsRevealed ==
  ASSUME NEW mode \in {"prior_only", "hybrid", "hybrid_veto"},
         NEW w, IsWorld(w), ~Blind(w), NEW s, StateSound(w, s), ~s.done,
         SlotUnknown(w, s), NEW a, IsChoice(mode, "symbolic", w, s, a)
  PROVE  Reveals(a)
<1> SUFFICES ASSUME ~Reveals(a) PROVE FALSE
  OBVIOUS
<1>1. PICK b \in ToSet(Candidates(w, s)) : Reveals(b) /\ (~Tool(w) => b = Inspect)
  BY RevealIsOffered
<1>2. /\ a \in ToSet(Candidates(w, s)) /\ mode \in GateMode
      /\ Worth(mode, "symbolic", w, s, b) =< Worth(mode, "symbolic", w, s, a)
      /\ mode # "prior_only" => (Free(mode, w, s, b) => Free(mode, w, s, a))
  BY <1>1 DEF IsChoice, GateMode
<1>3. PICK i \in -2040..600 : Prior(w, s, a) = i
  BY PriorsInBounds
<1>4. i =< 0 /\ (a # Reset => Blocked(w, s, a)) /\ ~Escapes(w, s, a)
  BY <1>2, <1>3, HiddenPrior
<1>5. Prior(w, s, b) = 300 /\ ~Blocked(w, s, b) /\ ~Matches(w, s, b)
  BY <1>1, HiddenPrior
<1>6. CASE mode = "prior_only"
  <2>1. /\ Worth(mode, "symbolic", w, s, a) = i
        /\ Worth(mode, "symbolic", w, s, b) = 300
    BY <1>2, <1>3, <1>5, <1>6, WorthIs
  <2> QED
    BY <1>2, <1>4, <2>1
<1>7. CASE mode # "prior_only"
  <2>1. Free(mode, w, s, b) /\ Free(mode, w, s, a)
    BY <1>2, <1>5, <1>7 DEF Free
  <2>2. a = Reset
    BY <1>4, <2>1 DEF Free
  <2>3. Lock(w)
    <3>1. Name(a) = "reset"
      BY <2>2 DEF Name, Reset
    <3>2. a # Inspect
      BY <2>2 DEF Inspect, Reset
    <3> QED
      BY <1>2, <3>1, <3>2, CandidateKinds, Shapes
  <2>4. b = Inspect /\ a # Inspect
    BY <1>1, <2>2, <2>3, Shapes DEF Inspect, Reset
  <2>5. PICK m \in Int, k \in Int : Model(w, s, a) = m /\ Model(w, s, b) = k
    BY ModelType
  <2>6. IsOpen(w, s)
    BY SoundIsOpen
  <2>7. m =< 0
    <3>1. a # Wanted(w, s)
      BY <2>2, <2>6, WantedIs
    <3> QED
      BY <2>3, <2>4, <2>5, <3>1, LockModel
  <2>8. k >= 315
    BY <2>3, <2>4, <2>5, LockModel
  <2>9. mode \in {"hybrid", "hybrid_veto"}
    BY <1>7
  <2>10. /\ Worth(mode, "symbolic", w, s, a) \in Int
         /\ Worth(mode, "symbolic", w, s, a) =< m + i
    BY <1>3, <2>1, <2>5, <2>9, UpTo
  <2>11. Worth(mode, "symbolic", w, s, b) = k + 300
    BY <1>5, <2>1, <2>5, <2>9, UpTo
  <2> QED
    BY <1>2, <1>4, <2>7, <2>8, <2>10, <2>11
<1> QED
  BY <1>6, <1>7

\* What an action is worth that neither sets the world up nor is wanted.
LEMMA OtherModel ==
  ASSUME NEW w, IsWorld(w), NEW s, StateSound(w, s), ~s.done, ~SlotUnknown(w, s),
         NEW a \in ToSet(Candidates(w, s))
  PROVE  /\ s.armed /\ Disarms(w, a) => Model(w, s, a) >= 330
         /\ s.armed /\ ~Disarms(w, a) /\ a # Wanted(w, s) => Model(w, s, a) =< 0
         /\ ~s.armed /\ a # Wanted(w, s) => Model(w, s, a) =< IF a = Inspect THEN 180 ELSE 0
<1>1. CASE Lock(w)
  BY <1>1, LockModel, Shapes DEF Disarms
<1>2. CASE Maze(w)
  BY <1>2, MazeModel, Shapes DEF Disarms
<1>3. CASE Tool(w)
  <2>1. a # Inspect
    <3>1. Name(Inspect) = "inspect"
      BY DEF Name, Inspect
    <3> QED
      BY <1>3, <3>1, CandidateKinds
  <2> QED
    BY <1>3, <2>1, ToolModel DEF Disarms
<1> QED
  BY <1>1, <1>2, <1>3, Shapes

\* What is free though it is not wanted: it ends the episode on the wrong action, it
\* looks, or it goes round the block of a world that is not set up.
LEMMA OtherFree ==
  ASSUME NEW mode, NEW w, IsWorld(w), NEW s, StateSound(w, s), ~s.done,
         ~SlotUnknown(w, s), NEW a \in ToSet(Candidates(w, s)), a # Wanted(w, s),
         Free(mode, w, s, a)
  PROVE  /\ a = Inspect \/ Executes(a)
         /\ a = Inspect \/ s.armed \/ TerminalOnly(a)
<1>1. IsOpen(w, s)
  BY SoundIsOpen
<1>2. CASE ~Blocked(w, s, a)
  <2>1. TerminalOnly(a)
    BY <1>1, <1>2, OtherPrior
  <2> QED
    BY <2>1 DEF TerminalOnly, Executes
<1>3. CASE Escapes(w, s, a)
  <2>1. Name(a) \in {"inspect", "search", "read"} /\ (~Executes(a) \/ s.armed)
    BY <1>3 DEF Escapes, Reveals
  <2>2. Name(a) = "inspect" => a = Inspect
    <3>1. Name(Reset) = "reset"
      BY DEF Name, Reset
    <3> QED
      BY <3>1, CandidateKinds, Shapes
  <2> QED
    BY <2>1, <2>2 DEF Executes
<1> QED
  BY <1>2, <1>3 DEF Free

\* In a world that is set up a gate with a prior takes what it knows to come next.
LEMMA KnownIsTaken ==
  ASSUME NEW mode \in {"prior_only", "hybrid", "hybrid_veto"},
         NEW w, IsWorld(w), NEW s, StateSound(w, s), ~s.done,
         ~SlotUnknown(w, s), ~s.armed, NEW a, IsChoice(mode, "symbolic", w, s, a)
  PROVE  a = Wanted(w, s)
<1> DEFINE r == Wanted(w, s)
<1> SUFFICES ASSUME a # r PROVE FALSE
  OBVIOUS
<1>1. IsOpen(w, s) /\ r \in ToSet(Candidates(w, s)) /\ mode \in GateMode
  BY SoundIsOpen, RightIsOffered DEF Wanted, GateMode
<1>2. Prior(w, s, r) = 300 /\ ~Blocked(w, s, r)
  BY <1>1, WantedPrior
<1>3. /\ a \in ToSet(Candidates(w, s))
      /\ Worth(mode, "symbolic", w, s, r) =< Worth(mode, "symbolic", w, s, a)
      /\ mode # "prior_only" => (Free(mode, w, s, r) => Free(mode, w, s, a))
  BY <1>1 DEF IsChoice
<1>4. PICK i \in -2040..600 : Prior(w, s, a) = i
  BY PriorsInBounds
<1>5. i =< 0 /\ (Executes(a) => i =< -360)
  BY <1>1, <1>4, OtherPrior
<1>6. Promising(w, s, r) /\ Veto(w, s, r, Symbolic(w, s, r)) = 0
  BY WantedModel, WantedVeto
<1>7. CASE mode = "prior_only"
  <2>1. /\ Worth(mode, "symbolic", w, s, a) = i
        /\ Worth(mode, "symbolic", w, s, r) = 300
    BY <1>1, <1>2, <1>4, <1>7, WorthIs
  <2> QED
    BY <1>3, <1>5, <2>1
<1>8. CASE mode # "prior_only"
  <2>1. Free(mode, w, s, r) /\ Free(mode, w, s, a) /\ mode \in {"hybrid", "hybrid_veto"}
    BY <1>2, <1>3, <1>8 DEF Free
  <2>2. PICK m \in Int, k \in Int : Model(w, s, a) = m /\ Model(w, s, r) = k
    BY ModelType
  <2>3. k >= 60
    BY <1>6, <2>2 DEF Promising
  <2>4. m =< IF a = Inspect THEN 180 ELSE 0
    BY <1>3, <2>2, OtherModel
  <2>5. a = Inspect \/ Executes(a)
    BY <1>3, <2>1, OtherFree
  <2>6. m + i =< 180
    BY <1>5, <2>2, <2>4, <2>5
  <2> HIDE DEF r
  <2>7. Worth(mode, "symbolic", w, s, r) = k + 300
    <3>1. Worth(mode, "symbolic", w, s, r) =
            IF mode = "hybrid" THEN k + 300 ELSE k + 300 + 0
      BY <1>2, <1>6, <2>1, <2>2, FreeWorth
    <3> QED
      BY <2>2, <3>1
  <2>8. /\ Worth(mode, "symbolic", w, s, a) \in Int
        /\ Worth(mode, "symbolic", w, s, a) =< m + i
    BY <1>4, <2>1, <2>2, UpTo
  <2> QED
    BY <1>3, <2>2, <2>3, <2>6, <2>7, <2>8
<1> QED
  BY <1>7, <1>8

\* What sets an armed world up is offered, and a gate with a veto may choose it.
LEMMA SetUpIsOffered ==
  ASSUME NEW w, IsWorld(w), NEW s, StateSound(w, s), ~s.done, s.armed,
         ~SlotUnknown(w, s)
  PROVE  \E d \in ToSet(Candidates(w, s)) :
           /\ Disarms(w, d) /\ d # Wanted(w, s)
           /\ Free("hybrid_veto", w, s, d)
           /\ Prior(w, s, d) \in {0, -360}
<1>1. IsOpen(w, s)
  BY SoundIsOpen
<1>2. Known(w, s)
  BY <1>1, WantedIsRequired
<1> DEFINE d == IF Tool(w) THEN Use("search") ELSE Inspect
<1>3. Name(d) = IF Tool(w) THEN "search" ELSE "inspect"
  BY DEF Name, Use, Inspect
<1>4. d \in ToSet(Candidates(w, s))
  <2>1. CASE Lock(w)
    BY <2>1, ArmedIs, LockOffers, Shapes
  <2>2. CASE Maze(w)
    BY <2>2, MazeOffers, Shapes
  <2>3. CASE Tool(w)
    BY <2>3, ArmedIs, PreconditionOffers
  <2> QED
    BY <2>1, <2>2, <2>3, Shapes
<1>5. d # Wanted(w, s)
  <2>1. CASE Tool(w)
    <3>1. Name(Wanted(w, s)) # "search"
      BY <1>1, <2>1, ArmedIs, WantedIs
    <3> QED
      BY <1>3, <2>1, <3>1
  <2>2. CASE ~Tool(w)
    BY <1>1, <2>2, WantedIs
  <2> QED
    BY <2>1, <2>2
<1>6. Disarms(w, d)
  BY <1>3 DEF Disarms
<1>7. Free("hybrid_veto", w, s, d)
  BY <1>2, <1>3 DEF Free, Escapes, Reveals
<1>8. Prior(w, s, d) \in {0, -360}
  <2>1. CASE Tool(w)
    <3>1. Executes(d) /\ ~TerminalOnly(d)
      BY <1>3, <2>1 DEF Executes, TerminalOnly
    <3>2. Prior(w, s, d) = -360
      BY <1>1, <1>5, <3>1, OtherPrior
    <3> QED
      BY <3>2
  <2>2. CASE ~Tool(w)
    <3>1. Prior(w, s, d) = 0
      BY <1>1, <1>5, <2>2, OtherPrior
    <3> QED
      BY <3>1
  <2> QED
    BY <2>1, <2>2
<1> HIDE DEF d
<1> QED
  BY <1>4, <1>5, <1>6, <1>7, <1>8

\* With a veto the gate sets an armed world up before it takes what it knows.
LEMMA ArmedIsSetUp ==
  ASSUME NEW w, IsWorld(w), NEW s, StateSound(w, s), ~s.done,
         ~SlotUnknown(w, s), s.armed,
         NEW a, IsChoice("hybrid_veto", "symbolic", w, s, a)
  PROVE  Disarms(w, a)
<1> SUFFICES ASSUME ~Disarms(w, a) PROVE FALSE
  OBVIOUS
<1> DEFINE mode == "hybrid_veto"
<1>1. IsOpen(w, s) /\ mode \in {"hybrid", "hybrid_veto"} /\ mode # "hybrid"
  BY SoundIsOpen
<1>2. PICK d \in ToSet(Candidates(w, s)) :
        /\ Disarms(w, d) /\ d # Wanted(w, s)
        /\ Free(mode, w, s, d)
        /\ Prior(w, s, d) \in {0, -360}
  BY SetUpIsOffered
<1>3. /\ a \in ToSet(Candidates(w, s)) /\ Free(mode, w, s, a)
      /\ Worth(mode, "symbolic", w, s, d) =< Worth(mode, "symbolic", w, s, a)
  BY <1>2 DEF IsChoice
<1> HIDE DEF mode
<1>4. PICK i \in -2040..600 : Prior(w, s, a) = i
  BY PriorsInBounds
<1>5. PICK j \in {0, -360} : Prior(w, s, d) = j
  BY <1>2
<1>6. PICK m \in Int, k \in Int : Model(w, s, a) = m /\ Model(w, s, d) = k
  BY ModelType
<1>7. k >= 330
  BY <1>2, <1>6, OtherModel
<1>8. Worth(mode, "symbolic", w, s, d) = k + j
  <2>1. ~Matches(w, s, d)
    BY <1>1, <1>2, WantedIsRequired
  <2>2. j \in Int
    BY <1>5
  <2> QED
    BY <1>1, <1>2, <1>5, <1>6, <2>1, <2>2, UpTo
<1>9. k + j >= -30
  BY <1>5, <1>6, <1>7
<1>10. CASE a = Wanted(w, s)
  <2>1. m =< -90
    BY <1>6, <1>10, WantedModel DEF Warned
  <2>2. i =< 300
    BY <1>1, <1>4, <1>10, WantedPrior
  <2>3. Veto(w, s, a, Symbolic(w, s, a)) = -450
    BY <1>10, WantedVeto
  <2>4. Worth(mode, "symbolic", w, s, a) = IF mode = "hybrid" THEN m + i ELSE m + i + (-450)
    BY <1>1, <1>3, <1>4, <1>6, <2>3, FreeWorth
  <2> QED
    BY <1>1, <1>3, <1>4, <1>6, <1>8, <1>9, <2>1, <2>2, <2>4
<1>11. CASE a # Wanted(w, s)
  <2>1. m =< 0
    BY <1>3, <1>6, <1>11, OtherModel
  <2>2. a = Inspect \/ Executes(a)
    BY <1>3, <1>11, OtherFree
  <2>3. a # Inspect
    <3>1. Name(Inspect) = "inspect"
      BY DEF Name, Inspect
    <3> QED
      BY <1>3, <3>1, CandidateKinds, Shapes DEF Disarms
  <2>4. i =< -360
    BY <1>1, <1>4, <1>11, <2>2, <2>3, OtherPrior
  <2>5. /\ Worth(mode, "symbolic", w, s, a) \in Int
        /\ Worth(mode, "symbolic", w, s, a) =< m + i
    BY <1>1, <1>3, <1>4, <1>6, UpTo
  <2> QED
    BY <1>3, <1>4, <1>6, <1>8, <1>9, <2>1, <2>4, <2>5
<1> QED
  BY <1>10, <1>11

\* The gate around the symbolic predictor never leaves the way: with a veto in every
\* world, without one where nothing known has to be set up first.
LEMMA GateIsGood ==
  ASSUME NEW mode \in {"prior_only", "hybrid", "hybrid_veto"},
         NEW w, IsWorld(w), ~Blind(w), NEW s, StateSound(w, s), ~s.done,
         mode = "hybrid_veto" \/ SlotUnknown(w, s) \/ ~s.armed,
         NEW a, IsChoice(mode, "symbolic", w, s, a)
  PROVE  Good(w, s, TRUE, a)
<1>1. a \in ToSet(Candidates(w, s))
  BY DEF IsChoice
<1>2. CASE SlotUnknown(w, s)
  <2>1. Reveals(a)
    BY <1>2, HiddenIsRevealed
  <2>2. ~Tool(w) => a = Inspect
    BY <1>1, <2>1, CandidateKinds, Shapes DEF Reveals, Name, Reset
  <2>3. s.armed => ~Tool(w)
    BY <1>2, ArmedIs, SoundIsOpen, RightIs
  <2> QED
    BY <1>2, <2>1, <2>2, <2>3 DEF Good, Pending, Prepares, Disarms
<1>3. CASE ~SlotUnknown(w, s) /\ s.armed
  <2>1. Disarms(w, a)
    BY <1>3, ArmedIsSetUp
  <2> QED
    BY <1>3, <2>1 DEF Good, Pending, Prepares
<1>4. CASE ~SlotUnknown(w, s) /\ ~s.armed
  <2>1. a = Wanted(w, s)
    BY <1>4, KnownIsTaken
  <2> QED
    BY <1>4, <2>1 DEF Good, Pending
<1> QED
  BY <1>2, <1>3, <1>4

-----------------------------------------------------------------------------
(* Who solves what.                                                        *)

\* Only the expert knows the door of a maze without a hint.
NeedsHint == agent.role = "gated"

Way == Len(world.goal) + Preparation

WhoInv ==
    /\ EpisodeInv
    /\ Baseline => OnTheWay(world, state, NeedsHint, Way)
    /\ Gated({"prior_only", "hybrid"}) /\ InitiallyArmed(world) /\ HintKnown => Stuck
    /\ pc = "raised" => agent.role = "expert" /\ ~Allowed(world, Use("search"))

LEMMA PreparationIs ==
  ASSUME IsWorld(world), NEW s
  PROVE  /\ Preparation = ToPrepare(world, ResetWorld(world, s), NeedsHint)
         /\ Preparation \in Nat /\ Way \in Nat /\ NeedsHint \in BOOLEAN
<1> DEFINE t == ResetWorld(world, s)
<1>1. t.known = InitiallyKnown(world) /\ t.armed = InitiallyArmed(world)
  BY DEF ResetWorld
<1> HIDE DEF t
<1>2. Preparation = ToPrepare(world, t, NeedsHint)
  <2>1. CASE world.kind = "hazard"
    <3>1. ToPrepare(world, t, NeedsHint) =
            If(t.armed \/ (NeedsHint /\ 1 \notin t.known), 1)
      BY <2>1 DEF ToPrepare
    <3>2. Preparation = If(InitiallyArmed(world) \/ (~HintKnown /\ NeedsHint), 1)
      BY <2>1 DEF Preparation, NeedsHint
    <3> QED
      BY <1>1, <3>1, <3>2 DEF If, HintKnown
  <2>2. CASE world.kind # "hazard"
    BY <1>1, <2>2 DEF ToPrepare, Preparation
  <2> QED
    BY <2>1, <2>2
<1>3. Preparation \in Nat
  BY <1>2, ToPrepareType
<1>4. Way \in Nat
  <2>1. Len(world.goal) \in Nat
    BY GoalHasSlots
  <2> QED
    BY <1>3, <2>1 DEF Way
<1> QED
  BY <1>2, <1>3, <1>4 DEF NeedsHint, t

\* An episode starts on the way.
LEMMA WhoStarts ==
  ASSUME IsWorld(world), NEW s
  PROVE  /\ OnTheWay(world, ResetWorld(world, s), NeedsHint, Way)
         /\ ResetWorld(world, s).armed = InitiallyArmed(world)
         /\ ResetWorld(world, s).known = InitiallyKnown(world)
<1> DEFINE t == ResetWorld(world, s)
<1>1. /\ Preparation = ToPrepare(world, t, NeedsHint)
      /\ NeedsHint \in BOOLEAN
  BY PreparationIs
<1>2. OnTheWay(world, t, NeedsHint, Len(world.goal) + ToPrepare(world, t, NeedsHint))
  BY <1>1, WayStarts
<1>3. OnTheWay(world, t, NeedsHint, Way)
  <2> HIDE DEF t
  <2> QED
    BY <1>1, <1>2 DEF Way
<1>4. t.armed = InitiallyArmed(world) /\ t.known = InitiallyKnown(world)
  BY DEF ResetWorld
<1> QED
  BY <1>3, <1>4

\* What a baseline does is never a step too many.
LEMMA BaselineIsGood ==
  ASSUME EpisodeInv, ~state.done, ~Blind(world), Baseline,
         OnTheWay(world, state, NeedsHint, Way), NEW a \in Answers
  PROVE  Good(world, state, NeedsHint, a)
<1>1. IsWorld(world) /\ StateSound(world, state) /\ IsOpen(world, state)
  BY PlayingIsOpen
<1>2. CASE agent.role = "expert"
  <2>1. a = ExpertAction(world, state)
    BY <1>2 DEF Answers
  <2>2. NeedsHint = FALSE
    BY <1>2 DEF NeedsHint
  <2> QED
    BY <1>1, <2>1, <2>2, ExpertIsGood
<1>3. CASE agent.role # "expert"
  <2>1. /\ agent.role = "gated" /\ agent.predictor = "symbolic"
        /\ agent.mode \in {"prior_only", "hybrid", "hybrid_veto"}
        /\ \/ agent.mode = "hybrid_veto"
           \/ ~(InitiallyArmed(world) /\ HintKnown)
    BY <1>3 DEF Baseline, Gated
  <2>2. a = Chosen(agent.mode, "symbolic", world, state)
    BY <2>1 DEF Answers
  <2>3. IsChoice(agent.mode, "symbolic", world, state, a)
    <3>1. agent.mode \in GateMode
      BY <2>1 DEF GateMode
    <3> QED
      BY <1>1, <2>2, <3>1, ChosenIs
  <2>4. agent.mode = "hybrid_veto" \/ SlotUnknown(world, state) \/ ~state.armed
    <3> SUFFICES ASSUME state.armed, ~(InitiallyArmed(world) /\ HintKnown)
                 PROVE  SlotUnknown(world, state)
      BY <2>1
    <3>1. state.progress = 0 /\ InitiallyArmed(world)
      BY <1>1, ArmedIs
    <3>2. state.known = InitiallyKnown(world)
      BY DEF OnTheWay
    <3> QED
      BY <3>1, <3>2 DEF SlotUnknown, HintKnown
  <2>5. NeedsHint = TRUE
    BY <2>1 DEF NeedsHint
  <2> QED
    BY <1>1, <2>1, <2>3, <2>4, <2>5, GateIsGood
<1> QED
  BY <1>2, <1>3

LEMMA WhoInvInit == Init => WhoInv
<1> SUFFICES ASSUME Init PROVE WhoInv
  OBVIOUS
<1>1. EpisodeInv
  BY EpisodeInvInit
<1>2. IsWorld(world)
  BY <1>1, EpisodeAssumption DEF EpisodeInv
<1>3. state = ResetWorld(world, [known |-> {}]) /\ pc = "play"
  BY DEF Init
<1>4. /\ OnTheWay(world, state, NeedsHint, Way)
      /\ state.armed = InitiallyArmed(world) /\ state.known = InitiallyKnown(world)
  BY <1>2, <1>3, WhoStarts
<1> QED
  BY <1>1, <1>3, <1>4 DEF WhoInv, Stuck, HintKnown

LEMMA WhoInvStep ==
  ASSUME \A w \in World : ~Blind(w)
  PROVE  WhoInv /\ [Next]_vars => WhoInv'
<1> SUFFICES ASSUME WhoInv, [Next]_vars PROVE WhoInv'
  OBVIOUS
<1>1. EpisodeInv /\ EpisodeInv'
  BY EpisodeInvStep DEF WhoInv
<1>2. IsWorld(world) /\ ~Blind(world)
  BY <1>1, EpisodeAssumption DEF EpisodeInv
<1>3. CASE UNCHANGED vars
  BY <1>1, <1>3 DEF WhoInv, vars, Baseline, Gated, NeedsHint, Way, Preparation,
                    HintKnown, Stuck
<1>4. CASE Next
  <2>1. world' = world /\ agent' = agent
    BY <1>1, <1>4, Steps
  <2>2. /\ Baseline' = Baseline /\ NeedsHint' = NeedsHint /\ Way' = Way
        /\ HintKnown' = HintKnown /\ InitiallyArmed(world)' = InitiallyArmed(world)
        /\ Gated({"prior_only", "hybrid"})' = Gated({"prior_only", "hybrid"})
    BY <2>1 DEF Baseline, Gated, NeedsHint, Way, Preparation, HintKnown
  <2>3. CASE pc' = "raised" /\ state' = state /\ ~state.done
             /\ \E a \in Answers : ~Allowed(world, a)
    <3>1. agent.role = "expert" /\ ~Allowed(world, Use("search"))
      BY <1>1, <2>3, WhoIsRefused
    <3>2. Baseline' => OnTheWay(world, state, NeedsHint, Way)'
      BY <2>1, <2>2, <2>3 DEF WhoInv
    <3> QED
      BY <1>1, <2>1, <2>2, <2>3, <3>1, <3>2 DEF WhoInv, Stuck
  <2>4. CASE /\ pc' = pc /\ ~state.done
             /\ \E a \in Answers : Allowed(world, a) /\ state' = StepWorld(world, state, a)
    <3>1. PICK a \in Answers : Allowed(world, a) /\ state' = StepWorld(world, state, a)
      BY <2>4
    <3>2. Baseline => OnTheWay(world, state', NeedsHint, Way)
      <4> SUFFICES ASSUME Baseline PROVE OnTheWay(world, state', NeedsHint, Way)
        OBVIOUS
      <4>1. OnTheWay(world, state, NeedsHint, Way)
        BY DEF WhoInv
      <4>2. Good(world, state, NeedsHint, a)
        BY <1>1, <1>2, <2>4, <4>1, BaselineIsGood
      <4>3. NeedsHint \in BOOLEAN /\ StateSound(world, state)
        BY <1>1 DEF NeedsHint, EpisodeInv
      <4> QED
        BY <1>2, <2>4, <3>1, <4>1, <4>2, <4>3, GoodStep
    <3>3. Gated({"prior_only", "hybrid"}) /\ InitiallyArmed(world) /\ HintKnown => Stuck'
      <4> SUFFICES ASSUME Gated({"prior_only", "hybrid"}), InitiallyArmed(world), HintKnown
                   PROVE  Stuck'
        OBVIOUS
      <4>1. Stuck
        BY DEF WhoInv
      <4>2. StepWorld(world, state, a).armed = TRUE
        BY <1>1, <2>4, <4>1, UnarmedNever
      <4>3. state.known \subseteq StepWorld(world, state, a).known
        <5>1. Name(a) \in ActionName /\ StateSound(world, state)
          BY <1>1, <1>2, <3>1, AllowedNames DEF EpisodeInv
        <5> QED
          BY <1>2, <2>4, <5>1, StepSound
      <4> QED
        BY <3>1, <4>1, <4>2, <4>3 DEF Stuck
    <3> QED
      BY <1>1, <2>1, <2>2, <2>4, <3>2, <3>3 DEF WhoInv
  <2>5. CASE pc' = pc /\ state' = ResetWorld(world, state)
    <3>1. /\ OnTheWay(world, state', NeedsHint, Way)
          /\ state'.armed = InitiallyArmed(world)
          /\ state'.known = InitiallyKnown(world)
      BY <1>2, <2>5, WhoStarts
    <3>2. InitiallyArmed(world) /\ HintKnown => Stuck'
      BY <3>1 DEF Stuck, HintKnown
    <3> QED
      BY <1>1, <2>1, <2>2, <2>5, <3>1, <3>2 DEF WhoInv
  <2> QED
    BY <1>1, <1>4, <2>3, <2>4, <2>5, Steps
<1> QED
  BY <1>3, <1>4

LEMMA WhoInvSuffices == WhoInv => WhoSolvesWhat
<1> SUFFICES ASSUME WhoInv PROVE WhoSolvesWhat
  OBVIOUS
<1>1. EpisodeInv /\ IsWorld(world) /\ StateSound(world, state)
  BY EpisodeAssumption DEF WhoInv, EpisodeInv
<1>2. Way \in Nat /\ NeedsHint \in BOOLEAN
  BY <1>1, PreparationIs
<1>3. ASSUME Baseline, state.done, world.max >= Way
      PROVE  Succeeded(world, state) /\ state.steps = Way
  <2>1. OnTheWay(world, state, NeedsHint, Way)
    BY <1>3 DEF WhoInv
  <2> QED
    BY <1>1, <1>2, <1>3, <2>1, WayEnds
<1>4. ASSUME Stuck PROVE state.armed /\ ~Succeeded(world, state)
  <2>1. state.progress = 0 /\ Len(world.goal) \in Nat \ {0}
    BY <1>1, <1>4, ArmedIs, GoalHasSlots DEF Stuck
  <2> QED
    BY <1>4, <2>1 DEF Stuck, Succeeded
<1> QED
  BY <1>3, <1>4 DEF WhoInv, WhoSolvesWhat, Way

\* Whatever the worlds and however long their goals: the expert and the gate around
\* the symbolic predictor solve each of them in the fewest steps, a gate without a
\* veto never sets up a world whose next action it knows, and only an expert calls
\* what a world refuses.  A chain that hides that all there is to do is to summarize
\* is solved by a guess, which is a step less than what would reveal it.
THEOREM BaselinesSolveWorlds ==
  ASSUME \A w \in World : ~Blind(w)
  PROVE  Spec => []WhoSolvesWhat
<1>1. WhoInv /\ [Next]_vars => WhoInv'
  BY WhoInvStep
<1> QED
  BY <1>1, WhoInvInit, WhoInvSuffices, PTL DEF Spec

-----------------------------------------------------------------------------
(* What the rows of a snapshot teach.                                      *)

\* The share of the goal that one more action makes.
LEMMA OneMore ==
  ASSUME NEW L \in Nat, L >= 3, NEW p \in 0..L, p < L
  PROVE  (300 * (p + 1)) \div L - (300 * p) \div L =< 101
<1> DEFINE q == (300 * p) \div L
           r == (300 * (p + 1)) \div L
<1>1. q \in Nat /\ r \in Nat /\ L * r =< 300 * p + 300 /\ 300 * p < L * q + L
  OBVIOUS
<1> HIDE DEF q, r
<1>2. SUFFICES ASSUME r - q >= 102 PROVE FALSE
  BY <1>1 DEF q, r
<1>3. L * (r - q) >= L * 102
  BY <1>1, <1>2
<1> QED
  BY <1>1, <1>3

LEMMA DeltaIs ==
  ASSUME NEW w, IsWorld(w), ~Maze(w), NEW s, StateSound(w, s), ~s.done, NEW a,
         Effect(w, s, a).progress \in 0..Len(w.goal)
  PROVE  /\ ProgressDelta(w, s, a) \in -300..300
         /\ Effect(w, s, a).progress = s.progress => ProgressDelta(w, s, a) = 0
         /\ Effect(w, s, a).progress >= s.progress => ProgressDelta(w, s, a) >= 0
         /\ Effect(w, s, a).progress =< s.progress => ProgressDelta(w, s, a) =< 0
         /\ Effect(w, s, a).progress = s.progress + 1 /\ Len(w.goal) >= 3 =>
              ProgressDelta(w, s, a) =< 101
         /\ Effect(w, s, a).progress = s.progress + 1 /\ Len(w.goal) = 2 =>
              ProgressDelta(w, s, a) = 150
<1>1. PICK L \in Nat \ {0} : Len(w.goal) = L
  BY GoalHasSlots
<1>2. PICK p \in 0..L, q \in 0..L : s.progress = p /\ Effect(w, s, a).progress = q
  BY <1>1 DEF StateSound, IsState
<1>3. ProgressDelta(w, s, a) = (300 * q) \div L - (300 * p) \div L
  BY <1>1, <1>2 DEF ProgressDelta, ProgressOf, Unit
<1>4. PICK x \in 0..300, y \in 0..300 : (300 * p) \div L = x /\ (300 * q) \div L = y
  <2>1. (300 * p) \div L \in 0..300
    BY Share
  <2>2. (300 * q) \div L \in 0..300
    BY Share
  <2> QED
    BY <2>1, <2>2
<1>5. (p =< q => x =< y) /\ (q =< p => y =< x)
  <2>1. p =< q => (300 * p) \div L =< (300 * q) \div L
    BY Share
  <2>2. q =< p => (300 * q) \div L =< (300 * p) \div L
    BY Share
  <2> QED
    BY <1>4, <2>1, <2>2
<1>6. q = p + 1 /\ L >= 3 => y - x =< 101
  BY <1>1, <1>2, <1>4, OneMore
<1>7. q = p + 1 /\ L = 2 => y - x = 150
  BY <1>1, <1>2, <1>4
<1>8. ProgressDelta(w, s, a) = y - x
  BY <1>3, <1>4
<1> HIDE DEF ProgressDelta
<1> QED
  BY <1>1, <1>2, <1>4, <1>5, <1>6, <1>7, <1>8

LEMMA ScoreOfRow ==
  ASSUME NEW w, NEW s, NEW a, NEW r \in Int, Reward(w, s, a) = r,
         NEW d \in Int, ProgressDelta(w, s, a) = d,
         NEW i \in Int, InformationGain(w, s, a) = i
  PROVE  ActualScore(w, s, a) =
           r + 2 * d + i + IF Succeeded(w, Effect(w, s, a)) THEN 150 ELSE 0
BY DEF ActualScore, If, Unit

\* The rows of a lock.
LockScores(w, s, a, v) ==
    /\ v \in Int
    /\ a = Inspect /\ s.armed => v >= 330
    /\ a = Inspect /\ ~s.armed /\ SlotUnknown(w, s) => v = 315
    /\ a = Inspect /\ ~s.armed /\ ~SlotUnknown(w, s) => v =< 0
    /\ a = Wanted(w, s) /\ s.armed => v =< 0
    /\ a = Wanted(w, s) /\ ~s.armed => v >= 60
    /\ a = Wanted(w, s) /\ ~s.armed /\ (LastStep(w, s) \/ Len(w.goal) = 2) => v >= 360
    /\ a = Wanted(w, s) /\ ~s.armed /\ ~(LastStep(w, s) \/ Len(w.goal) = 2) => v =< 300
    /\ a # Inspect /\ a # Wanted(w, s) => v =< 0

LEMMA LockRows ==
  ASSUME NEW w, IsWorld(w), Lock(w), NEW s, StateSound(w, s), ~s.done,
         NEW a, a = Inspect \/ a = Reset \/ Name(a) = "press"
  PROVE  LockScores(w, s, a, ActualScore(w, s, a))
<1> DEFINE e == Effect(w, s, a)
           W == Wanted(w, s)
<1>1. IsOpen(w, s) /\ LockMoves(w, s, a) /\ ~Maze(w) /\ ~Tool(w) /\ w.kind # "hazard"
  BY SoundIsOpen, LockFields, Shapes DEF Maze
<1>2. PICK L \in Nat \ {0}, p \in Nat :
        Len(w.goal) = L /\ s.progress = p /\ p < L
  BY <1>1, GoalHasSlots DEF IsOpen, IsState
<1>3. /\ W # Inspect /\ W # Reset /\ Name(W) = "press" /\ Inspect # Reset
      /\ Name(Inspect) = "inspect" /\ Name(Reset) = "reset"
      /\ Right(w, s, a) <=> a = W
  BY <1>1, WantedIs DEF Wanted, Right, Name, Inspect, Reset
<1>4. s.armed \in BOOLEAN /\ (s.armed => p = 0) /\ (s.armed => w.kind = "trap")
  BY <1>2, ArmedIs DEF StateSound, IsState
<1>5. SlotUnknown(w, s) => w.kind # "trap" /\ ~s.armed
  BY <1>1, <1>4, RightIs
<1>6. /\ e.progress = IF a = Inspect THEN p ELSE IF a = W /\ ~s.armed THEN p + 1 ELSE 0
      /\ e.known = IF a = Inspect THEN s.known \cup {p + 1} ELSE s.known
      /\ a = Inspect => e.armed = FALSE
      /\ a = Reset => e.armed = (w.kind = "trap")
      /\ a # Inspect /\ a # Reset => e.armed = s.armed
  BY <1>1, <1>2, <1>3 DEF LockMoves
<1> HIDE DEF e, W
<1>7. e.progress \in 0..L
  BY <1>2, <1>6
<1>8. Succeeded(w, e) <=> e.progress >= L
  BY <1>2 DEF Succeeded
<1>9. PICK d \in -300..300 : ProgressDelta(w, s, a) = d
  <2>1. Effect(w, s, a).progress \in 0..Len(w.goal)
    BY <1>2, <1>7 DEF e
  <2>2. ProgressDelta(w, s, a) \in -300..300
    BY <1>1, <2>1, DeltaIs, ZenonT(30)
  <2> QED
    BY <2>2
<1>10. /\ e.progress = p => d = 0
       /\ e.progress >= p => d >= 0
       /\ e.progress =< p => d =< 0
       /\ e.progress = p + 1 /\ L >= 3 => d =< 101
       /\ e.progress = p + 1 /\ L = 2 => d = 150
  <2>1. Effect(w, s, a).progress \in 0..Len(w.goal)
    BY <1>2, <1>7 DEF e
  <2>2. /\ Effect(w, s, a).progress = s.progress => ProgressDelta(w, s, a) = 0
        /\ Effect(w, s, a).progress >= s.progress => ProgressDelta(w, s, a) >= 0
        /\ Effect(w, s, a).progress =< s.progress => ProgressDelta(w, s, a) =< 0
        /\ Effect(w, s, a).progress = s.progress + 1 /\ Len(w.goal) >= 3 =>
             ProgressDelta(w, s, a) =< 101
        /\ Effect(w, s, a).progress = s.progress + 1 /\ Len(w.goal) = 2 =>
             ProgressDelta(w, s, a) = 150
    BY <1>1, <2>1, DeltaIs
  <2> QED
    BY <1>2, <1>9, <2>2 DEF e
<1>11. InformationGain(w, s, a) = IF a = Inspect /\ (s.armed \/ SlotUnknown(w, s))
                                     THEN 300 ELSE 0
  <2>1. InformationGain(w, s, a) =
          IF e.known # s.known \/ (s.armed /\ ~e.armed) THEN 300 ELSE 0
    BY <1>1 DEF InformationGain, If, Unit, e
  <2>2. a = Inspect => (e.known # s.known <=> SlotUnknown(w, s))
    BY <1>2, <1>6 DEF SlotUnknown
  <2> QED
    BY <1>3, <1>4, <1>6, <2>1, <2>2
<1>12. Reward(w, s, a) = IF Succeeded(w, e) THEN 300 ELSE LockReward(w, s, a)
  BY <1>1 DEF Reward, Unit, e
<1>13. PICK v \in Int : ActualScore(w, s, a) = v
  <2>1. PICK i \in Int, r \in Int : InformationGain(w, s, a) = i /\ Reward(w, s, a) = r
    BY <1>11, <1>12 DEF LockReward
  <2> QED
    BY <1>9, <2>1, ScoreOfRow
<1>14. LastStep(w, s) <=> p = L - 1
  BY <1>2 DEF LastStep
<1>15. CASE a = Inspect
  <2>1. ~Succeeded(w, e) /\ d = 0
    BY <1>2, <1>6, <1>8, <1>10, <1>15
  <2>2. Reward(w, s, a) = IF s.armed THEN 30 ELSE IF SlotUnknown(w, s) THEN 15 ELSE -3
    BY <1>3, <1>5, <1>12, <1>15, <2>1 DEF LockReward
  <2>3. s.armed => v = 30 + 2 * 0 + 300 + 0
    BY <1>9, <1>11, <1>13, <1>15, <2>1, <2>2, ScoreOfRow DEF e
  <2>4. ~s.armed /\ SlotUnknown(w, s) => v = 15 + 2 * 0 + 300 + 0
    BY <1>9, <1>11, <1>13, <1>15, <2>1, <2>2, ScoreOfRow DEF e
  <2>5. ~s.armed /\ ~SlotUnknown(w, s) => v = -3 + 2 * 0 + 0 + 0
    BY <1>9, <1>11, <1>13, <1>15, <2>1, <2>2, ScoreOfRow DEF e
  <2> QED
    BY <1>3, <1>13, <1>15, <2>3, <2>4, <2>5 DEF LockScores, W
<1>16. CASE a = W /\ ~s.armed
  <2>1. e.progress = p + 1 /\ a # Inspect
    BY <1>3, <1>6, <1>16
  <2>2. CASE p = L - 1
    <3>1. Succeeded(w, e) /\ d >= 0
      BY <1>2, <1>8, <1>10, <2>1, <2>2
    <3>2. v = 300 + 2 * d + 0 + 150
      BY <1>9, <1>11, <1>12, <1>13, <2>1, <3>1, ScoreOfRow DEF e
    <3> QED
      BY <1>13, <1>14, <1>16, <2>1, <2>2, <3>1, <3>2 DEF LockScores, W
  <2>3. CASE p # L - 1
    <3>1. ~Succeeded(w, e) /\ d >= 0 /\ L >= 2
      BY <1>2, <1>8, <1>10, <2>1, <2>3
    <3>2. Reward(w, s, a) = IF w.kind = "trap" THEN 75 ELSE 60
      BY <1>3, <1>12, <1>16, <2>1, <3>1 DEF LockReward
    <3>3. PICK r \in {60, 75} : Reward(w, s, a) = r
      BY <3>2
    <3>4. v = r + 2 * d + 0 + 0
      BY <1>9, <1>11, <1>13, <2>1, <3>1, <3>3, ScoreOfRow DEF e
    <3>5. (L = 2 => d = 150) /\ (L # 2 => d =< 101)
      BY <1>2, <1>10, <2>1, <3>1
    <3>6. v \in Int /\ v >= 60 /\ (L = 2 => v >= 360) /\ (L # 2 => v =< 300)
      BY <1>13, <3>1, <3>3, <3>4, <3>5
    <3> QED
      BY <1>2, <1>13, <1>14, <1>16, <2>1, <2>3, <3>6 DEF LockScores, W
  <2> QED
    BY <2>2, <2>3
<1>17. CASE a # Inspect /\ (a # W \/ s.armed)
  <2>1. ~Succeeded(w, e) /\ d =< 0
    BY <1>2, <1>6, <1>8, <1>10, <1>17
  <2>2. Reward(w, s, a) \in {-105, -60, -3}
    <3>1. CASE a = Reset
      BY <1>3, <1>12, <2>1, <3>1 DEF LockReward
    <3>2. CASE Name(a) = "press"
      BY <1>3, <1>12, <1>17, <2>1, <3>2 DEF LockReward
    <3> QED
      BY <1>17, <3>1, <3>2
  <2>3. PICK r \in {-105, -60, -3} : Reward(w, s, a) = r
    BY <2>2
  <2>4. v = r + 2 * d + 0 + 0
    BY <1>9, <1>11, <1>13, <1>17, <2>1, <2>3, ScoreOfRow DEF e
  <2>5. v =< 0
    BY <1>13, <2>1, <2>3, <2>4
  <2> QED
    BY <1>13, <1>17, <2>5 DEF LockScores, W
<1> QED
  BY <1>15, <1>16, <1>17

\* The rows of a maze.
MazeScores(w, s, a, v) ==
    LET closed == s.armed \/ (w.kind = "maze" /\ SlotUnknown(w, s)) IN
    /\ v \in Int
    /\ a = Inspect /\ closed => v >= 330
    /\ a = Inspect /\ ~closed => v =< 190
    /\ a = Wanted(w, s) /\ closed => v =< 0
    /\ a = Wanted(w, s) /\ ~closed => v >= 870
    /\ a # Inspect /\ a # Wanted(w, s) => v =< 0

LEMMA MazeRows ==
  ASSUME NEW w, IsWorld(w), Maze(w), NEW s, StateSound(w, s), ~s.done, NEW a
  PROVE  MazeScores(w, s, a, ActualScore(w, s, a))
<1> DEFINE e == Effect(w, s, a)
           W == Wanted(w, s)
           closed == s.armed \/ (w.kind = "maze" /\ SlotUnknown(w, s))
<1>1. IsOpen(w, s) /\ MazeMoves(w, s, a) /\ ~Lock(w) /\ ~Tool(w)
  BY SoundIsOpen, MazeFields, Shapes
<1>2. Len(w.goal) = 1 /\ s.progress = 0 /\ s.armed \in BOOLEAN
  BY <1>1 DEF IsWorld, IsOpen, IsState
<1>3. /\ W # Inspect
      /\ Right(w, s, a) <=> a = W
      /\ w.kind \in {"maze", "hazard"}
      /\ s.armed => w.kind = "hazard"
  BY <1>1, WantedIs, ArmedIs DEF Wanted, Right, Maze
<1>4. /\ e.progress = IF a = W /\ ~closed THEN 1 ELSE 0
      /\ e.known = IF a = Inspect THEN s.known \cup {1} ELSE s.known
      /\ a = Inspect => e.armed = FALSE
      /\ a # Inspect => e.armed = s.armed
  BY <1>1, <1>2, <1>3 DEF MazeMoves, SlotUnknown
<1>5. SlotUnknown(w, s) <=> 1 \notin s.known
  BY <1>2 DEF SlotUnknown
<1> HIDE DEF e, W
<1>6. /\ Succeeded(w, e) <=> a = W /\ ~closed
      /\ ~Succeeded(w, s)
  BY <1>2, <1>4 DEF Succeeded
<1>7. /\ ProgressOf(w, s) = IF 1 \in s.known THEN 90 ELSE 0
      /\ Succeeded(w, e) => ProgressOf(w, e) = 300
      /\ ~Succeeded(w, e) => ProgressOf(w, e) = IF 1 \in e.known THEN 90 ELSE 0
  BY <1>6 DEF ProgressOf, HintSeen, If, Unit
<1>8. ProgressDelta(w, s, a) = ProgressOf(w, e) - ProgressOf(w, s)
  BY DEF ProgressDelta, e
<1>9. InformationGain(w, s, a) =
        IF w.kind = "hazard" THEN If(s.armed /\ ~e.armed, 300)
        ELSE If(e.known # s.known \/ (s.armed /\ ~e.armed), 300)
  BY DEF InformationGain, Unit, e
<1>10. Reward(w, s, a) = IF Succeeded(w, e) THEN 300 ELSE MazeReward(w, s, a)
  BY <1>1 DEF Reward, Unit, e
<1> HIDE DEF closed
<1>11. CASE a = Inspect
  <2>1. PICK k \in {0, 90} : ProgressOf(w, s) = k /\ (1 \in s.known => k = 90)
    BY <1>7
  <2>2. ProgressDelta(w, s, a) = 90 - k
    BY <1>3, <1>4, <1>6, <1>7, <1>8, <1>11, <2>1
  <2>3. InformationGain(w, s, a) = IF closed THEN 300 ELSE 0
    <3>1. CASE w.kind = "hazard"
      BY <1>3, <1>4, <1>9, <1>11, <3>1 DEF If, closed
    <3>2. CASE w.kind = "maze"
      BY <1>3, <1>4, <1>5, <1>9, <1>11, <3>2 DEF If, closed
    <3> QED
      BY <1>3, <3>1, <3>2
  <2>4. Reward(w, s, a) \in IF closed THEN {30, 36} ELSE {30, -6, 6}
    <3>1. ~Succeeded(w, e)
      BY <1>3, <1>6, <1>11
    <3>2. CASE w.kind = "hazard"
      BY <1>3, <1>10, <1>11, <3>1, <3>2 DEF MazeReward, closed
    <3>3. CASE w.kind = "maze"
      BY <1>3, <1>10, <1>11, <3>1, <3>3 DEF MazeReward, closed
    <3> QED
      BY <1>3, <3>2, <3>3
  <2>5. ~closed /\ w.kind = "maze" => k = 90
    BY <1>5, <2>1 DEF closed
  <2>6. Reward(w, s, a) = 30 => w.kind = "maze" \/ closed
    BY <1>3, <1>6, <1>10, <1>11 DEF MazeReward, closed
  <2>7. PICK r \in {30, 36, -6, 6} : Reward(w, s, a) = r
    BY <2>4
  <2>8. PICK i \in {0, 300} : InformationGain(w, s, a) = i
    BY <2>3
  <2>9. ActualScore(w, s, a) = r + 2 * (90 - k) + i + 0
    <3>1. ~Succeeded(w, Effect(w, s, a))
      BY <1>3, <1>6, <1>11 DEF e
    <3>2. 90 - k \in Int
      BY <2>1
    <3> QED
      BY <2>1, <2>2, <2>7, <2>8, <3>1, <3>2, ScoreOfRow
  <2>10. closed => ActualScore(w, s, a) >= 330
    BY <2>1, <2>3, <2>4, <2>7, <2>8, <2>9
  <2>11. ~closed => ActualScore(w, s, a) =< 190
    BY <2>1, <2>3, <2>4, <2>5, <2>6, <2>7, <2>8, <2>9
  <2>12. ActualScore(w, s, a) \in Int
    BY <2>1, <2>7, <2>8, <2>9
  <2> QED
    BY <1>3, <1>11, <2>10, <2>11, <2>12 DEF MazeScores, closed, W
<1>12. CASE a = W /\ ~closed
  <2>1. PICK k \in {0, 90} : ProgressOf(w, s) = k
    BY <1>7
  <2>2. ProgressDelta(w, s, a) = 300 - k /\ Reward(w, s, a) = 300
    BY <1>6, <1>7, <1>8, <1>10, <1>12, <2>1
  <2>3. InformationGain(w, s, a) = 0
    BY <1>3, <1>4, <1>9, <1>12 DEF If
  <2>4. ActualScore(w, s, a) = 300 + 2 * (300 - k) + 0 + 150
    <3>1. Succeeded(w, Effect(w, s, a)) /\ 300 - k \in Int
      BY <1>6, <1>12, <2>1 DEF e
    <3> QED
      BY <2>2, <2>3, <3>1, ScoreOfRow
  <2>5. ActualScore(w, s, a) \in Int /\ ActualScore(w, s, a) >= 870
    BY <2>1, <2>4
  <2> QED
    BY <1>3, <1>12, <2>5 DEF MazeScores, closed, W
<1>13. CASE a # Inspect /\ (a # W \/ closed)
  <2>1. ~Succeeded(w, e) /\ e.known = s.known /\ e.armed = s.armed
    BY <1>4, <1>6, <1>13
  <2>2. ProgressDelta(w, s, a) = 0
    BY <1>7, <1>8, <2>1
  <2>3. InformationGain(w, s, a) = 0
    BY <1>9, <2>1 DEF If
  <2>4. PICK r \in {-105, -75} : Reward(w, s, a) = r
    BY <1>10, <1>13, <2>1 DEF MazeReward
  <2>5. ActualScore(w, s, a) = r + 2 * 0 + 0 + 0
    BY <2>1, <2>2, <2>3, <2>4, ScoreOfRow DEF e
  <2>6. ActualScore(w, s, a) \in Int /\ ActualScore(w, s, a) =< 0
    BY <2>4, <2>5
  <2> QED
    BY <1>13, <2>6 DEF MazeScores, closed, W
<1> QED
  BY <1>11, <1>12, <1>13

\* The rows of a tool chain.
ToolScores(w, s, a, v) ==
    /\ v \in Int
    /\ Revealing(w, s, a) => v = 315
    /\ ~Revealing(w, s, a) /\ a = Wanted(w, s) /\ ~s.armed =>
         v >= 75 /\ (LastStep(w, s) => v >= 450)
    /\ s.armed /\ a = Wanted(w, s) => v =< 0
    /\ s.armed /\ Name(a) = "search" => v >= 330
    /\ ~Revealing(w, s, a) /\ a # Wanted(w, s) /\ ~(s.armed /\ Name(a) = "search") =>
         v =< 0

LEMMA ToolRows ==
  ASSUME NEW w, IsWorld(w), Tool(w), NEW s, StateSound(w, s), ~s.done, NEW a
  PROVE  ToolScores(w, s, a, ActualScore(w, s, a))
<1> DEFINE e == Effect(w, s, a)
           W == Wanted(w, s)
           R == Revealing(w, s, a)
           U == SetsUp(w, a)
<1>1. /\ IsOpen(w, s) /\ ToolMoves(w, s, a) /\ ~Maze(w) /\ ~Lock(w)
      /\ w.kind # "hazard"
  BY SoundIsOpen, ToolFields, Shapes DEF Maze
<1>2. PICK L \in Nat \ {0}, p \in Nat :
        Len(w.goal) = L /\ s.progress = p /\ p < L
  BY <1>1, GoalHasSlots DEF IsOpen, IsState
<1>3. /\ Right(w, s, a) <=> a = W
      /\ U <=> w.kind = "precondition" /\ Name(a) = "search"
      /\ U => a # W /\ ~R
      /\ s.armed => w.kind = "precondition" /\ p = 0 /\ ~R
  <2>1. w.kind = "precondition" => ~SlotUnknown(w, s) /\ Name(W) # "search"
    BY <1>1, RightIs, WantedIs
  <2>2. s.armed => w.kind = "precondition" /\ p = 0
    BY <1>1, <1>2, ArmedIs
  <2> QED
    BY <2>1, <2>2 DEF Wanted, Right, SetsUp, Revealing
<1>4. /\ e.progress = IF R \/ U THEN p ELSE IF a = W /\ ~s.armed THEN p + 1
                      ELSE IF p > 0 THEN p - 1 ELSE 0
      /\ e.known = IF R THEN s.known \cup {p + 1} ELSE s.known
      /\ ~R /\ U => e.armed = FALSE
      /\ R \/ ~U => e.armed = s.armed
      /\ s.armed \in BOOLEAN
  BY <1>1, <1>2, <1>3 DEF ToolMoves, IsOpen, IsState
<1>5. R => p + 1 \notin s.known
  BY <1>2 DEF Revealing, SlotUnknown
<1> HIDE DEF e, W, R, U
<1>6. e.progress \in 0..L
  BY <1>2, <1>4
<1>7. Succeeded(w, e) <=> e.progress >= L
  BY <1>2 DEF Succeeded
<1>8. PICK d \in -300..300 : ProgressDelta(w, s, a) = d
  <2>1. Effect(w, s, a).progress \in 0..Len(w.goal)
    BY <1>2, <1>6 DEF e
  <2>2. ProgressDelta(w, s, a) \in -300..300
    BY <1>1, <2>1, DeltaIs
  <2> QED
    BY <2>2
<1>9. /\ e.progress = p => d = 0
      /\ e.progress >= p => d >= 0
      /\ e.progress =< p => d =< 0
  <2>1. Effect(w, s, a).progress \in 0..Len(w.goal)
    BY <1>2, <1>6 DEF e
  <2>2. /\ Effect(w, s, a).progress = s.progress => ProgressDelta(w, s, a) = 0
        /\ Effect(w, s, a).progress >= s.progress => ProgressDelta(w, s, a) >= 0
        /\ Effect(w, s, a).progress =< s.progress => ProgressDelta(w, s, a) =< 0
    BY <1>1, <2>1, DeltaIs
  <2> QED
    BY <1>2, <1>8, <2>2 DEF e
<1>10. InformationGain(w, s, a) = IF R \/ (s.armed /\ U) THEN 300 ELSE 0
  <2>1. InformationGain(w, s, a) =
          IF e.known # s.known \/ (s.armed /\ ~e.armed) THEN 300 ELSE 0
    BY <1>1 DEF InformationGain, If, Unit, e
  <2>2. e.known # s.known <=> R
    BY <1>4, <1>5
  <2>3. s.armed /\ ~e.armed <=> s.armed /\ U
    BY <1>3, <1>4
  <2> QED
    BY <2>1, <2>2, <2>3
<1>11. Reward(w, s, a) = IF Succeeded(w, e) THEN 300 ELSE ToolReward(w, s, a)
  BY <1>1 DEF Reward, Unit, e
<1>12. ToolReward(w, s, a) =
         IF R THEN 15 ELSE IF U THEN IF s.armed THEN 36 ELSE -6
         ELSE IF a = W THEN IF s.armed THEN -90 ELSE 75 ELSE -30
  BY <1>3 DEF ToolReward, R
<1>13. LastStep(w, s) <=> p = L - 1
  BY <1>2 DEF LastStep
<1>14. /\ s.armed /\ Name(a) = "search" <=> s.armed /\ U
  BY <1>3
<1>15. CASE R
  <2>1. ~Succeeded(w, e) /\ d = 0
    BY <1>2, <1>4, <1>7, <1>9, <1>15
  <2>2. ActualScore(w, s, a) = 15 + 2 * 0 + 300 + 0
    BY <1>8, <1>10, <1>11, <1>12, <1>15, <2>1, ScoreOfRow DEF e
  <2> QED
    BY <1>3, <1>14, <1>15, <2>2 DEF ToolScores, R, W
<1>16. CASE ~R /\ U
  <2>1. ~Succeeded(w, e) /\ d = 0
    BY <1>2, <1>4, <1>7, <1>9, <1>16
  <2>2. CASE s.armed
    <3>1. ActualScore(w, s, a) = 36 + 2 * 0 + 300 + 0
      BY <1>8, <1>10, <1>11, <1>12, <1>16, <2>1, <2>2, ScoreOfRow DEF e
    <3> QED
      BY <1>3, <1>14, <1>16, <2>2, <3>1 DEF ToolScores, R, W
  <2>3. CASE ~s.armed
    <3>1. ActualScore(w, s, a) = -6 + 2 * 0 + 0 + 0
      BY <1>8, <1>10, <1>11, <1>12, <1>16, <2>1, <2>3, ScoreOfRow DEF e
    <3> QED
      BY <1>3, <1>14, <1>16, <2>3, <3>1 DEF ToolScores, R, W
  <2> QED
    BY <2>2, <2>3
<1>17. CASE ~R /\ ~U /\ a = W /\ ~s.armed
  <2>1. d >= 0 /\ (Succeeded(w, e) <=> p = L - 1)
    BY <1>2, <1>4, <1>7, <1>9, <1>17
  <2>2. ActualScore(w, s, a) =
          IF p = L - 1 THEN 300 + 2 * d + 0 + 150 ELSE 75 + 2 * d + 0 + 0
    <3>1. CASE p = L - 1
      BY <1>8, <1>10, <1>11, <1>17, <2>1, <3>1, ScoreOfRow DEF e
    <3>2. CASE p # L - 1
      BY <1>8, <1>10, <1>11, <1>12, <1>17, <2>1, <3>2, ScoreOfRow DEF e
    <3> QED
      BY <3>1, <3>2
  <2>3. /\ ActualScore(w, s, a) \in Int /\ ActualScore(w, s, a) >= 75
        /\ p = L - 1 => ActualScore(w, s, a) >= 450
    BY <1>2, <1>8, <2>1, <2>2
  <2> QED
    BY <1>13, <1>17, <2>3 DEF ToolScores, R, W
<1>18. CASE ~R /\ ~U /\ ~(a = W /\ ~s.armed)
  <2>1. d =< 0 /\ ~Succeeded(w, e)
    BY <1>2, <1>4, <1>7, <1>9, <1>18
  <2>2. PICK r \in {-90, -30} : Reward(w, s, a) = r
    BY <1>11, <1>12, <1>18, <2>1
  <2>3. ActualScore(w, s, a) = r + 2 * d + 0 + 0
    BY <1>8, <1>10, <1>18, <2>1, <2>2, ScoreOfRow DEF e
  <2>4. ActualScore(w, s, a) \in Int /\ ActualScore(w, s, a) =< 0
    BY <1>8, <2>1, <2>2, <2>3
  <2> QED
    BY <1>14, <1>18, <2>4 DEF ToolScores, R, W
<1> QED
  BY <1>15, <1>16, <1>17, <1>18

\* The only best row of a snapshot.
Tops(w, s, a) ==
    /\ a \in ToSet(Candidates(w, s))
    /\ \A b \in ToSet(Candidates(w, s)) :
         b # a => ActualScore(w, s, b) < ActualScore(w, s, a)

LEMMA RowScoreType ==
  ASSUME NEW w, IsWorld(w), NEW s, StateSound(w, s), ~s.done,
         NEW a \in ToSet(Candidates(w, s))
  PROVE  /\ ActualScore(w, s, a) \in Int
         /\ Lock(w) => LockScores(w, s, a, ActualScore(w, s, a))
         /\ Maze(w) => MazeScores(w, s, a, ActualScore(w, s, a))
         /\ Tool(w) => ToolScores(w, s, a, ActualScore(w, s, a))
<1>1. Lock(w) => LockScores(w, s, a, ActualScore(w, s, a))
  BY CandidateKinds, LockRows
<1>2. Maze(w) => MazeScores(w, s, a, ActualScore(w, s, a))
  BY MazeRows
<1>3. Tool(w) => ToolScores(w, s, a, ActualScore(w, s, a))
  BY ToolRows
<1>4. ActualScore(w, s, a) \in Int
  BY <1>1, <1>2, <1>3, Shapes DEF LockScores, MazeScores, ToolScores
<1> QED
  BY <1>1, <1>2, <1>3, <1>4

LEMMA OneBest ==
  ASSUME NEW w, IsWorld(w), NEW s, StateSound(w, s), ~s.done, NEW a, Tops(w, s, a)
  PROVE  BestRows(w, s) = {a}
<1> DEFINE f == [b \in ToSet(Candidates(w, s)) |-> ActualScore(w, s, b)]
           C == ToSet(Candidates(w, s))
<1>1. \A b \in C : f[b] \in Int
  BY RowScoreType
<1>2. a \in C /\ \A b \in C : b # a => f[b] < f[a]
  BY DEF Tops
<1>3. BestRows(w, s) = {c \in C : \A b \in C : f[b] =< f[c]}
  BY DEF BestRows
<1> HIDE DEF f, C
<1> QED
  BY <1>1, <1>2, <1>3

LEMMA LockTops ==
  ASSUME NEW w, IsWorld(w), Lock(w), NEW s, StateSound(w, s), ~s.done
  PROVE  LET guess == SlotUnknown(w, s) /\ (LastStep(w, s) \/ Len(w.goal) = 2) IN
         IF s.armed \/ (SlotUnknown(w, s) /\ ~guess)
            THEN Tops(w, s, Inspect) /\ ~(s.armed /\ SlotUnknown(w, s))
            ELSE Tops(w, s, Wanted(w, s))
<1> DEFINE last == LastStep(w, s) \/ Len(w.goal) = 2
           C == ToSet(Candidates(w, s))
           W == Wanted(w, s)
<1>1. IsOpen(w, s) /\ W \in C /\ W # Inspect
  BY SoundIsOpen, RightIsOffered, WantedIs DEF Wanted
<1>2. s.armed => ~SlotUnknown(w, s)
  BY <1>1, ArmedIs, RightIs
<1>3. s.armed \/ SlotUnknown(w, s) => Inspect \in C
  BY ArmedIs, LockOffers
<1>4. \A b \in C : LockScores(w, s, b, ActualScore(w, s, b))
  BY RowScoreType
<1> HIDE DEF C, W, last
<1>5. CASE s.armed \/ (SlotUnknown(w, s) /\ ~last)
  <2>1. PICK v \in Int : ActualScore(w, s, Inspect) = v /\ v >= 315
    BY <1>2, <1>3, <1>4, <1>5 DEF LockScores
  <2>2. ASSUME NEW b \in C, b # Inspect
        PROVE  ActualScore(w, s, b) < ActualScore(w, s, Inspect)
    <3>1. PICK x \in Int : ActualScore(w, s, b) = x /\ x =< 300
      <4>1. CASE b = W
        BY <1>2, <1>4, <1>5, <4>1 DEF LockScores, W, last
      <4>2. CASE b # W
        BY <1>4, <2>2, <4>2 DEF LockScores, W
      <4> QED
        BY <4>1, <4>2
    <3> QED
      BY <2>1, <3>1
  <2>3. Tops(w, s, Inspect)
    BY <1>3, <1>5, <2>2 DEF Tops, C
  <2> QED
    BY <1>2, <1>5, <2>3 DEF last
<1>6. CASE ~s.armed /\ (~SlotUnknown(w, s) \/ last)
  <2>1. PICK v \in Int : /\ ActualScore(w, s, W) = v /\ v >= 60
                         /\ last => v >= 360
    BY <1>1, <1>4, <1>6 DEF LockScores, W, last
  <2>2. ASSUME NEW b \in C, b # W
        PROVE  ActualScore(w, s, b) < ActualScore(w, s, W)
    <3>1. PICK x \in Int : /\ ActualScore(w, s, b) = x
                           /\ x =< 0 \/ (x = 315 /\ SlotUnknown(w, s))
      <4>1. CASE b = Inspect
        BY <1>4, <1>6, <4>1 DEF LockScores
      <4>2. CASE b # Inspect
        BY <1>4, <2>2, <4>2 DEF LockScores, W
      <4> QED
        BY <4>1, <4>2
    <3> QED
      BY <1>6, <2>1, <3>1
  <2>3. Tops(w, s, W)
    BY <1>1, <2>2 DEF Tops, C
  <2> QED
    BY <1>6, <2>3 DEF last, W
<1> QED
  BY <1>2, <1>5, <1>6 DEF last

LEMMA MazeTops ==
  ASSUME NEW w, IsWorld(w), Maze(w), NEW s, StateSound(w, s), ~s.done
  PROVE  IF s.armed \/ (w.kind = "maze" /\ SlotUnknown(w, s))
            THEN Tops(w, s, Inspect) ELSE Tops(w, s, Wanted(w, s))
<1> DEFINE closed == s.armed \/ (w.kind = "maze" /\ SlotUnknown(w, s))
           C == ToSet(Candidates(w, s))
           W == Wanted(w, s)
<1>1. IsOpen(w, s) /\ W \in C /\ W # Inspect /\ Inspect \in C
  BY SoundIsOpen, RightIsOffered, WantedIs, MazeOffers DEF Wanted
<1>2. \A b \in C : MazeScores(w, s, b, ActualScore(w, s, b))
  BY RowScoreType
<1> HIDE DEF C, W
<1>3. CASE closed
  <2>1. PICK v \in Int : ActualScore(w, s, Inspect) = v /\ v >= 330
    BY <1>1, <1>2, <1>3 DEF MazeScores
  <2>2. ASSUME NEW b \in C, b # Inspect
        PROVE  ActualScore(w, s, b) < ActualScore(w, s, Inspect)
    <3>1. PICK x \in Int : ActualScore(w, s, b) = x /\ x =< 0
      BY <1>2, <1>3, <2>2 DEF MazeScores
    <3> QED
      BY <2>1, <3>1
  <2> QED
    BY <1>1, <1>3, <2>2 DEF Tops, C
<1>4. CASE ~closed
  <2>1. PICK v \in Int : ActualScore(w, s, W) = v /\ v >= 870
    BY <1>1, <1>2, <1>4 DEF MazeScores, W
  <2>2. ASSUME NEW b \in C, b # W
        PROVE  ActualScore(w, s, b) < ActualScore(w, s, W)
    <3>1. PICK x \in Int : ActualScore(w, s, b) = x /\ x =< 190
      BY <1>2, <1>4, <2>2 DEF MazeScores, W
    <3> QED
      BY <2>1, <3>1
  <2>3. Tops(w, s, W)
    BY <1>1, <2>2 DEF Tops, C
  <2> QED
    BY <1>4, <2>3 DEF W
<1> QED
  BY <1>3, <1>4

LEMMA ToolTops ==
  ASSUME NEW w, IsWorld(w), Tool(w), NEW s, StateSound(w, s), ~s.done
  PROVE  /\ s.armed => Tops(w, s, Use("search")) /\ ~SlotUnknown(w, s)
         /\ ~s.armed /\ (SlotUnknown(w, s) => ~Reveals(Wanted(w, s))) =>
              Tops(w, s, Wanted(w, s))
         /\ ~s.armed /\ SlotUnknown(w, s) /\ Reveals(Wanted(w, s)) =>
              /\ Wanted(w, s) \in BestRows(w, s)
              /\ \A a \in BestRows(w, s) : Revealing(w, s, a)
<1> DEFINE C == ToSet(Candidates(w, s))
           W == Wanted(w, s)
<1>1. IsOpen(w, s) /\ W \in C /\ (Name(W) = "summarize" => LastStep(w, s))
      /\ Name(W) \in {"search", "read", "summarize"}
  BY SoundIsOpen, RightIsOffered, WantedIs DEF Wanted
<1>2. \A b \in C : ToolScores(w, s, b, ActualScore(w, s, b))
  BY RowScoreType
<1>3. s.armed => /\ ~SlotUnknown(w, s) /\ Name(W) # "search"
                 /\ C = {Use("search"), Use("read"), Use("summarize")}
  BY <1>1, ArmedIs, RightIs, WantedIs, PreconditionOffers
<1> HIDE DEF C, W
<1>4. ASSUME s.armed PROVE Tops(w, s, Use("search"))
  <2>1. Name(Use("search")) = "search" /\ Name(Use("read")) = "read"
        /\ Name(Use("summarize")) = "summarize"
    BY DEF Name, Use
  <2>2. Use("search") \in C
    BY <1>3, <1>4
  <2>3. PICK v \in Int : ActualScore(w, s, Use("search")) = v /\ v >= 330
    BY <1>2, <1>4, <2>1, <2>2 DEF ToolScores
  <2>4. ASSUME NEW b \in C, b # Use("search")
        PROVE  ActualScore(w, s, b) < ActualScore(w, s, Use("search"))
    <3>1. Name(b) # "search" /\ ~Revealing(w, s, b)
      BY <1>3, <1>4, <2>1, <2>4 DEF Revealing
    <3>2. PICK x \in Int : ActualScore(w, s, b) = x /\ x =< 0
      BY <1>2, <1>4, <3>1 DEF ToolScores
    <3> QED
      BY <2>3, <3>2
  <2> QED
    BY <2>2, <2>4 DEF Tops, C
<1>5. ASSUME ~s.armed, SlotUnknown(w, s) => ~Reveals(W) PROVE Tops(w, s, W)
  <2>1. ~Revealing(w, s, W)
    BY <1>5 DEF Revealing
  <2>2. SlotUnknown(w, s) => LastStep(w, s)
    BY <1>1, <1>5 DEF Reveals
  <2>3. PICK v \in Int : /\ ActualScore(w, s, W) = v /\ v >= 75
                         /\ SlotUnknown(w, s) => v >= 450
    BY <1>1, <1>2, <1>5, <2>1, <2>2 DEF ToolScores, W
  <2>4. ASSUME NEW b \in C, b # W
        PROVE  ActualScore(w, s, b) < ActualScore(w, s, W)
    <3>1. PICK x \in Int : /\ ActualScore(w, s, b) = x
                           /\ x =< 0 \/ (x = 315 /\ SlotUnknown(w, s))
      <4>1. CASE Revealing(w, s, b)
        BY <1>2, <4>1 DEF ToolScores, Revealing
      <4>2. CASE ~Revealing(w, s, b)
        BY <1>2, <1>5, <2>4, <4>2 DEF ToolScores, W
      <4> QED
        BY <4>1, <4>2
    <3> QED
      BY <2>3, <3>1
  <2> QED
    BY <1>1, <2>4 DEF Tops, C
<1>6. ASSUME ~s.armed, SlotUnknown(w, s), Reveals(W)
      PROVE  W \in BestRows(w, s) /\ \A a \in BestRows(w, s) : Revealing(w, s, a)
  <2>1. Revealing(w, s, W)
    BY <1>6 DEF Revealing
  <2>2. ActualScore(w, s, W) = 315
    BY <1>1, <1>2, <2>1 DEF ToolScores
  <2>3. ASSUME NEW b \in C
        PROVE  \E x \in Int : /\ ActualScore(w, s, b) = x
                              /\ x = 315 \/ (x =< 0 /\ ~Revealing(w, s, b))
    <3>1. CASE Revealing(w, s, b)
      BY <1>2, <3>1 DEF ToolScores
    <3>2. CASE ~Revealing(w, s, b)
      <4>1. b # W
        BY <2>1, <3>2
      <4> QED
        BY <1>2, <1>6, <3>2, <4>1 DEF ToolScores, W
    <3> QED
      BY <3>1, <3>2
  <2>4. W \in BestRows(w, s)
    BY <1>1, <2>2, <2>3 DEF BestRows, C
  <2>5. ASSUME NEW a \in BestRows(w, s) PROVE Revealing(w, s, a)
    <3>1. a \in C /\ 315 =< ActualScore(w, s, a)
      BY <1>1, <2>2, <2>5 DEF BestRows, C
    <3>2. PICK x \in Int : /\ ActualScore(w, s, a) = x
                           /\ x = 315 \/ (x =< 0 /\ ~Revealing(w, s, a))
      BY <2>3, <3>1
    <3>3. x = 315
      BY <3>1, <3>2
    <3>4. ASSUME ~Revealing(w, s, a) PROVE FALSE
      <4>1. a # W
        BY <2>1, <3>4
      <4> QED
        BY <1>2, <1>6, <3>1, <3>2, <3>3, <3>4, <4>1 DEF ToolScores, W
    <3> QED
      BY <3>4
  <2> QED
    BY <2>4, <2>5
<1> QED
  BY <1>3, <1>4, <1>5, <1>6 DEF W

\* What the rows teach is what the expert does, unless a guess pays.
PaysToGuess(w, s) ==
    /\ ~Maze(w) /\ SlotUnknown(w, s) /\ ~Reveals(Wanted(w, s))
    /\ LastStep(w, s) \/ Len(w.goal) = 2

Teaches(w, s) ==
    /\ ExpertAction(w, s) \notin BestRows(w, s) <=> PaysToGuess(w, s)
    /\ \A a, b \in BestRows(w, s) :
         a = b \/ (Revealing(w, s, a) /\ Revealing(w, s, b))

LEMMA ExpertIsTaught ==
  ASSUME NEW w, IsWorld(w), NEW s, StateSound(w, s), ~s.done
  PROVE  Teaches(w, s)
<1>1. IsOpen(w, s)
  BY SoundIsOpen
<1>2. ASSUME NEW a, Tops(w, s, a), a = ExpertAction(w, s) <=> ~PaysToGuess(w, s)
      PROVE  Teaches(w, s)
  <2>1. BestRows(w, s) = {a}
    BY <1>2, OneBest
  <2> QED
    BY <1>2, <2>1 DEF Teaches
<1>3. CASE Lock(w)
  <2>1. ExpertAction(w, s) = IF s.armed \/ SlotUnknown(w, s)
                                THEN Inspect ELSE Wanted(w, s)
    BY <1>3, Shapes DEF ExpertAction, Wanted, Lock, Maze, Tool
  <2>2. /\ PaysToGuess(w, s) <=> SlotUnknown(w, s) /\ (LastStep(w, s) \/ Len(w.goal) = 2)
        /\ Wanted(w, s) # Inspect
    BY <1>1, <1>3, WantedIs, Shapes DEF PaysToGuess, Reveals
  <2>3. CASE s.armed \/ (SlotUnknown(w, s) /\ ~PaysToGuess(w, s))
    <3>1. Tops(w, s, Inspect) /\ ~PaysToGuess(w, s)
      BY <1>3, <2>2, <2>3, LockTops
    <3> QED
      BY <1>2, <2>1, <2>3, <3>1
  <2>4. CASE ~(s.armed \/ (SlotUnknown(w, s) /\ ~PaysToGuess(w, s)))
    <3>1. Tops(w, s, Wanted(w, s))
      BY <1>3, <2>2, <2>4, LockTops
    <3> QED
      BY <1>2, <2>1, <2>2, <2>4, <3>1
  <2> QED
    BY <2>3, <2>4
<1>4. CASE Maze(w)
  <2>1. ExpertAction(w, s) = IF s.armed \/ (w.kind = "maze" /\ SlotUnknown(w, s))
                                THEN Inspect ELSE Wanted(w, s)
    <3>1. s.armed => w.kind = "hazard"
      BY <1>4, ArmedIs
    <3>2. w.kind = "maze" \/ w.kind = "hazard"
      BY <1>4 DEF Maze
    <3> QED
      BY <1>4, <3>1, <3>2, Shapes DEF ExpertAction, Wanted, Maze
  <2>2. ~PaysToGuess(w, s)
    BY <1>4 DEF PaysToGuess
  <2>3. Tops(w, s, ExpertAction(w, s))
    BY <1>4, <2>1, MazeTops
  <2> QED
    BY <1>2, <2>2, <2>3
<1>5. CASE Tool(w)
  <2>1. /\ s.armed => ExpertAction(w, s) = Use("search")
        /\ ~s.armed => ExpertAction(w, s) =
                         IF SlotUnknown(w, s) /\ ~Reveals(Wanted(w, s))
                            THEN Use("search") ELSE Wanted(w, s)
    <3>1. s.armed => w.kind = "precondition"
      BY <1>5, ArmedIs
    <3>2. w.kind = "precondition" => ~SlotUnknown(w, s)
      BY <1>1, RightIs
    <3>3. w.kind = "tool" \/ w.kind = "precondition"
      BY <1>5 DEF Tool
    <3> QED
      BY <1>5, <3>1, <3>2, <3>3, Shapes DEF ExpertAction, Wanted, Lock, Maze
  <2>2. PaysToGuess(w, s) <=> SlotUnknown(w, s) /\ ~Reveals(Wanted(w, s))
    BY <1>1, <1>5, WantedIs, Shapes DEF PaysToGuess, Reveals
  <2>3. Reveals(Use("search"))
    BY DEF Reveals, Name, Use
  <2>4. CASE s.armed
    <3>1. Tops(w, s, Use("search")) /\ ~SlotUnknown(w, s)
      BY <1>5, <2>4, ToolTops
    <3> QED
      BY <1>2, <2>1, <2>2, <2>4, <3>1
  <2>5. CASE ~s.armed /\ (SlotUnknown(w, s) => ~Reveals(Wanted(w, s)))
    <3>1. Tops(w, s, Wanted(w, s))
      BY <1>5, <2>5, ToolTops
    <3> QED
      BY <1>2, <2>1, <2>2, <2>3, <2>5, <3>1
  <2>6. CASE ~s.armed /\ SlotUnknown(w, s) /\ Reveals(Wanted(w, s))
    <3>1. /\ Wanted(w, s) \in BestRows(w, s)
          /\ \A a \in BestRows(w, s) : Revealing(w, s, a)
      BY <1>5, <2>6, ToolTops
    <3> QED
      BY <2>1, <2>2, <2>6, <3>1 DEF Teaches
  <2> QED
    BY <2>4, <2>5, <2>6
<1> QED
  BY <1>3, <1>4, <1>5, Shapes

-----------------------------------------------------------------------------
(* Which groups are taken first.                                           *)

LEMMA GroupIs ==
  ASSUME NEW w, NEW s
  PROVE  /\ Group(w, s).setUpCorrect
              <=> \E a \in Rows(w, s) : PostSetupCorrect(w, s, a)
         /\ Group(w, s).setUp <=> \E a \in Rows(w, s) : PostSetupExecution(w, s, a)
         /\ Group(w, s).setUpGood
              <=> \E a \in Rows(w, s) : /\ PostSetupExecution(w, s, a)
                                        /\ Advances(w, s, a) \/ Succeeds(w, s, a)
BY DEF Group

\* What is wanted is an execution in a world that was set up, and a success in one
\* in which there was nothing to set up.
LEMMA SetUpRow ==
  ASSUME NEW w, IsWorld(w), NEW s, StateSound(w, s), ~s.done, PostSetup(w, s)
  PROVE  /\ Wanted(w, s) \in Rows(w, s) /\ PostSetupExecution(w, s, Wanted(w, s))
         /\ SetupState(w, s) = "safe_no_hazard" => Succeeds(w, s, Wanted(w, s))
<1> DEFINE W == Wanted(w, s)
<1>1. IsOpen(w, s) /\ W \in Rows(w, s)
  BY SoundIsOpen, RightIsOffered DEF Wanted, Rows
<1>2. w.kind \notin {"lock", "maze", "tool"}
  BY DEF PostSetup, SetupState
<1>3. /\ Lock(w) => Name(W) = "press"
      /\ Maze(w) => Name(W) = "move"
      /\ Tool(w) => Name(W) \in {"read", "summarize"}
  BY <1>1, <1>2, WantedIs DEF Tool
<1>4. PostSetupExecution(w, s, W)
  BY <1>3, Shapes DEF PostSetupExecution
<1>5. ASSUME SetupState(w, s) = "safe_no_hazard" PROVE Succeeds(w, s, W)
  <2>1. w.kind = "hazard" /\ ~w.present
    BY <1>2, <1>5 DEF SetupState
  <2>2. Maze(w) /\ ~s.armed
    BY <2>1 DEF Maze, StateSound, InitiallyArmed
  <2>3. Len(w.goal) = 1 /\ s.progress = 0
    <3>1. Len(w.goal) = 1
      BY <2>2 DEF IsWorld
    <3>2. s.progress \in Nat /\ s.progress < 1
      BY <1>1, <3>1 DEF IsOpen, IsState
    <3> QED
      BY <3>1, <3>2
  <2>4. W # Inspect /\ Right(w, s, W)
    BY <1>1, WantedIs DEF Right, Wanted
  <2>5. Effect(w, s, W).progress = 1
    <3>1. MazeMoves(w, s, W)
      BY <1>1, <2>2, MazeFields
    <3> HIDE DEF W
    <3> QED
      BY <2>1, <2>2, <2>3, <2>4, <3>1 DEF MazeMoves
  <2> QED
    BY <2>3, <2>5 DEF Succeeds, Succeeded
<1> QED
  BY <1>1, <1>4, <1>5

\* In a world that was set up some row is what the belief requires.
LEMMA CorrectRow ==
  ASSUME NEW w, IsWorld(w), NEW s, StateSound(w, s), ~s.done
  PROVE  (\E a \in Rows(w, s) : PostSetupCorrect(w, s, a))
           <=> SetupState(w, s) = "post_setup_done"
<1>1. IsOpen(w, s)
  BY SoundIsOpen
<1>2. ASSUME SetupState(w, s) = "post_setup_done"
      PROVE  \E a \in Rows(w, s) : PostSetupCorrect(w, s, a)
  <2>1. PostSetup(w, s) /\ w.kind \in {"trap", "hazard", "precondition"}
    BY <1>2 DEF PostSetup, SetupState, IsWorld, Kind
  <2>2. CASE w.kind # "hazard"
    <3>1. ~Maze(w) /\ ~SlotUnknown(w, s)
      BY <1>1, <2>1, <2>2, RightIs DEF Maze
    <3>2. BeliefOf(w, s).required = Required(w, s)
      BY <1>1, <2>2, <3>1, BeliefRequires
    <3>3. Required(w, s) = Wanted(w, s)
      BY <3>1 DEF Required, Wanted
    <3>4. Wanted(w, s) \in Rows(w, s) /\ PostSetupExecution(w, s, Wanted(w, s))
      BY <2>1, SetUpRow
    <3> QED
      BY <1>2, <3>2, <3>3, <3>4 DEF PostSetupCorrect
  <2>3. CASE w.kind = "hazard"
    <3> DEFINE a == Move(w.doors[1])
    <3>1. Maze(w) /\ ~Lock(w) /\ ~Tool(w)
      BY <2>3, Shapes DEF Maze
    <3>2. 1 \in DOMAIN w.doors
      <4>1. w.doors \in Seq(STRING) /\ Len(w.doors) \in Nat
        BY DEF IsWorld
      <4>2. 1 \in Slots(w) /\ w.goal[1] \in GoalActions(w)
        BY GoalHasSlots
      <4>3. GoalActions(w) = {Move(w.doors[n]) : n \in DOMAIN w.doors}
        BY <3>1 DEF GoalActions, Tool
      <4>4. PICK n \in DOMAIN w.doors : w.goal[1] = Move(w.doors[n])
        BY <4>2, <4>3
      <4>5. DOMAIN w.doors = 1..Len(w.doors)
        BY <4>1
      <4> QED
        BY <4>1, <4>4, <4>5
    <3>3. a \in Rows(w, s) /\ Name(a) = "move"
      BY <3>1, <3>2, MazeOffers DEF Rows, Name, Move
    <3>4. PostSetupExecution(w, s, a)
      BY <2>1, <3>1, <3>3 DEF PostSetupExecution
    <3>5. BeliefOf(w, s).required = a
      <4>1. CurrentSlotKnown(w, s) /\ CurrentSlot(w, s) = 1
        BY <2>3, <3>1 DEF CurrentSlotKnown, CurrentSlot
      <4>2. DOMAIN BeliefSlots(w, s) = DOMAIN w.doors /\ BeliefSlots(w, s)[1].value = a
        BY <3>1, <3>2 DEF BeliefSlots, VisibleValues, Slot
      <4>3. RequiredValue(w, s) = a
        BY <3>2, <4>1, <4>2 DEF RequiredValue
      <4> QED
        BY <4>3 DEF BeliefOf
    <3> QED
      BY <1>2, <3>3, <3>4, <3>5 DEF PostSetupCorrect
  <2> QED
    BY <2>2, <2>3
<1> QED
  BY <1>2 DEF PostSetupCorrect

LEMMA PriorityIs ==
  ASSUME NEW w, NEW s
  PROVE  \E x \in 0..225 :
           Priority(w, s) = (IF Group(w, s).setUpCorrect THEN 140 ELSE 0)
                              + (IF Group(w, s).setUpGood THEN 130 ELSE 0)
                              + (IF Group(w, s).setUp THEN 120 ELSE 0) + x
<1> DEFINE g == Group(w, s)
           hidden == Mode(w, s) # "visible"
<1>1. Priority(w, s) =
        If(g.setUpCorrect, 140) + If(g.setUpGood, 130) + If(g.setUp, 120)
          + If(g.informs, 100) + If(g.revealed, 80)
          + If(hidden, 30) + If(g.success, 10) + If(g.moved, 5)
  BY DEF Priority
<1> HIDE DEF g, hidden
<1>2. /\ If(g.setUpCorrect, 140) = IF g.setUpCorrect THEN 140 ELSE 0
      /\ If(g.setUpGood, 130) = IF g.setUpGood THEN 130 ELSE 0
      /\ If(g.setUp, 120) = IF g.setUp THEN 120 ELSE 0
  BY Zenon DEF If
<1>3. PICK a \in {0, 100} : If(g.informs, 100) = a
  BY DEF If
<1>4. PICK b \in {0, 80} : If(g.revealed, 80) = b
  BY DEF If
<1>5. PICK c \in {0, 30} : If(hidden, 30) = c
  BY DEF If
<1>6. PICK d \in {0, 10} : If(g.success, 10) = d
  BY DEF If
<1>7. PICK e \in {0, 5} : If(g.moved, 5) = e
  BY DEF If
<1>8. PICK p \in {0, 140} : (IF g.setUpCorrect THEN 140 ELSE 0) = p
  OBVIOUS
<1>9. PICK q \in {0, 130} : (IF g.setUpGood THEN 130 ELSE 0) = q
  OBVIOUS
<1>10. PICK r \in {0, 120} : (IF g.setUp THEN 120 ELSE 0) = r
  OBVIOUS
<1>11. /\ Priority(w, s) = p + q + r + (a + b + c + d + e)
       /\ a + b + c + d + e \in 0..225
  BY <1>1, <1>2, <1>3, <1>4, <1>5, <1>6, <1>7, <1>8, <1>9, <1>10
<1>12. WITNESS a + b + c + d + e \in 0..225
<1> QED
  BY <1>8, <1>9, <1>10, <1>11 DEF g

LEMMA SetUpIsTaken ==
  ASSUME NEW w, IsWorld(w), NEW s, StateSound(w, s), ~s.done
  PROVE  /\ PostSetup(w, s) <=> Priority(w, s) > 225
         /\ Group(w, s).setUpCorrect <=> SetupState(w, s) = "post_setup_done"
<1>1. PICK x \in 0..225 :
        Priority(w, s) = (IF Group(w, s).setUpCorrect THEN 140 ELSE 0)
                           + (IF Group(w, s).setUpGood THEN 130 ELSE 0)
                           + (IF Group(w, s).setUp THEN 120 ELSE 0) + x
  BY PriorityIs
<1>2. Group(w, s).setUpCorrect <=> SetupState(w, s) = "post_setup_done"
  BY GroupIs, CorrectRow
<1>3. ASSUME PostSetup(w, s)
      PROVE  /\ Group(w, s).setUp
             /\ Group(w, s).setUpCorrect \/ Group(w, s).setUpGood
  <2>1. Group(w, s).setUp
    BY <1>3, SetUpRow, GroupIs
  <2>2. SetupState(w, s) = "safe_no_hazard" => Group(w, s).setUpGood
    BY <1>3, SetUpRow, GroupIs
  <2> QED
    BY <1>2, <1>3, <2>1, <2>2 DEF PostSetup
<1>4. ASSUME ~PostSetup(w, s)
      PROVE  /\ ~Group(w, s).setUp /\ ~Group(w, s).setUpCorrect
             /\ ~Group(w, s).setUpGood
  <2>1. \A a : ~PostSetupExecution(w, s, a)
    BY <1>4 DEF PostSetupExecution
  <2> QED
    BY <2>1, GroupIs DEF PostSetupCorrect
<1>5. CASE PostSetup(w, s)
  BY <1>1, <1>2, <1>3, <1>5
<1>6. CASE ~PostSetup(w, s)
  BY <1>1, <1>2, <1>4, <1>6
<1> QED
  BY <1>5, <1>6

\* Whatever the worlds: the best row of a snapshot is what the expert does, unless a
\* guess pays, and the groups of worlds that were set up are taken first.
THEOREM RowsTeachTheExpert == Spec => []TrainingPrefersExperts
<1>1. EpisodeInv => TrainingPrefersExperts
  <2> SUFFICES ASSUME EpisodeInv, ~state.done PROVE TrainingPrefersExperts
    BY DEF TrainingPrefersExperts, Playing
  <2>1. IsWorld(world) /\ StateSound(world, state)
    BY PlayingIsOpen
  <2>2. Teaches(world, state)
    BY <2>1, ExpertIsTaught
  <2>3. GuessPays <=> PaysToGuess(world, state)
    BY DEF GuessPays, PaysToGuess, Wanted
  <2>4. /\ PostSetup(world, state) <=> Priority(world, state) > 225
        /\ Group(world, state).setUpCorrect
             <=> SetupState(world, state) = "post_setup_done"
    BY <2>1, SetUpIsTaken
  <2>5. 100 + 80 + 30 + 10 + 5 = 225
    OBVIOUS
  <2> QED
    BY <2>2, <2>3, <2>4, <2>5 DEF TrainingPrefersExperts, Teaches
<1> QED
  BY <1>1, EpisodeInvAlways, PTL

-----------------------------------------------------------------------------
(* What the search of a world finds.                                       *)

Start(w) == ResetWorld(w, [known |-> {}])

\* One layer of the search, from the one before.
Onward(w, S) ==
    UNION {{StepWorld(w, s, a) : a \in ToSet(Candidates(w, s))} :
             s \in {t \in S : ~t.done}}

Layers(w, n, f) ==
    f = [d \in 0..n |-> IF d = 0 THEN {Start(w)} ELSE Onward(w, f[d - 1])]

LEMMA LayersExist ==
  ASSUME NEW w, NEW N \in Nat
  PROVE  \E f : Layers(w, N, f)
<1> DEFINE S == {n \in 0..N : ~ \E f : Layers(w, n, f)}
<1> SUFFICES ASSUME S # {} PROVE FALSE
  OBVIOUS
<1>1. PICK n \in S : \A k \in S : n =< k
  <2>1. S \in SUBSET Nat
    OBVIOUS
  <2> HIDE DEF S
  <2> QED
    BY <2>1, LeastNumber
<1>2. CASE n = 0
  <2> DEFINE f == [d \in 0..0 |-> {Start(w)}]
  <2>1. f = [d \in 0..0 |-> IF d = 0 THEN {Start(w)} ELSE Onward(w, f[d - 1])]
    OBVIOUS
  <2> QED
    BY <1>1, <1>2, <2>1 DEF Layers
<1>3. CASE n # 0
  <2>1. n - 1 \in 0..N /\ n - 1 \notin S /\ n \in 0..N
    BY <1>1, <1>3
  <2>2. PICK f : Layers(w, n - 1, f)
    BY <2>1
  <2>3. f = [d \in 0..(n - 1) |-> IF d = 0 THEN {Start(w)} ELSE Onward(w, f[d - 1])]
    BY <2>2 DEF Layers
  <2> DEFINE g == [d \in 0..n |-> IF d = n THEN Onward(w, f[n - 1]) ELSE f[d]]
             B(d) == IF d = 0 THEN {Start(w)} ELSE Onward(w, g[d - 1])
  <2>4. \A d \in 0..(n - 1) : g[d] = f[d]
    BY <2>1
  <2>5. \A d \in 0..(n - 1) : f[d] = IF d = 0 THEN {Start(w)} ELSE Onward(w, f[d - 1])
    BY <2>3
  <2>6. ASSUME NEW d \in 0..n PROVE g[d] = B(d)
    <3>1. CASE d = n
      <4>1. g[n] = Onward(w, f[n - 1]) /\ g[n - 1] = f[n - 1]
        BY <2>1, <2>4, <1>3
      <4> QED
        BY <1>3, <3>1, <4>1
    <3>2. CASE d = 0
      BY <1>3, <2>1, <2>4, <2>5, <3>2
    <3>3. CASE d \in 1..(n - 1)
      <4>1. d - 1 \in 0..(n - 1) /\ d \in 0..(n - 1) /\ d # 0
        BY <2>1, <3>3
      <4>2. g[d] = f[d] /\ g[d - 1] = f[d - 1]
        BY <2>4, <4>1
      <4>3. f[d] = Onward(w, f[d - 1])
        BY <2>5, <4>1
      <4> QED
        BY <4>1, <4>2, <4>3
    <3> QED
      BY <2>1, <3>1, <3>2, <3>3
  <2>7. g = [d \in 0..n |-> g[d]]
    OBVIOUS
  <2> HIDE DEF g
  <2>8. g = [d \in 0..n |-> B(d)]
    BY <2>6, <2>7
  <2> QED
    BY <1>1, <2>8 DEF Layers
<1> QED
  BY <1>2, <1>3

\* The layers that the search goes through, and what it keeps of them.
SearchedBy(w, f) ==
    /\ f[0] = {Start(w)}
    /\ \A d \in 1..w.max : f[d] = Onward(w, f[d - 1])
    /\ Search(w) = {s \in UNION {f[d] : d \in 0..(w.max - 1)} : ~s.done}

LEMMA SearchIs ==
  ASSUME NEW w, IsWorld(w)
  PROVE  \E f : SearchedBy(w, f)
<1> DEFINE f == CHOOSE f : Layers(w, w.max, f)
<1>1. w.max \in Nat
  BY DEF IsWorld
<1>2. Layers(w, w.max, f)
  BY <1>1, LayersExist
<1>3. Search(w) = {s \in UNION {f[d] : d \in 0..(w.max - 1)} : ~s.done}
  BY DEF Search, Layers, Onward, Start
<1> HIDE DEF f
<1>4. PICK g : g = f
  OBVIOUS
<1>5. g = [d \in 0..w.max |-> IF d = 0 THEN {Start(w)} ELSE Onward(w, g[d - 1])]
  BY <1>2, <1>4 DEF Layers
<1>6. \A d \in 0..w.max : g[d] = IF d = 0 THEN {Start(w)} ELSE Onward(w, g[d - 1])
  BY <1>5
<1>7. g[0] = {Start(w)} /\ \A d \in 1..w.max : g[d] = Onward(w, g[d - 1])
  BY <1>1, <1>6
<1> QED
  BY <1>3, <1>4, <1>7 DEF SearchedBy

\* What holds at the start and after every candidate holds in every layer.
LEMMA LayersWithin ==
  ASSUME NEW w, IsWorld(w), NEW f, SearchedBy(w, f), NEW I, Start(w) \in I,
         \A s \in I : ~s.done =>
           \A a \in ToSet(Candidates(w, s)) : StepWorld(w, s, a) \in I
  PROVE  \A d \in 0..w.max : f[d] \subseteq I
<1> DEFINE S == {d \in 0..w.max : ~(f[d] \subseteq I)}
<1> SUFFICES ASSUME S # {} PROVE FALSE
  OBVIOUS
<1>1. PICK d \in S : \A k \in S : d =< k
  <2>1. S \in SUBSET Nat
    OBVIOUS
  <2> HIDE DEF S
  <2> QED
    BY <2>1, LeastNumber
<1>2. w.max \in Nat
  BY DEF IsWorld
<1>3. d # 0
  BY <1>1 DEF SearchedBy
<1>4. d - 1 \in 0..w.max /\ d \in 1..w.max /\ d - 1 \notin S
  BY <1>1, <1>2, <1>3
<1>5. f[d - 1] \subseteq I /\ f[d] = Onward(w, f[d - 1])
  BY <1>4 DEF SearchedBy
<1>6. f[d] \subseteq I
  BY <1>5 DEF Onward
<1> QED
  BY <1>1, <1>6

LEMMA FoundWithin ==
  ASSUME NEW w, IsWorld(w), NEW I, Start(w) \in I,
         \A s \in I : ~s.done =>
           \A a \in ToSet(Candidates(w, s)) : StepWorld(w, s, a) \in I
  PROVE  \A s \in Search(w) : s \in I /\ ~s.done
<1>1. PICK f : SearchedBy(w, f)
  BY SearchIs
<1>2. \A d \in 0..w.max : f[d] \subseteq I
  BY <1>1, LayersWithin
<1>3. \A d \in 0..(w.max - 1) : d \in 0..w.max
  BY DEF IsWorld
<1> QED
  BY <1>1, <1>2, <1>3 DEF SearchedBy

\* A layer holds what is reached in as many steps.
LEMMA LayerOfSteps ==
  ASSUME NEW w, IsWorld(w), NEW f, SearchedBy(w, f), NEW d \in 0..w.max, NEW s \in f[d]
  PROVE  StateSound(w, s) /\ s.steps = d
<1> DEFINE S == {k \in 0..w.max : \E t \in f[k] : ~(StateSound(w, t) /\ t.steps = k)}
<1> SUFFICES ASSUME S # {} PROVE FALSE
  OBVIOUS
<1>1. PICK n \in S : \A k \in S : n =< k
  <2>1. S \in SUBSET Nat
    OBVIOUS
  <2> HIDE DEF S
  <2> QED
    BY <2>1, LeastNumber
<1>2. w.max \in Nat
  BY DEF IsWorld
<1>3. n # 0
  <2>1. StateSound(w, Start(w)) /\ Start(w).steps = 0
    BY ResetSound DEF Start, ResetWorld
  <2> QED
    BY <1>1, <2>1 DEF SearchedBy
<1>4. n - 1 \in 0..w.max /\ n \in 1..w.max /\ n - 1 \notin S
  BY <1>1, <1>2, <1>3
<1>5. \A t \in f[n - 1] : StateSound(w, t) /\ t.steps = n - 1
  BY <1>4
<1>6. f[n] = Onward(w, f[n - 1])
  BY <1>4 DEF SearchedBy
<1>7. ASSUME NEW t \in f[n] PROVE StateSound(w, t) /\ t.steps = n
  <2>1. PICK u \in f[n - 1] : ~u.done /\
               \E a \in ToSet(Candidates(w, u)) : t = StepWorld(w, u, a)
    BY <1>6 DEF Onward
  <2>2. PICK a \in ToSet(Candidates(w, u)) : t = StepWorld(w, u, a)
    BY <2>1
  <2>3. StateSound(w, t) /\ t.steps = u.steps + 1
    BY <1>5, <2>1, <2>2, CandidateNames, StepSound
  <2> QED
    BY <1>1, <1>5, <2>3
<1> QED
  BY <1>1, <1>7

\* The search finds the start, and goes on from what it has found.
LEMMA SearchStarts ==
  ASSUME NEW w, IsWorld(w)
  PROVE  Start(w) \in Search(w)
<1>1. PICK f : SearchedBy(w, f)
  BY SearchIs
<1>2. 0 \in 0..(w.max - 1)
  BY DEF IsWorld
<1>3. ~Start(w).done
  BY ResetSound DEF Start
<1> QED
  BY <1>1, <1>2, <1>3 DEF SearchedBy

LEMMA SearchGoesOn ==
  ASSUME NEW w, IsWorld(w), NEW s \in Search(w), NEW a \in ToSet(Candidates(w, s)),
         ~StepWorld(w, s, a).done
  PROVE  StepWorld(w, s, a) \in Search(w)
<1>1. PICK f : SearchedBy(w, f)
  BY SearchIs
<1>2. PICK d \in 0..(w.max - 1) : s \in f[d] /\ ~s.done
  BY <1>1 DEF SearchedBy
<1>3. w.max \in Nat /\ d \in 0..w.max /\ d + 1 \in 1..w.max /\ d + 1 \in 0..w.max
  BY <1>2 DEF IsWorld
<1>4. f[d + 1] = Onward(w, f[(d + 1) - 1]) /\ (d + 1) - 1 = d
  BY <1>1, <1>3 DEF SearchedBy
<1>5. StepWorld(w, s, a) \in f[d + 1]
  BY <1>2, <1>4 DEF Onward
<1>6. StateSound(w, StepWorld(w, s, a)) /\ StepWorld(w, s, a).steps = d + 1
  BY <1>1, <1>3, <1>5, LayerOfSteps
<1>7. d + 1 \in 0..(w.max - 1)
  BY <1>3, <1>6, SoundIsOpen
<1> QED
  BY <1>1, <1>5, <1>7 DEF SearchedBy

LEMMA FoundIsSound ==
  ASSUME NEW w, IsWorld(w), NEW s \in Search(w)
  PROVE  StateSound(w, s) /\ ~s.done
<1>1. PICK f : SearchedBy(w, f)
  BY SearchIs
<1>2. PICK d \in 0..(w.max - 1) : s \in f[d] /\ ~s.done
  BY <1>1 DEF SearchedBy
<1>3. d \in 0..w.max
  BY <1>2 DEF IsWorld
<1> QED
  BY <1>1, <1>2, <1>3, LayerOfSteps

-----------------------------------------------------------------------------
(* Every state in which an episode has to choose is found.                 *)

FoundInv == EpisodeInv /\ (~state.done => state \in Search(world))

\* What an agent does is a candidate, unless the world refuses it.
LEMMA AnswersAreCandidates ==
  ASSUME EpisodeInv, ~state.done, NEW a \in Answers, Allowed(world, a)
  PROVE  a \in ToSet(Candidates(world, state))
<1>1. IsWorld(world) /\ StateSound(world, state)
  BY PlayingIsOpen
<1>2. CASE agent.role # "expert"
  BY <1>2, GateAnswers
<1>3. CASE agent.role = "expert"
  <2>1. a = ExpertAction(world, state)
    BY <1>3 DEF Answers
  <2>2. CASE a = Use("search")
    <3>1. Name(a) = "search" /\ "search" \in ActionNames(world)
      BY <2>2 DEF Allowed, Name, Use
    <3>2. Tool(world)
      <4>1. Lock(world) => ActionNames(world) = {"inspect", "press", "reset"}
        BY DEF ActionNames, Lock, Maze
      <4>2. Maze(world) => ActionNames(world) = {"inspect", "move"}
        BY DEF ActionNames, Lock, Maze
      <4> QED
        BY <1>1, <3>1, <4>1, <4>2, Shapes
    <3>3. CASE world.kind = "tool"
      <4>1. PICK n \in DOMAIN world.goal : Name(world.goal[n]) = "search"
        BY <3>1, <3>3 DEF ActionNames, Lock, Maze
      <4>2. world.goal[n] \in {Use("search"), Use("read"), Use("summarize")}
        BY <1>1, <3>3, GoalHasSlots DEF GoalActions, Slots, Lock, Maze
      <4>3. world.goal[n] = a
        BY <2>2, <4>1, <4>2 DEF Name, Use
      <4>4. PICK m \in DOMAIN Candidates(world, state) :
              Candidates(world, state)[m] = world.goal[n]
        BY <1>1, <3>3, ToolOffers DEF Slots
      <4> QED
        BY <4>3, <4>4 DEF ToSet
    <3>4. CASE world.kind = "precondition"
      BY <2>2, <3>4, PreconditionOffers
    <3> QED
      BY <3>2, <3>3, <3>4 DEF Tool
  <2> QED
    BY <1>1, <2>1, <2>2, ExpertCalls
<1> QED
  BY <1>2, <1>3

LEMMA FoundInvInit == Init => FoundInv
<1> SUFFICES ASSUME Init PROVE FoundInv
  OBVIOUS
<1>1. EpisodeInv /\ IsWorld(world)
  BY EpisodeInvInit, EpisodeAssumption DEF EpisodeInv
<1>2. state = Start(world)
  BY DEF Init, Start
<1> QED
  BY <1>1, <1>2, SearchStarts DEF FoundInv

LEMMA FoundInvStep == FoundInv /\ [Next]_vars => FoundInv'
<1> SUFFICES ASSUME FoundInv, [Next]_vars PROVE FoundInv'
  OBVIOUS
<1>1. EpisodeInv /\ EpisodeInv' /\ IsWorld(world)
  BY EpisodeInvStep, EpisodeAssumption DEF FoundInv, EpisodeInv
<1>2. CASE UNCHANGED vars
  BY <1>1, <1>2 DEF FoundInv, vars
<1>3. CASE Next
  <2>1. world' = world
    BY <1>1, <1>3, Steps
  <2>2. CASE state' = state
    BY <1>1, <2>1, <2>2 DEF FoundInv
  <2>3. CASE ~state.done /\ \E a \in Answers : /\ Allowed(world, a)
                                             /\ state' = StepWorld(world, state, a)
    <3>1. PICK a \in Answers : Allowed(world, a) /\ state' = StepWorld(world, state, a)
      BY <2>3
    <3>2. a \in ToSet(Candidates(world, state))
      BY <1>1, <2>3, <3>1, AnswersAreCandidates
    <3>3. ~state'.done => state' \in Search(world)
      BY <1>1, <2>3, <3>1, <3>2, SearchGoesOn DEF FoundInv
    <3> QED
      BY <1>1, <2>1, <3>3 DEF FoundInv
  <2>4. CASE state' = ResetWorld(world, state)
    <3>1. state' = Start(world)
      BY <2>4 DEF Start, ResetWorld
    <3> QED
      BY <1>1, <2>1, <3>1, SearchStarts DEF FoundInv
  <2> QED
    BY <1>1, <1>3, <2>2, <2>3, <2>4, Steps
<1> QED
  BY <1>2, <1>3

-----------------------------------------------------------------------------
(* What is found is possible.                                              *)

\* A lock offers inspect when the next slot is hidden, and a trap always.
LEMMA InspectIsOffered ==
  ASSUME NEW w, w.kind = "lock", NEW s, Inspect \in ToSet(Candidates(w, s))
  PROVE  SlotUnknown(w, s)
<1> SUFFICES ASSUME ~SlotUnknown(w, s) PROVE FALSE
  OBVIOUS
<1> DEFINE head == IF w.kind = "trap" \/ s.progress + 1 \notin s.known
                      THEN <<Inspect>> ELSE <<>>
           digits == [d \in 1..4 |-> Press(d)]
<1>0. head = <<>>
  BY DEF SlotUnknown
<1>1. Candidates(w, s) = head \o digits \o <<Reset>>
  <2>1. Lock(w) /\ ~Maze(w)
    BY DEF Lock, Maze
  <2> QED
    BY <2>1 DEF Candidates
<1> HIDE DEF head
<1>2. digits \in Seq({Reset} \cup {Press(d) : d \in 1..4})
  OBVIOUS
<1> HIDE DEF digits
<1>3. head \o digits \o <<Reset>> \in Seq({Reset} \cup {Press(d) : d \in 1..4})
  BY <1>0, <1>2
<1>4. Inspect \in {Reset} \cup {Press(d) : d \in 1..4}
  BY <1>1, <1>3 DEF ToSet
<1> QED
  BY <1>4 DEF Inspect, Reset, Press

\* What the last observation of a state may be.
Observes(w, s, o) ==
    \/ o = s.seen
    \/ \E a \in ToSet(Candidates(w, s)) : SlotUnknown(w, s) /\ o = <<Name(a), s.progress + 1>>

\* An action moves on by a slot at most, not while the world is armed, and of a tool
\* chain not past a hidden slot, unless that was the last.
LEMMA EffectIsPossible ==
  ASSUME NEW w, IsWorld(w), NEW s, StateSound(w, s), ~s.done,
         NEW a \in ToSet(Candidates(w, s))
  PROVE  /\ Effect(w, s, a).progress =< s.progress + 1
         /\ s.armed => Effect(w, s, a).progress = 0
         /\ Observes(w, s, Effect(w, s, a).seen)
         /\ Tool(w) /\ Effect(w, s, a).progress > s.progress =>
              s.progress + 1 \in s.known \/ s.progress + 1 = Len(w.goal)
<1> DEFINE e == Effect(w, s, a)
<1>1. /\ IsOpen(w, s) /\ s.progress \in Nat /\ s.progress + 1 \in Slots(w)
      /\ s.armed => s.progress = 0 
      /\ s.progress < Len(w.goal) /\ Len(w.goal) \in Nat /\ Slots(w) = 1..Len(w.goal)
  BY SoundIsOpen, RightIs, GoalHasSlots DEF StateSound, IsOpen, IsState
<1>2. CASE Lock(w)
  <2> DEFINE p == IF a = Inspect THEN s.progress
                  ELSE IF a # Reset /\ Right(w, s, a) /\ ~s.armed
                          THEN s.progress + 1 ELSE 0
             k == IF a = Inspect THEN s.known \cup {s.progress + 1} ELSE s.known
             o == IF a = Inspect /\ w.kind = "lock"
                     THEN <<Name(a), s.progress + 1>> ELSE s.seen
             b == IF a = Inspect THEN FALSE
                  ELSE IF a = Reset THEN w.kind = "trap" ELSE s.armed
  <2>1. e = Became(s, p, k, o, b)
    BY <1>1, <1>2, LockEffectIs
  <2>2. Observes(w, s, o)
    <3>1. a = Inspect /\ w.kind = "lock" => SlotUnknown(w, s)
      BY InspectIsOffered
    <3> QED
      BY <3>1 DEF Observes
  <2>3. p =< s.progress + 1 /\ (s.armed => p = 0)
    BY <1>1
  <2> HIDE DEF p, k, o, b
  <2>4. e.progress = p /\ e.seen = o
    BY <2>1 DEF Became
  <2> QED
    BY <1>2, <2>2, <2>3, <2>4, Shapes
<1>3. CASE Maze(w)
  <2> DEFINE p == IF a # Inspect /\ Right(w, s, a) /\ ~s.armed
                       /\ (w.kind = "hazard" \/ 1 \in s.known)
                     THEN s.progress + 1 ELSE s.progress
             k == IF a = Inspect THEN s.known \cup {s.progress + 1} ELSE s.known
             b == IF a = Inspect THEN FALSE ELSE s.armed
  <2>1. e = Became(s, p, k, s.seen, b)
    BY <1>1, <1>3, MazeEffectIs
  <2>2. Observes(w, s, s.seen)
    BY DEF Observes
  <2>3. p =< s.progress + 1 /\ (s.armed => p = 0)
    BY <1>1
  <2> HIDE DEF p, k, b
  <2>4. e.progress = p /\ e.seen = s.seen
    BY <2>1 DEF Became
  <2> QED
    BY <1>3, <2>2, <2>3, <2>4, Shapes
<1>4. CASE Tool(w)
  <2> DEFINE p == IF Revealing(w, s, a) \/ SetsUp(w, a) THEN s.progress
                  ELSE IF Right(w, s, a) /\ ~s.armed THEN s.progress + 1
                  ELSE IF s.progress > 0 THEN s.progress - 1 ELSE 0
             k == IF Revealing(w, s, a) THEN s.known \cup {s.progress + 1} ELSE s.known
             o == IF Revealing(w, s, a) /\ w.kind = "tool"
                     THEN <<Name(a), s.progress + 1>> ELSE s.seen
             b == IF ~Revealing(w, s, a) /\ SetsUp(w, a) THEN FALSE ELSE s.armed
  <2>1. e = Became(s, p, k, o, b)
    BY <1>1, <1>4, ToolEffectIs
  <2>2. Observes(w, s, o)
    BY DEF Observes, Revealing
  <2>3. p =< s.progress + 1 /\ (s.armed => p = 0)
    BY <1>1
  <2>4. ASSUME p > s.progress
        PROVE  s.progress + 1 \in s.known \/ s.progress + 1 = Len(w.goal)
    <3>1. Right(w, s, a) /\ ~Revealing(w, s, a)
      BY <1>1, <2>4
    <3>2. CASE ~SlotUnknown(w, s)
      BY <3>2 DEF SlotUnknown
    <3>3. CASE SlotUnknown(w, s)
      <4>1. ~Reveals(a)
        BY <3>1, <3>3 DEF Revealing
      <4>2. a = w.goal[s.progress + 1] /\ a \in GoalActions(w)
        BY <1>1, <3>1, RightIs DEF Right
      <4>3. a \in {Use("search"), Use("read"), Use("summarize")}
        BY <1>4, <4>2 DEF GoalActions, Lock, Maze, Tool
      <4>4. a = Use("summarize")
        BY <4>1, <4>3 DEF Reveals, Name, Use
      <4>5. s.progress + 1 \notin 1..(Len(w.goal) - 1)
        BY <4>2, <4>4 DEF IsWorld
      <4> QED
        BY <1>1, <4>5
    <3> QED
      BY <3>2, <3>3
  <2> HIDE DEF p, k, o, b
  <2>5. e.progress = p /\ e.seen = o
    BY <2>1 DEF Became
  <2> QED
    BY <2>2, <2>3, <2>4, <2>5
<1> QED
  BY <1>2, <1>3, <1>4, Shapes

\* What is not impossible, and what keeps it so.
ComesUp(w, s) ==
    /\ StateSound(w, s)
    /\ Tool(w) /\ ~s.done => 1..s.progress \subseteq s.known
    /\ w.kind \in {"trap", "precondition"} /\ ~s.armed => s.progress < s.steps
    /\ s.seen # <<>> => /\ s.seen[2] \notin InitiallyKnown(w)
                        /\ s.seen[1] \in ActionNames(w)

LEMMA StartComesUp ==
  ASSUME NEW w, IsWorld(w)
  PROVE  ComesUp(w, Start(w))
<1>1. StateSound(w, Start(w))
  BY ResetSound DEF Start
<1>2. /\ Start(w).progress = 0 /\ Start(w).seen = <<>>
      /\ Start(w).armed = InitiallyArmed(w)
  BY DEF Start, ResetWorld
<1>3. w.kind \in {"trap", "precondition"} => InitiallyArmed(w)
  BY DEF InitiallyArmed
<1>4. 1..0 = {}
  OBVIOUS
<1> QED
  BY <1>1, <1>2, <1>3, <1>4 DEF ComesUp

LEMMA StepComesUp ==
  ASSUME NEW w, IsWorld(w), NEW s, ComesUp(w, s), ~s.done,
         NEW a \in ToSet(Candidates(w, s))
  PROVE  ComesUp(w, StepWorld(w, s, a))
<1> DEFINE t == StepWorld(w, s, a)
<1>1. StateSound(w, s)
  BY DEF ComesUp
<1>2. StateSound(w, t) /\ t.steps = s.steps + 1 /\ s.known \subseteq t.known
  BY <1>1, CandidateNames, StepSound
<1>3. /\ t.progress =< s.progress + 1
      /\ s.armed => t.progress = 0
      /\ Observes(w, s, t.seen)
      /\ Tool(w) /\ t.progress > s.progress =>
           s.progress + 1 \in s.known \/ s.progress + 1 = Len(w.goal)
  <2>1. t.progress = Effect(w, s, a).progress /\ t.seen = Effect(w, s, a).seen
    BY DEF StepWorld
  <2> HIDE DEF t
  <2> QED
    BY <1>1, <2>1, EffectIsPossible
<1> HIDE DEF t
<1>4. /\ s.progress \in Nat /\ t.progress \in Nat /\ s.steps \in Nat
      /\ s.progress < Len(w.goal) /\ Len(w.goal) \in Nat
      /\ t.done <=> Succeeded(w, t) \/ t.steps >= w.max
  BY <1>1, <1>2, SoundIsOpen, GoalHasSlots DEF StateSound, IsState, IsOpen
<1>5. ASSUME Tool(w), ~t.done PROVE 1..t.progress \subseteq t.known
  <2>1. 1..s.progress \subseteq s.known
    BY <1>5 DEF ComesUp
  <2>2. t.progress < Len(w.goal)
    BY <1>4, <1>5 DEF Succeeded
  <2>3. t.progress > s.progress => s.progress + 1 \in s.known
    BY <1>3, <1>4, <1>5, <2>2
  <2>4. \A n \in 1..t.progress :
          n \in 1..s.progress \/ (n = s.progress + 1 /\ t.progress > s.progress)
    BY <1>3, <1>4
  <2> QED
    BY <1>2, <2>1, <2>3, <2>4
<1>6. ASSUME w.kind \in {"trap", "precondition"}, ~t.armed PROVE t.progress < t.steps
  BY <1>2, <1>3, <1>4, <1>6 DEF ComesUp
<1>7. ASSUME t.seen # <<>>
      PROVE  t.seen[2] \notin InitiallyKnown(w) /\ t.seen[1] \in ActionNames(w)
  <2>1. CASE t.seen = s.seen
    BY <1>7, <2>1 DEF ComesUp
  <2>2. CASE t.seen # s.seen
    <3>1. PICK c \in ToSet(Candidates(w, s)) :
            SlotUnknown(w, s) /\ t.seen = <<Name(c), s.progress + 1>>
      BY <1>3, <2>2 DEF Observes
    <3>2. t.seen[1] = Name(c) /\ t.seen[2] = s.progress + 1
      BY <3>1
    <3>3. s.progress + 1 \notin InitiallyKnown(w)
      BY <1>1, <3>1 DEF StateSound, SlotUnknown
    <3>4. Name(c) \in ActionNames(w)
      BY CandidateNames DEF Allowed
    <3> QED
      BY <3>2, <3>3, <3>4
  <2> QED
    BY <2>1, <2>2
<1>8. ComesUp(w, t)
  BY <1>2, <1>5, <1>6, <1>7 DEF ComesUp
<1> QED
  BY <1>8 DEF t

LEMMA FoundIsPossible ==
  ASSUME NEW w, IsWorld(w), NEW s \in Search(w)
  PROVE  ~Impossible(w, s)
<1> DEFINE R == [progress : 0..Len(w.goal), steps : 0..w.max, known : SUBSET Slots(w),
                 seen : {<<>>} \cup (ActionName \X Slots(w)), armed : BOOLEAN,
                 done : BOOLEAN]
           I == {t \in R : ComesUp(w, t)}
<1>1. \A t : ComesUp(w, t) => t \in R
  BY DEF ComesUp, StateSound, IsState
<1> HIDE DEF R
<1>2. Start(w) \in I
  BY <1>1, StartComesUp
<1>3. \A t \in I : ~t.done =>
        \A a \in ToSet(Candidates(w, t)) : StepWorld(w, t, a) \in I
  BY <1>1, StepComesUp
<1> HIDE DEF I
<1>4. s \in I /\ ~s.done
  BY <1>2, <1>3, FoundWithin
<1>5. ComesUp(w, s) /\ ~s.done
  BY <1>4 DEF I
<1>6. ~PastAHiddenSlot(w, s)
  BY <1>5 DEF PastAHiddenSlot, ComesUp, Tool
<1>7. /\ s.progress \in Nat /\ s.steps \in Nat
      /\ s.armed => s.progress = 0
      /\ InitiallyKnown(w) \subseteq s.known
  BY <1>5 DEF ComesUp, StateSound, IsState, IsWorld
<1>8. ~NeverSetUp(w, s)
  BY <1>5, <1>7 DEF NeverSetUp, ComesUp
<1>9. ~NeverObserved(w, s)
  BY <1>5 DEF NeverObserved, ComesUp
<1>10. ~HintForgotten(w, s)
  BY <1>7 DEF HintForgotten, HintSeen, InitiallyKnown
<1> QED
  BY <1>6, <1>8, <1>9, <1>10 DEF Impossible

-----------------------------------------------------------------------------
(* What is written down and possible is found.                             *)

LEMMA StartIs ==
  ASSUME NEW w
  PROVE  Start(w) = At(0, 0, InitiallyKnown(w), <<>>, InitiallyArmed(w))
BY DEF Start, ResetWorld, At

LEMMA AtFields ==
  ASSUME NEW p, NEW n, NEW k, NEW o, NEW b
  PROVE  /\ At(p, n, k, o, b).progress = p /\ At(p, n, k, o, b).steps = n
         /\ At(p, n, k, o, b).known = k /\ At(p, n, k, o, b).seen = o
         /\ At(p, n, k, o, b).armed = b
BY DEF At

\* A state that is found is open, and of its known slots and its arming holds what
\* holds of sound states.
LEMMA FoundIsOpen ==
  ASSUME NEW w, IsWorld(w), NEW p, NEW n, NEW k, NEW o, NEW b,
         At(p, n, k, o, b) \in Search(w)
  PROVE  /\ StateSound(w, At(p, n, k, o, b)) /\ IsOpen(w, At(p, n, k, o, b))
         /\ ~At(p, n, k, o, b).done
         /\ p \in Nat /\ p < Len(w.goal) /\ n \in Nat /\ n < w.max /\ p + 1 \in Slots(w)
         /\ k \subseteq Slots(w) /\ InitiallyKnown(w) \subseteq k
         /\ w.kind \in {"trap", "precondition"} => k = Slots(w)
         /\ b \in BOOLEAN /\ (b => p = 0 /\ InitiallyArmed(w))
<1> DEFINE s == At(p, n, k, o, b)
<1>1. /\ s.progress = p /\ s.steps = n /\ s.known = k /\ s.seen = o /\ s.armed = b
  BY AtFields
<1> HIDE DEF s
<1>2. StateSound(w, s) /\ ~s.done
  BY FoundIsSound DEF s
<1>3. IsOpen(w, s) /\ s.steps < w.max /\ s.progress + 1 \in Slots(w)
  BY <1>2, SoundIsOpen, RightIs
<1>4. /\ p \in Nat /\ p < Len(w.goal) /\ n \in Nat /\ k \subseteq Slots(w)
      /\ b \in BOOLEAN
      /\ w.kind \in {"trap", "precondition"} => k = Slots(w)
  BY <1>1, <1>3, GoalHasSlots DEF IsOpen, IsState, IsWorld
<1>5. InitiallyKnown(w) \subseteq k /\ (b => p = 0 /\ InitiallyArmed(w))
  BY <1>1, <1>2 DEF StateSound
<1> QED
  BY <1>1, <1>2, <1>3, <1>4, <1>5 DEF s

\* An action on from a state that is found.
LEMMA FoundNext ==
  ASSUME NEW w, IsWorld(w), NEW p, NEW n, NEW k, NEW o, NEW b,
         At(p, n, k, o, b) \in Search(w),
         NEW a \in ToSet(Candidates(w, At(p, n, k, o, b))),
         NEW p1 \in Nat, NEW k1, NEW o1, NEW b1,
         Effect(w, At(p, n, k, o, b), a) = Became(At(p, n, k, o, b), p1, k1, o1, b1),
         p1 < Len(w.goal), n + 1 < w.max
  PROVE  At(p1, n + 1, k1, o1, b1) \in Search(w)
<1> DEFINE s == At(p, n, k, o, b)
           e == Effect(w, s, a)
           d == Succeeded(w, e) \/ s.steps + 1 >= w.max
<1>1. s.steps = n
  BY AtFields
<1>2. e.progress = p1 /\ e.known = k1 /\ e.seen = o1 /\ e.armed = b1
  BY DEF Became
<1>3. StepWorld(w, s, a) = [progress |-> e.progress, steps |-> s.steps + 1,
                            known |-> e.known, seen |-> e.seen, armed |-> e.armed,
                            done |-> d]
  BY Zenon DEF StepWorld
<1>4. d = FALSE
  <2>1. Len(w.goal) \in Nat /\ w.max \in Nat /\ n \in Nat
    BY GoalHasSlots, FoundIsOpen DEF IsWorld
  <2> HIDE DEF e, s
  <2> QED
    BY <1>1, <1>2, <2>1 DEF Succeeded
<1> HIDE DEF d, e, s
<1>5. StepWorld(w, s, a) = [progress |-> p1, steps |-> n + 1, known |-> k1, seen |-> o1,
                            armed |-> b1, done |-> FALSE]
  BY <1>1, <1>2, <1>3, <1>4
<1>6. StepWorld(w, s, a) = At(p1, n + 1, k1, o1, b1)
  BY <1>5 DEF At
<1>7. ~At(p1, n + 1, k1, o1, b1).done
  BY DEF At
<1> QED
  BY <1>6, <1>7, SearchGoesOn DEF s

\* The right action of a slot that is known, or of a lock.
LEMMA FoundRight ==
  ASSUME NEW w, IsWorld(w), ~Maze(w), NEW p, NEW n, NEW k, NEW o, NEW b, b = FALSE,
         At(p, n, k, o, b) \in Search(w), Tool(w) => p + 1 \in k,
         p + 1 < Len(w.goal), n + 1 < w.max
  PROVE  At(p + 1, n + 1, k, o, b) \in Search(w)
<1> DEFINE s == At(p, n, k, o, b)
           a == Wanted(w, s)
<1>1. s.progress = p /\ s.known = k /\ s.seen = o /\ s.armed = b
  BY AtFields
<1>2. IsOpen(w, s) /\ p \in Nat
  BY FoundIsOpen
<1> HIDE DEF s
<1>3. a \in ToSet(Candidates(w, s)) /\ Right(w, s, a)
  BY <1>2, RightIsOffered DEF Wanted, Right
<1>4. /\ a # Inspect /\ a # Reset
      /\ ~SetsUp(w, a)
  BY <1>2, WantedIs DEF SetsUp
<1> HIDE DEF a
<1>5. Effect(w, s, a) = Became(s, p + 1, k, o, b)
  <2>1. CASE Lock(w)
    <3> DEFINE p1 == IF a = Inspect THEN s.progress
                     ELSE IF a # Reset /\ Right(w, s, a) /\ ~s.armed
                             THEN s.progress + 1 ELSE 0
               k1 == IF a = Inspect THEN s.known \cup {s.progress + 1} ELSE s.known
               o1 == IF a = Inspect /\ w.kind = "lock"
                        THEN <<Name(a), s.progress + 1>> ELSE s.seen
               b1 == IF a = Inspect THEN FALSE
                     ELSE IF a = Reset THEN w.kind = "trap" ELSE s.armed
    <3>1. Effect(w, s, a) = Became(s, p1, k1, o1, b1)
      BY <1>2, <2>1, LockEffectIs
    <3>2. p1 = p + 1 /\ k1 = k /\ o1 = o /\ b1 = b
      BY <1>1, <1>3, <1>4
    <3> HIDE DEF p1, k1, o1, b1
    <3> QED
      BY <3>1, <3>2
  <2>2. CASE Tool(w)
    <3> DEFINE p1 == IF Revealing(w, s, a) \/ SetsUp(w, a) THEN s.progress
                     ELSE IF Right(w, s, a) /\ ~s.armed THEN s.progress + 1
                     ELSE IF s.progress > 0 THEN s.progress - 1 ELSE 0
               k1 == IF Revealing(w, s, a) THEN s.known \cup {s.progress + 1} ELSE s.known
               o1 == IF Revealing(w, s, a) /\ w.kind = "tool"
                        THEN <<Name(a), s.progress + 1>> ELSE s.seen
               b1 == IF ~Revealing(w, s, a) /\ SetsUp(w, a) THEN FALSE ELSE s.armed
    <3>1. Effect(w, s, a) = Became(s, p1, k1, o1, b1)
      BY <1>2, <2>2, ToolEffectIs
    <3>2. ~Revealing(w, s, a)
      BY <1>1, <2>2 DEF Revealing, SlotUnknown
    <3>3. p1 = p + 1 /\ k1 = k /\ o1 = o /\ b1 = b
      BY <1>1, <1>3, <1>4, <3>2
    <3> HIDE DEF p1, k1, o1, b1
    <3> QED
      BY <3>1, <3>3
  <2> QED
    BY <2>1, <2>2, Shapes
<1>6. p + 1 \in Nat
  BY <1>2
<1> QED
  BY <1>3, <1>5, <1>6, FoundNext DEF s

LEMMA FoundRights ==
  ASSUME NEW w, IsWorld(w), ~Maze(w), NEW n, NEW k, NEW o, NEW b, b = FALSE,
         At(0, n, k, o, b) \in Search(w), NEW p \in Nat, Tool(w) => 1..p \subseteq k,
         p < Len(w.goal), n + p < w.max
  PROVE  At(p, n + p, k, o, b) \in Search(w)
<1> DEFINE S == {q \in 0..p : At(q, n + q, k, o, b) \notin Search(w)}
<1> SUFFICES ASSUME S # {} PROVE FALSE
  OBVIOUS
<1>1. PICK q \in S : \A r \in S : q =< r
  <2>1. S \in SUBSET Nat
    OBVIOUS
  <2> HIDE DEF S
  <2> QED
    BY <2>1, LeastNumber
<1>2. n \in Nat /\ w.max \in Nat /\ Len(w.goal) \in Nat
  BY FoundIsOpen, GoalHasSlots DEF IsWorld
<1>3. q # 0
  <2>1. n + 0 = n
    BY <1>2
  <2> QED
    BY <1>1, <2>1
<1>4. q - 1 \in 0..p /\ q - 1 \notin S /\ q \in 1..p
  <2>1. q \in 0..p
    BY <1>1
  <2>2. q - 1 \in 0..p /\ q \in 1..p /\ ~(q =< q - 1)
    BY <1>3, <2>1
  <2> QED
    BY <1>1, <2>2
<1>5. At(q - 1, n + (q - 1), k, o, b) \in Search(w)
  BY <1>4
<1>6. /\ (q - 1) + 1 = q /\ (n + (q - 1)) + 1 = n + q
      /\ q < Len(w.goal) /\ n + q < w.max
  BY <1>2, <1>4
<1>7. Tool(w) => (q - 1) + 1 \in k
  BY <1>4, <1>6
<1>8. At((q - 1) + 1, (n + (q - 1)) + 1, k, o, b) \in Search(w)
  BY <1>5, <1>6, <1>7, FoundRight
<1> QED
  BY <1>1, <1>6, <1>8

\* A step that does nothing but set the world up: what sets it up does it again, a
\* wrong digit opens no lock, and summarize does not begin a chain.
LEMMA FoundIdle ==
  ASSUME NEW w, IsWorld(w), NEW n, NEW k, NEW b,
         At(0, n, k, <<>>, b) \in Search(w), n + 1 < w.max,
         w.kind = "lock" => 1 \in k,
         w.kind = "tool" => Chain(w) /\ 1 \in k
  PROVE  At(0, n + 1, k \cup {1}, <<>>, FALSE) \in Search(w)
<1> DEFINE s == At(0, n, k, <<>>, b)
<1>1. s.progress = 0 /\ s.known = k /\ s.seen = <<>> /\ s.armed = b
  BY AtFields
<1>2. /\ IsOpen(w, s) /\ 1 \in Slots(w) /\ 0 < Len(w.goal)
      /\ w.kind \in {"trap", "precondition"} => k = Slots(w)
      /\ b => InitiallyArmed(w)
      /\ b \in BOOLEAN
  BY FoundIsOpen
<1> HIDE DEF s
<1> SUFFICES \E a \in ToSet(Candidates(w, s)) :
               Effect(w, s, a) = Became(s, 0, k \cup {1}, <<>>, FALSE)
  BY <1>2, FoundNext DEF s
<1>3. /\ Tool(w) <=> w.kind \in {"tool", "precondition"}
      /\ Lock(w) <=> w.kind \in {"lock", "trap"}
      /\ Maze(w) <=> w.kind \in {"maze", "hazard"}
  BY DEF Tool, Lock, Maze
<1>4. CASE w.kind = "trap"
  <2>1. Inspect \in ToSet(Candidates(w, s))
    BY <1>3, <1>4, LockOffers
  <2>2. Effect(w, s, Inspect) = Became(s, 0, k \cup {1}, <<>>, FALSE)
    <3> DEFINE p1 == IF Inspect = Inspect THEN s.progress
                     ELSE IF Inspect # Reset /\ Right(w, s, Inspect) /\ ~s.armed
                             THEN s.progress + 1 ELSE 0
               k1 == IF Inspect = Inspect THEN s.known \cup {s.progress + 1} ELSE s.known
               o1 == IF Inspect = Inspect /\ w.kind = "lock"
                        THEN <<Name(Inspect), s.progress + 1>> ELSE s.seen
               b1 == IF Inspect = Inspect THEN FALSE
                     ELSE IF Inspect = Reset THEN w.kind = "trap" ELSE s.armed
    <3>1. Effect(w, s, Inspect) = Became(s, p1, k1, o1, b1)
      BY <1>2, <1>3, <1>4, LockEffectIs
    <3>2. p1 = 0 /\ k1 = k \cup {1} /\ o1 = <<>> /\ b1 = FALSE
      BY <1>1, <1>4
    <3> HIDE DEF p1, k1, o1, b1
    <3> QED
      BY <3>1, <3>2
  <2> QED
    BY <2>1, <2>2
<1>5. CASE Maze(w)
  <2>1. Inspect \in ToSet(Candidates(w, s))
    BY <1>5, MazeOffers
  <2>2. Effect(w, s, Inspect) = Became(s, 0, k \cup {1}, <<>>, FALSE)
    <3> DEFINE p1 == IF Inspect # Inspect /\ Right(w, s, Inspect) /\ ~s.armed
                          /\ (w.kind = "hazard" \/ 1 \in s.known)
                        THEN s.progress + 1 ELSE s.progress
               k1 == IF Inspect = Inspect THEN s.known \cup {s.progress + 1} ELSE s.known
               b1 == IF Inspect = Inspect THEN FALSE ELSE s.armed
    <3>1. Effect(w, s, Inspect) = Became(s, p1, k1, s.seen, b1)
      BY <1>2, <1>5, MazeEffectIs
    <3>2. p1 = 0 /\ k1 = k \cup {1} /\ s.seen = <<>> /\ b1 = FALSE
      BY <1>1
    <3> HIDE DEF p1, k1, b1
    <3> QED
      BY <3>1, <3>2
  <2> QED
    BY <2>1, <2>2
<1>6. CASE w.kind = "precondition"
  <2> DEFINE a == Use("search")
  <2>1. a \in ToSet(Candidates(w, s))
    BY <1>6, PreconditionOffers
  <2>2. SetsUp(w, a) /\ ~Revealing(w, s, a)
    BY <1>1, <1>2, <1>6 DEF SetsUp, Revealing, SlotUnknown, Name, Use
  <2>3. k = k \cup {1}
    BY <1>2, <1>6
  <2> HIDE DEF a
  <2>4. Effect(w, s, a) = Became(s, 0, k, <<>>, FALSE)
    BY <1>1, <1>2, <1>3, <1>6, <2>2, ToolEffectIs
  <2> QED
    BY <2>1, <2>3, <2>4
<1>7. CASE w.kind = "lock"
  <2>1. PICK d \in 1..4 : Press(d) # w.goal[1]
    <3>1. Press(1) # Press(2)
      BY DEF Press
    <3> QED
      BY <3>1
  <2>2. Press(d) \in ToSet(Candidates(w, s))
    BY <1>3, <1>7, LockOffers
  <2>3. Press(d) # Inspect /\ Press(d) # Reset /\ ~Right(w, s, Press(d))
    BY <1>1, <2>1 DEF Press, Inspect, Reset, Right
  <2>4. b = FALSE /\ k = k \cup {1}
    BY <1>2, <1>7 DEF InitiallyArmed
  <2>5. Effect(w, s, Press(d)) = Became(s, 0, k, <<>>, FALSE)
    <3> DEFINE a == Press(d)
               p1 == IF a = Inspect THEN s.progress
                     ELSE IF a # Reset /\ Right(w, s, a) /\ ~s.armed
                             THEN s.progress + 1 ELSE 0
               k1 == IF a = Inspect THEN s.known \cup {s.progress + 1} ELSE s.known
               o1 == IF a = Inspect /\ w.kind = "lock"
                        THEN <<Name(a), s.progress + 1>> ELSE s.seen
               b1 == IF a = Inspect THEN FALSE
                     ELSE IF a = Reset THEN w.kind = "trap" ELSE s.armed
    <3>1. Effect(w, s, a) = Became(s, p1, k1, o1, b1)
      BY <1>2, <1>3, <1>7, LockEffectIs
    <3>2. p1 = 0 /\ k1 = k /\ o1 = <<>> /\ b1 = FALSE
      BY <1>1, <2>3, <2>4
    <3> HIDE DEF p1, k1, o1, b1
    <3> QED
      BY <3>1, <3>2
  <2> QED
    BY <2>2, <2>4, <2>5
<1>8. CASE w.kind = "tool"
  <2> DEFINE a == Use("summarize")
  <2>1. a = w.goal[Len(w.goal)] /\ Len(w.goal) \in Slots(w) /\ a # w.goal[1]
    <3>1. Len(w.goal) > 1 /\ a = w.goal[Len(w.goal)]
      BY <1>8 DEF Chain
    <3>2. 1 \in 1..(Len(w.goal) - 1)
      BY <3>1, GoalHasSlots
    <3> QED
      BY <3>1, <3>2, GoalHasSlots, SMTT(30) DEF IsWorld
  <2>2. a \in ToSet(Candidates(w, s))
    <3>0. \A i \in Slots(w) :
            \E m \in DOMAIN Candidates(w, s) : Candidates(w, s)[m] = w.goal[i]
      BY <1>8, ToolOffers
    <3>1. PICK m \in DOMAIN Candidates(w, s) :
            Candidates(w, s)[m] = w.goal[Len(w.goal)]
      BY <2>1, <3>0
    <3> QED
      BY <2>1, <3>1 DEF ToSet
  <2>3. ~Right(w, s, a) /\ ~SetsUp(w, a) /\ ~Revealing(w, s, a)
    BY <1>1, <1>8, <2>1 DEF Right, SetsUp, Revealing, SlotUnknown
  <2>4. b = FALSE /\ k = k \cup {1}
    BY <1>2, <1>8 DEF InitiallyArmed
  <2> HIDE DEF a
  <2>5. Effect(w, s, a) = Became(s, 0, k, <<>>, FALSE)
    <3> DEFINE p1 == IF Revealing(w, s, a) \/ SetsUp(w, a) THEN s.progress
                     ELSE IF Right(w, s, a) /\ ~s.armed THEN s.progress + 1
                     ELSE IF s.progress > 0 THEN s.progress - 1 ELSE 0
               k1 == IF Revealing(w, s, a) THEN s.known \cup {s.progress + 1} ELSE s.known
               o1 == IF Revealing(w, s, a) /\ w.kind = "tool"
                        THEN <<Name(a), s.progress + 1>> ELSE s.seen
               b1 == IF ~Revealing(w, s, a) /\ SetsUp(w, a) THEN FALSE ELSE s.armed
    <3>1. Effect(w, s, a) = Became(s, p1, k1, o1, b1)
      BY <1>2, <1>3, <1>8, ToolEffectIs
    <3>2. p1 = 0 /\ k1 = k /\ o1 = <<>> /\ b1 = FALSE
      BY <1>1, <2>3, <2>4
    <3> HIDE DEF p1, k1, o1, b1
    <3> QED
      BY <3>1, <3>2
  <2> QED
    BY <2>2, <2>4, <2>5
<1> QED
  BY <1>3, <1>4, <1>5, <1>6, <1>7, <1>8, Shapes

\* Which worlds can be made to wait.
CanIdle(w) ==
    /\ w.kind = "lock" => 1 \in InitiallyKnown(w)
    /\ w.kind = "tool" => Chain(w) /\ 1 \in InitiallyKnown(w)

LEMMA FoundIdles ==
  ASSUME NEW w, IsWorld(w), CanIdle(w), NEW n \in Nat \ {0}, n < w.max,
         NEW k, k = InitiallyKnown(w) \cup {1}, NEW b, b = FALSE
  PROVE  At(0, n, k, <<>>, b) \in Search(w)
<1> DEFINE S == {m \in 1..n : At(0, m, k, <<>>, b) \notin Search(w)}
<1>0. n \in 1..n
  OBVIOUS
<1> SUFFICES ASSUME S # {} PROVE FALSE
  BY <1>0
<1>1. PICK m \in S : \A j \in S : m =< j
  <2>1. S \in SUBSET Nat
    OBVIOUS
  <2> HIDE DEF S
  <2> QED
    BY <2>1, LeastNumber
<1>2. w.max \in Nat /\ m \in 1..n
  BY <1>1 DEF IsWorld
<1>3. CASE m = 1
  <2>1. At(0, 0, InitiallyKnown(w), <<>>, InitiallyArmed(w)) \in Search(w)
    BY SearchStarts, StartIs
  <2>2. 0 + 1 = m /\ 0 + 1 < w.max
    BY <1>2, <1>3
  <2>3. At(0, 0 + 1, InitiallyKnown(w) \cup {1}, <<>>, FALSE) \in Search(w)
    BY <2>1, <2>2, FoundIdle DEF CanIdle
  <2> QED
    BY <1>1, <2>2, <2>3
<1>4. CASE m # 1
  <2>1. m - 1 \in 1..n /\ m - 1 \notin S /\ (m - 1) + 1 = m /\ m < w.max
    <3>1. m - 1 \in 1..n /\ (m - 1) + 1 = m /\ m < w.max /\ ~(m =< m - 1)
      BY <1>2, <1>4
    <3> QED
      BY <1>1, <3>1
  <2>2. At(0, m - 1, k, <<>>, b) \in Search(w)
    BY <2>1
  <2>3. k \cup {1} = k /\ 1 \in k
    OBVIOUS
  <2>4. At(0, (m - 1) + 1, k \cup {1}, <<>>, FALSE) \in Search(w)
    BY <2>1, <2>2, <2>3, FoundIdle DEF CanIdle
  <2> QED
    BY <1>1, <2>1, <2>3, <2>4
<1> QED
  BY <1>3, <1>4

\* A stage by the shortest way, and by a longer one.
LEMMA FoundAtOnce ==
  ASSUME NEW w, IsWorld(w), NEW p \in Nat, p < Len(w.goal), p < w.max,
         NEW b, b = FALSE, ~InitiallyArmed(w), Tool(w) => 1..p \subseteq InitiallyKnown(w)
  PROVE  At(p, p, InitiallyKnown(w), <<>>, b) \in Search(w)
<1>1. InitiallyArmed(w) = b
  BY InitiallyKnownType
<1>2. At(0, 0, InitiallyKnown(w), <<>>, b) \in Search(w)
  BY <1>1, SearchStarts, StartIs
<1>3. 0 + p = p
  OBVIOUS
<1>4. CASE Maze(w)
  <2>1. p = 0
    <3>1. Len(w.goal) = 1
      BY <1>4 DEF IsWorld
    <3> QED
      BY <3>1
  <2> QED
    BY <1>2, <2>1
<1>5. CASE ~Maze(w)
  <2>1. At(p, 0 + p, InitiallyKnown(w), <<>>, b) \in Search(w)
    BY <1>2, <1>3, <1>5, FoundRights
  <2> QED
    BY <1>3, <2>1
<1> QED
  BY <1>4, <1>5

LEMMA FoundLater ==
  ASSUME NEW w, IsWorld(w), CanIdle(w), NEW p \in Nat, p < Len(w.goal),
         NEW n \in Nat, p < n, n < w.max, NEW b, b = FALSE,
         NEW k, k = InitiallyKnown(w) \cup {1}, Tool(w) => 1..p \subseteq k
  PROVE  At(p, n, k, <<>>, b) \in Search(w)
<1>1. n - p \in Nat \ {0} /\ n - p < w.max /\ (n - p) + p = n
  BY DEF IsWorld
<1>2. At(0, n - p, k, <<>>, b) \in Search(w)
  BY <1>1, FoundIdles
<1>3. CASE Maze(w)
  <2>1. p = 0 /\ n - p = n
    <3>1. Len(w.goal) = 1
      BY <1>3 DEF IsWorld
    <3> QED
      BY <3>1
  <2> QED
    BY <1>2, <2>1
<1>4. CASE ~Maze(w)
  <2>1. At(p, (n - p) + p, k, <<>>, b) \in Search(w)
    BY <1>1, <1>2, <1>4, FoundRights
  <2> QED
    BY <1>1, <2>1
<1> QED
  BY <1>3, <1>4

\* A slot of a lock or of a chain is revealed.
LEMMA FoundRevealed ==
  ASSUME NEW w, IsWorld(w), w.kind \in {"lock", "tool"}, NEW p, NEW n, NEW k, NEW b,
         b = FALSE, At(p, n, k, <<>>, b) \in Search(w), n + 1 < w.max, p + 1 \notin k,
         RevealedBy(w, p) \in ActionNames(w)
  PROVE  At(p, n + 1, k \cup {p + 1}, <<RevealedBy(w, p), p + 1>>, b) \in Search(w)
<1> DEFINE s == At(p, n, k, <<>>, b)
           a == IF w.kind = "lock" THEN Inspect ELSE Use(RevealedBy(w, p))
<1>1. s.progress = p /\ s.known = k /\ s.seen = <<>> /\ s.armed = b
  BY AtFields
<1>2. IsOpen(w, s) /\ p \in Nat /\ p < Len(w.goal) /\ p + 1 \in Slots(w)
  BY FoundIsOpen
<1> HIDE DEF s
<1>3. SlotUnknown(w, s)
  BY <1>1 DEF SlotUnknown
<1> SUFFICES /\ a \in ToSet(Candidates(w, s))
             /\ Effect(w, s, a) = Became(s, p, k \cup {p + 1},
                                         <<RevealedBy(w, p), p + 1>>, b)
  BY <1>2, FoundNext DEF s
<1>4. CASE w.kind = "lock"
  <2>1. Lock(w) /\ a = Inspect /\ RevealedBy(w, p) = "inspect" /\ Name(Inspect) = "inspect"
    BY <1>4 DEF Lock, RevealedBy, Name, Inspect
  <2>2. a \in ToSet(Candidates(w, s))
    BY <1>3, <2>1, LockOffers
  <2> DEFINE p1 == IF Inspect = Inspect THEN s.progress
                   ELSE IF Inspect # Reset /\ Right(w, s, Inspect) /\ ~s.armed
                           THEN s.progress + 1 ELSE 0
             k1 == IF Inspect = Inspect THEN s.known \cup {s.progress + 1} ELSE s.known
             o1 == IF Inspect = Inspect /\ w.kind = "lock"
                      THEN <<Name(Inspect), s.progress + 1>> ELSE s.seen
             b1 == IF Inspect = Inspect THEN FALSE
                   ELSE IF Inspect = Reset THEN w.kind = "trap" ELSE s.armed
  <2>3. Effect(w, s, Inspect) = Became(s, p1, k1, o1, b1)
    BY <1>2, <2>1, LockEffectIs
  <2>4. /\ p1 = p /\ k1 = k \cup {p + 1} /\ o1 = <<RevealedBy(w, p), p + 1>> /\ b1 = b
    BY <1>1, <1>4, <2>1
  <2> HIDE DEF p1, k1, o1, b1
  <2> QED
    BY <2>1, <2>2, <2>3, <2>4
<1>5. CASE w.kind = "tool"
  <2>1. Tool(w) /\ a = Use(RevealedBy(w, p)) /\ Name(a) = RevealedBy(w, p)
    BY <1>5 DEF Tool, Name, Use
  <2>2. \A m \in Slots(w) :
          /\ w.goal[m] \in {Use("search"), Use("read"), Use("summarize")}
          /\ w.goal[m] = Use(Name(w.goal[m]))
    <3>1. GoalActions(w) = {Use("search"), Use("read"), Use("summarize")}
      BY <1>5 DEF GoalActions, Lock, Maze
    <3>2. \A t : Use(Name(Use(t))) = Use(t)
      BY DEF Name, Use
    <3> QED
      BY <3>1, <3>2, GoalHasSlots
  <2>3. a \in ToSet(Candidates(w, s))
    <3>1. PICK m \in Slots(w) : RevealedBy(w, p) = Name(w.goal[m])
      BY <1>5 DEF ActionNames, Lock, Maze, Slots
    <3>2. a = w.goal[m]
      BY <2>1, <2>2, <3>1
    <3>3. \A i \in Slots(w) :
            \E j \in DOMAIN Candidates(w, s) : Candidates(w, s)[j] = w.goal[i]
      BY <1>5, ToolOffers
    <3> QED
      BY <3>2, <3>3 DEF ToSet
  <2>4. RevealedBy(w, p) \in {"search", "read"}
    <3>1. w.goal[p + 1] \in {Use("search"), Use("read"), Use("summarize")}
      BY <1>2, <2>2
    <3> QED
      BY <1>5, <3>1 DEF RevealedBy, Name, Use
  <2>5. Revealing(w, s, a)
    BY <1>3, <2>1, <2>4 DEF Revealing, Reveals
  <2> HIDE DEF a
  <2> DEFINE p1 == IF Revealing(w, s, a) \/ SetsUp(w, a) THEN s.progress
                   ELSE IF Right(w, s, a) /\ ~s.armed THEN s.progress + 1
                   ELSE IF s.progress > 0 THEN s.progress - 1 ELSE 0
             k1 == IF Revealing(w, s, a) THEN s.known \cup {s.progress + 1} ELSE s.known
             o1 == IF Revealing(w, s, a) /\ w.kind = "tool"
                      THEN <<Name(a), s.progress + 1>> ELSE s.seen
             b1 == IF ~Revealing(w, s, a) /\ SetsUp(w, a) THEN FALSE ELSE s.armed
  <2>6. Effect(w, s, a) = Became(s, p1, k1, o1, b1)
    BY <1>2, <2>1, ToolEffectIs
  <2>7. /\ p1 = p /\ k1 = k \cup {p + 1} /\ o1 = <<RevealedBy(w, p), p + 1>> /\ b1 = b
    BY <1>1, <1>5, <2>1, <2>5
  <2> HIDE DEF p1, k1, o1, b1
  <2> QED
    BY <2>3, <2>6, <2>7
<1> QED
  BY <1>4, <1>5

\* A door that is opened while the hazard is active only costs a step.
LEMMA FoundStillArmed ==
  ASSUME NEW w, IsWorld(w), w.kind = "hazard", InitiallyArmed(w), 1 < w.max,
         NEW b, b = TRUE
  PROVE  At(0, 1, InitiallyKnown(w), <<>>, b) \in Search(w)
<1> DEFINE s == At(0, 0, InitiallyKnown(w), <<>>, b)
           a == Wanted(w, s)
           k == InitiallyKnown(w)
<1>0. InitiallyArmed(w) = b /\ Maze(w)
  BY InitiallyKnownType DEF Maze
<1>1. s \in Search(w)
  BY <1>0, SearchStarts, StartIs
<1>2. s.progress = 0 /\ s.known = k /\ s.seen = <<>> /\ s.armed = b
  BY DEF At
<1>3. IsOpen(w, s) /\ 0 < Len(w.goal)
  BY <1>1, FoundIsOpen
<1> HIDE DEF s
<1>4. a \in ToSet(Candidates(w, s)) /\ a # Inspect
  BY <1>3, RightIsOffered, WantedIs DEF Wanted
<1> HIDE DEF a
<1> DEFINE p1 == IF a # Inspect /\ Right(w, s, a) /\ ~s.armed
                      /\ (w.kind = "hazard" \/ 1 \in s.known)
                    THEN s.progress + 1 ELSE s.progress
           k1 == IF a = Inspect THEN s.known \cup {s.progress + 1} ELSE s.known
           b1 == IF a = Inspect THEN FALSE ELSE s.armed
<1>5. Effect(w, s, a) = Became(s, p1, k1, s.seen, b1)
  BY <1>0, <1>3, MazeEffectIs
<1>6. p1 = 0 /\ k1 = k /\ s.seen = <<>> /\ b1 = b
  BY <1>2, <1>4
<1> HIDE DEF p1, k1, b1, k
<1>7. Effect(w, s, a) = Became(s, 0, k, <<>>, b)
  BY <1>5, <1>6
<1>8. 0 + 1 = 1
  OBVIOUS
<1>9. At(0, 0 + 1, k, <<>>, b) \in Search(w)
  BY <1>1, <1>3, <1>4, <1>7, <1>8, FoundNext DEF s, k
<1> QED
  BY <1>8, <1>9 DEF k

LEMMA LastBeforeIs ==
  ASSUME NEW w, IsWorld(w), NEW n \in Nat, n < w.max
  PROVE  LastBefore(w, n) = n
<1>1. w.max - 1 \in Nat /\ n =< w.max - 1
  BY DEF IsWorld
<1> DEFINE m == w.max - 1
<1>2. \E x \in {m, n} : \A y \in {m, n} : x =< y
  BY <1>1
<1>3. Min({m, n}) \in {m, n} /\ \A y \in {m, n} : Min({m, n}) =< y
  BY <1>2 DEF Min
<1> HIDE DEF m
<1>4. Min({m, n}) = n
  BY <1>1, <1>3 DEF m
<1> QED
  BY <1>4 DEF LastBefore, m

LEMMA GreaterIs ==
  ASSUME NEW m \in Nat, NEW n \in Nat
  PROVE  Max({m, n}) >= m /\ Max({m, n}) >= n
<1>1. \E x \in {m, n} : \A y \in {m, n} : x >= y
  OBVIOUS
<1> QED
  BY <1>1 DEF Max

\* Why a state that is written down is not impossible.
LEMMA IsPossible ==
  ASSUME NEW w, NEW p, NEW n, NEW k, NEW o, NEW b, ~Impossible(w, At(p, n, k, o, b))
  PROVE  /\ w.kind = "tool" => 1..p \subseteq k
         /\ w.kind \in {"trap", "precondition"} => IF b THEN ~(p > 0) ELSE n # p
         /\ o # <<>> => o[2] \notin InitiallyKnown(w) /\ o[1] \in ActionNames(w)
         /\ w.kind = "hazard" /\ w.hint => 1 \in k
<1> DEFINE s == At(p, n, k, o, b)
<1>1. s.progress = p /\ s.steps = n /\ s.known = k /\ s.seen = o /\ s.armed = b
  BY AtFields
<1> HIDE DEF s
<1>2. ~Impossible(w, s)
  BY DEF s
<1>3. /\ ~PastAHiddenSlot(w, s) /\ ~NeverSetUp(w, s) /\ ~NeverObserved(w, s)
      /\ ~HintForgotten(w, s)
  BY <1>2 DEF Impossible
<1>4. w.kind = "tool" => 1..p \subseteq k
  BY <1>1, <1>3 DEF PastAHiddenSlot
<1>5. w.kind \in {"trap", "precondition"} => IF b THEN ~(p > 0) ELSE n # p
  BY <1>1, <1>3 DEF NeverSetUp
<1>6. o # <<>> => o[2] \notin InitiallyKnown(w) /\ o[1] \in ActionNames(w)
  BY <1>1, <1>3 DEF NeverObserved
<1>7. w.kind = "hazard" /\ w.hint => 1 \in k
  BY <1>1, <1>3 DEF HintForgotten, HintSeen
<1> QED
  BY <1>4, <1>5, <1>6, <1>7

LEMMA StagesAre ==
  ASSUME NEW w, IsWorld(w), NEW p \in Stages(w)
  PROVE  /\ p \in Nat /\ p < Len(w.goal) /\ Len(w.goal) \in Nat \ {0} /\ w.max \in Nat
         /\ 1..p \subseteq Slots(w) /\ 1 \in Slots(w) /\ p + 1 \in Slots(w)
<1>1. Len(w.goal) \in Nat \ {0} /\ w.max \in Nat /\ Slots(w) = 1..Len(w.goal)
  BY GoalHasSlots DEF IsWorld
<1> QED
  BY <1>1 DEF Stages

LEMMA CanonicalIsFound ==
  ASSUME NEW w, IsWorld(w), NEW s \in Canonical(w)
  PROVE  s \in Search(w)
<1> DEFINE b == FALSE
<1>1. /\ w.mode = "visible" /\ w.kind \in {"lock", "tool"}
      /\ w.kind = "tool" => Chain(w)
      /\ \E p \in Stages(w) : \E n \in p..(w.max - 1) : s = At(p, n, Slots(w), <<>>, b)
  BY DEF Canonical, Chain
<1>0. PICK p \in Stages(w) : \E n \in p..(w.max - 1) : s = At(p, n, Slots(w), <<>>, b)
  BY <1>1
<1>2. PICK n \in p..(w.max - 1) : s = At(p, n, Slots(w), <<>>, b)
  BY <1>0
<1>3. /\ p \in Nat /\ p < Len(w.goal) /\ w.max \in Nat
      /\ 1..p \subseteq Slots(w) /\ 1 \in Slots(w)
  BY StagesAre
<1>4. n \in Nat /\ p =< n /\ n < w.max
  BY <1>2, <1>3
<1>5. InitiallyKnown(w) = Slots(w) /\ ~InitiallyArmed(w)
  BY <1>1 DEF InitiallyKnown, InitiallyArmed
<1>6. b = FALSE
  OBVIOUS
<1> HIDE DEF b
<1>7. CASE n = p
  <2>1. At(p, p, InitiallyKnown(w), <<>>, b) \in Search(w)
    BY <1>3, <1>4, <1>5, <1>6, <1>7, FoundAtOnce
  <2> QED
    BY <1>2, <1>5, <1>7, <2>1
<1>8. CASE n # p
  <2>1. CanIdle(w)
    BY <1>1, <1>3, <1>5 DEF CanIdle
  <2>2. Slots(w) = InitiallyKnown(w) \cup {1}
    BY <1>3, <1>5
  <2>3. p < n
    BY <1>3, <1>4, <1>8
  <2>4. At(p, n, Slots(w), <<>>, b) \in Search(w)
    BY <1>3, <1>4, <1>6, <2>1, <2>2, <2>3, FoundLater
  <2> QED
    BY <1>2, <2>4
<1> QED
  BY <1>7, <1>8

\* A stage that is reached by the shortest way, as it is before its slot is revealed.
LEMMA BeforeIsFound ==
  ASSUME NEW w, IsWorld(w), w.kind \in {"lock", "tool"}, NEW p \in Stages(w),
         p + 1 < w.max, NEW b, b = FALSE,
         w.kind = "tool" => 1..p \subseteq InitiallyKnown(w)
  PROVE  At(p, p, InitiallyKnown(w), <<>>, b) \in Search(w)
<1>1. p \in Nat /\ p < Len(w.goal) /\ p < w.max
  BY StagesAre
<1>2. ~InitiallyArmed(w) /\ (Tool(w) => w.kind = "tool")
  BY DEF InitiallyArmed, Tool
<1> QED
  BY <1>1, <1>2, FoundAtOnce

LEMMA SlotV2IsFound ==
  ASSUME NEW w, IsWorld(w), NEW s \in SlotV2(w) \cup PartialHidden(w), ~Impossible(w, s)
  PROVE  s \in Search(w)
<1> DEFINE b == FALSE
<1>1. /\ w.kind \in {"lock", "tool"} /\ w.max > Len(w.goal) + 2
      /\ \E p \in Stages(w) : s \in {Before(w, p), After(w, p),
                                     At(p, p, InitiallyKnown(w), <<>>, b)}
  <2> DEFINE L == Len(w.goal)
  <2>1. L \in Nat /\ w.max \in Nat
    BY GoalHasSlots DEF IsWorld
  <2>2. Max({8, L + 5}) >= L + 5 /\ Max({7, L + 4}) >= L + 4
    BY <2>1, GreaterIs
  <2>3. CASE s \in SlotV2(w)
    <3>1. SlotV2Sized(w) /\ \E p \in Stages(w) : s \in {Before(w, p), After(w, p)}
      BY <2>3 DEF SlotV2
    <3>2. w.kind \in {"lock", "tool"} /\ w.max >= L + 5
      BY <2>1, <2>2, <3>1 DEF SlotV2Sized, Chain
    <3>3. w.max > L + 2
      BY <2>1, <3>2
    <3> QED
      BY <3>1, <3>2, <3>3
  <2>4. CASE s \in PartialHidden(w)
    <3>1. /\ \/ w.kind = "lock" /\ w.max = Max({7, L + 4})
             \/ Chain(w) /\ w.max = L + 5
          /\ \E p \in Stages(w) : s = At(p, p, InitiallyKnown(w), <<>>, b)
      BY <2>4 DEF PartialHidden
    <3>2. w.kind \in {"lock", "tool"} /\ w.max >= L + 4
      BY <2>1, <2>2, <3>1 DEF Chain
    <3>3. w.max > L + 2
      BY <2>1, <3>2
    <3> QED
      BY <3>1, <3>2, <3>3
  <2> QED
    BY <2>3, <2>4
<1>2. PICK p \in Stages(w) : s \in {Before(w, p), After(w, p),
                                    At(p, p, InitiallyKnown(w), <<>>, b)}
  BY <1>1
<1>3. /\ p \in Nat /\ p < Len(w.goal) /\ p + 1 < w.max /\ p < w.max /\ p + 1 \in Nat
  BY <1>1, StagesAre
<1>4. LastBefore(w, p) = p /\ LastBefore(w, p + 1) = p + 1
  BY <1>3, LastBeforeIs
<1>5. b = FALSE
  OBVIOUS
<1>6. CASE s \in {Before(w, p), At(p, p, InitiallyKnown(w), <<>>, b)}
  <2>1. s = At(p, p, InitiallyKnown(w), <<>>, b)
    BY <1>4, <1>6 DEF Before
  <2> HIDE DEF b
  <2>2. w.kind = "tool" => 1..p \subseteq InitiallyKnown(w)
    BY <2>1, IsPossible
  <2> QED
    BY <1>1, <1>3, <1>5, <2>1, <2>2, BeforeIsFound
<1>7. CASE s = After(w, p)
  <2> DEFINE o == <<RevealedBy(w, p), p + 1>>
             k == InitiallyKnown(w) \cup {p + 1}
  <2>1. s = At(p, p + 1, k, o, b)
    BY <1>4, <1>7 DEF After
  <2>2. o # <<>> /\ o[1] = RevealedBy(w, p) /\ o[2] = p + 1
    OBVIOUS
  <2> HIDE DEF b, o
  <2>3. /\ w.kind = "tool" => 1..p \subseteq k
        /\ p + 1 \notin InitiallyKnown(w) /\ RevealedBy(w, p) \in ActionNames(w)
    BY <2>1, <2>2, IsPossible
  <2>4. w.kind = "tool" => 1..p \subseteq InitiallyKnown(w)
    BY <1>3, <2>3
  <2>5. At(p, p, InitiallyKnown(w), <<>>, b) \in Search(w)
    BY <1>1, <1>3, <1>5, <2>4, BeforeIsFound
  <2>6. At(p, p + 1, k, o, b) \in Search(w)
    BY <1>1, <1>3, <1>5, <2>3, <2>5, FoundRevealed DEF o
  <2> QED
    BY <2>1, <2>6
<1> QED
  BY <1>2, <1>6, <1>7

LEMMA MazeV2IsFound ==
  ASSUME NEW w, IsWorld(w), NEW s \in MazeV2(w)
  PROVE  s \in Search(w)
<1> DEFINE b == FALSE
           n == IF w.mode = "visible" THEN 2 ELSE 1
<1>1. /\ w.kind = "maze" /\ w.max \in {5, 7, 8, 10}
      /\ s \in {Start(w), At(0, n, {1}, <<>>, b)}
  <2>1. ResetWorld(w, [known |-> {}]) = Start(w)
    BY DEF Start
  <2> QED
    BY <2>1 DEF MazeV2
<1>2. CanIdle(w) /\ {1} = InitiallyKnown(w) \cup {1}
  BY <1>1 DEF CanIdle, InitiallyKnown
<1>3. b = FALSE /\ n \in Nat \ {0} /\ n < w.max
  BY <1>1
<1> HIDE DEF b, n
<1>4. At(0, n, {1}, <<>>, b) \in Search(w)
  BY <1>2, <1>3, FoundIdles
<1> QED
  BY <1>1, <1>4, SearchStarts

\* A stage of a world that has to be set up: armed, or n steps after its start.
LEMMA SetUpIsFound ==
  ASSUME NEW w, IsWorld(w), w.kind \in {"trap", "precondition"}, NEW p \in Stages(w),
         NEW n \in Nat, p =< n, n < w.max, NEW b \in BOOLEAN, b => n = p,
         ~Impossible(w, At(p, n, Slots(w), <<>>, b))
  PROVE  At(p, n, Slots(w), <<>>, b) \in Search(w)
<1>1. /\ p \in Nat /\ p < Len(w.goal) /\ 1..p \subseteq Slots(w) /\ 1 \in Slots(w)
  BY StagesAre
<1>2. /\ InitiallyKnown(w) = Slots(w) /\ CanIdle(w)
      /\ InitiallyArmed(w) = TRUE
  BY DEF InitiallyKnown, CanIdle, InitiallyArmed
<1>3. IF b THEN ~(p > 0) ELSE n # p
  BY IsPossible
<1>4. CASE b
  <2>1. p = 0 /\ n = 0 /\ b = InitiallyArmed(w)
    BY <1>1, <1>2, <1>3, <1>4
  <2> QED
    BY <1>2, <2>1, SearchStarts, StartIs
<1>5. CASE ~b
  <2>1. b = FALSE /\ p < n
    BY <1>1, <1>3, <1>5
  <2>2. Slots(w) = InitiallyKnown(w) \cup {1}
    BY <1>1, <1>2
  <2> QED
    BY <1>1, <1>2, <2>1, <2>2, FoundLater
<1> QED
  BY <1>4, <1>5

LEMMA LockTrapIsFound ==
  ASSUME NEW w, IsWorld(w), NEW s \in LockTrap(w), ~Impossible(w, s)
  PROVE  s \in Search(w)
<1> DEFINE L == Len(w.goal)
           some == {0, 1, 2, 4}
<1>1. /\ w.kind = "trap" /\ w.max = Max({8, L + 5})
      /\ \E p \in Stages(w) :
           \/ s = At(p, p, Slots(w), <<>>, TRUE)
           \/ \E more \in some : s = At(p, LastBefore(w, p + more), Slots(w), <<>>, FALSE)
  BY DEF LockTrap
<1>2. L \in Nat /\ Max({8, L + 5}) >= L + 5
  BY GoalHasSlots, GreaterIs
<1>3. PICK p \in Stages(w) :
        \/ s = At(p, p, Slots(w), <<>>, TRUE)
        \/ \E more \in some : s = At(p, LastBefore(w, p + more), Slots(w), <<>>, FALSE)
  BY <1>1
<1>4. p \in Nat /\ p < L /\ w.max >= L + 5 /\ w.max \in Nat
  BY <1>1, <1>2, StagesAre
<1>5. CASE s = At(p, p, Slots(w), <<>>, TRUE)
  <2>1. p =< p /\ p < w.max
    BY <1>2, <1>4
  <2> QED
    BY <1>1, <1>4, <1>5, <2>1, SetUpIsFound
<1>6. CASE \E more \in some : s = At(p, LastBefore(w, p + more), Slots(w), <<>>, FALSE)
  <2>1. PICK more \in some : s = At(p, LastBefore(w, p + more), Slots(w), <<>>, FALSE)
    BY <1>6
  <2>2. p + more \in Nat /\ p =< p + more /\ p + more < w.max
    BY <1>2, <1>4
  <2>3. LastBefore(w, p + more) = p + more
    BY <2>2, LastBeforeIs
  <2>4. s = At(p, p + more, Slots(w), <<>>, FALSE)
    BY <2>1, <2>3
  <2> QED
    BY <1>1, <2>2, <2>4, SetUpIsFound
<1> QED
  BY <1>3, <1>5, <1>6

LEMMA ToolPreconditionIsFound ==
  ASSUME NEW w, IsWorld(w), NEW s \in ToolPrecondition(w), ~Impossible(w, s)
  PROVE  s \in Search(w)
<1> DEFINE L == Len(w.goal)
           some == 0..2
<1>1. /\ w.kind = "precondition" /\ w.max = L + 4
      /\ \E p \in Stages(w) :
           \/ s = At(p, p, Slots(w), <<>>, TRUE)
           \/ \E more \in some : s = At(p, LastBefore(w, p + more), Slots(w), <<>>, FALSE)
  BY DEF ToolPrecondition
<1>2. L \in Nat
  BY GoalHasSlots
<1>3. PICK p \in Stages(w) :
        \/ s = At(p, p, Slots(w), <<>>, TRUE)
        \/ \E more \in some : s = At(p, LastBefore(w, p + more), Slots(w), <<>>, FALSE)
  BY <1>1
<1>4. p \in Nat /\ p < L
  BY StagesAre
<1>5. CASE s = At(p, p, Slots(w), <<>>, TRUE)
  <2>1. p =< p /\ p < w.max
    BY <1>1, <1>2, <1>4
  <2> QED
    BY <1>1, <1>4, <1>5, <2>1, SetUpIsFound
<1>6. CASE \E more \in some : s = At(p, LastBefore(w, p + more), Slots(w), <<>>, FALSE)
  <2>1. PICK more \in some : s = At(p, LastBefore(w, p + more), Slots(w), <<>>, FALSE)
    BY <1>6
  <2>2. p + more \in Nat /\ p =< p + more /\ p + more < w.max
    BY <1>1, <1>2, <1>4
  <2>3. LastBefore(w, p + more) = p + more
    BY <2>2, LastBeforeIs
  <2>4. s = At(p, p + more, Slots(w), <<>>, FALSE)
    BY <2>1, <2>3
  <2> QED
    BY <1>1, <2>2, <2>4, SetUpIsFound
<1> QED
  BY <1>3, <1>5, <1>6

LEMMA MazeHazardIsFound ==
  ASSUME NEW w, IsWorld(w), NEW s \in MazeHazard(w), ~Impossible(w, s)
  PROVE  s \in Search(w)
<1> DEFINE yes == TRUE
           no == FALSE
<1>0. yes = TRUE /\ no = FALSE
  OBVIOUS
<1>1. /\ w.kind = "hazard" /\ w.max = 7 /\ w.hint
  BY DEF MazeHazard
<1>2. /\ InitiallyKnown(w) = {1} /\ {1} = InitiallyKnown(w) \cup {1} /\ CanIdle(w)
      /\ InitiallyArmed(w) <=> w.present /\ w.active
  BY <1>1 DEF InitiallyKnown, CanIdle, InitiallyArmed
<1>3. CASE w.present /\ w.active
  <2>1. s \in {At(0, 0, {}, <<>>, yes), At(0, 0, {1}, <<>>, yes), At(0, 1, {1}, <<>>, yes)}
    BY <1>1, <1>3 DEF MazeHazard
  <2>2. InitiallyArmed(w) = yes
    BY <1>2, <1>3, InitiallyKnownType
  <2> HIDE DEF yes
  <2>3. s # At(0, 0, {}, <<>>, yes)
    BY <1>1, IsPossible
  <2>4. At(0, 0, {1}, <<>>, yes) \in Search(w)
    BY <1>2, <2>2, SearchStarts, StartIs
  <2>5. At(0, 1, {1}, <<>>, yes) \in Search(w)
    <3>1. InitiallyArmed(w) /\ 1 < w.max
      BY <1>1, <1>2, <1>3
    <3>2. At(0, 1, InitiallyKnown(w), <<>>, yes) \in Search(w)
      BY <1>0, <1>1, <3>1, FoundStillArmed
    <3> QED
      BY <1>2, <3>2
  <2> QED
    BY <2>1, <2>3, <2>4, <2>5
<1>4. CASE ~(w.present /\ w.active)
  <2>1. \E n \in 0..6 : s = At(0, n, {1}, <<>>, no)
    <3>1. CASE w.present
      <4>1. s \in {At(0, n, {1}, <<>>, no) : n \in 1..6}
        BY <1>1, <1>4, <3>1 DEF MazeHazard
      <4>2. 1..6 \subseteq 0..6
        OBVIOUS
      <4> HIDE DEF no
      <4> QED
        BY <4>1, <4>2
    <3>2. CASE ~w.present
      <4>1. s \in {At(0, n, {1}, <<>>, no) : n \in {0, 1, 3}}
        BY <1>1, <1>4, <3>2 DEF MazeHazard
      <4>2. {0, 1, 3} \subseteq 0..6
        OBVIOUS
      <4> HIDE DEF no
      <4> QED
        BY <4>1, <4>2
    <3> QED
      BY <3>1, <3>2
  <2>2. PICK n \in 0..6 : s = At(0, n, {1}, <<>>, no)
    BY <2>1
  <2>3. InitiallyArmed(w) = no
    BY <1>2, <1>4, InitiallyKnownType
  <2> HIDE DEF no
  <2>4. CASE n = 0
    BY <1>2, <2>2, <2>3, <2>4, SearchStarts, StartIs
  <2>5. CASE n # 0
    <3>1. n \in Nat \ {0} /\ n < w.max
      BY <1>1, <2>5
    <3> QED
      BY <1>0, <1>2, <2>2, <3>1, FoundIdles
  <2> QED
    BY <2>4, <2>5
<1> QED
  BY <1>3, <1>4

LEMMA WrittenIsFound ==
  ASSUME NEW w, IsWorld(w), NEW s \in Written(w), ~Impossible(w, s)
  PROVE  s \in Search(w)
BY CanonicalIsFound, SlotV2IsFound, MazeV2IsFound, LockTrapIsFound, MazeHazardIsFound,
   ToolPreconditionIsFound DEF Written

\* Whatever the worlds: the search of a world finds every state in which an episode
\* has to choose, and of what the curricula write down exactly what is not impossible.
THEOREM CurriculaAreReachable == Spec => []CurriculumIsReachable
<1>1. FoundInv => CurriculumIsReachable
  <2> SUFFICES ASSUME FoundInv PROVE CurriculumIsReachable
    OBVIOUS
  <2>1. IsWorld(world) /\ world \in World
    BY EpisodeAssumption DEF FoundInv, EpisodeInv
  <2>2. Found[world] = Search(world)
    BY <2>1 DEF Found
  <2>3. Playing => state \in Found[world]
    BY <2>2 DEF Playing, FoundInv
  <2>4. \A s \in Written(world) : s \in Found[world] <=> ~Impossible(world, s)
    BY <2>1, <2>2, FoundIsPossible, WrittenIsFound
  <2> QED
    BY <2>3, <2>4 DEF CurriculumIsReachable
<1> QED
  BY <1>1, FoundInvInit, FoundInvStep, PTL DEF Spec
=============================================================================
