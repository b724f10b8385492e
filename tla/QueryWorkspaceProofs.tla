------------------------ MODULE QueryWorkspaceProofs ------------------------
(***************************************************************************)
(* Theorems about QueryWorkspace, for stamps of any width, any number of   *)
(* nodes and any depth of nesting.                                         *)
(***************************************************************************)
EXTENDS QueryWorkspace, TLAPS

-----------------------------------------------------------------------------
(* Facts about a tracker                                                   *)

\* No stamp is of a generation to come.
Clean(t) == \A i \in 1..Len(t.stamps) : t.stamps[i] <= t.current

LEMMA FunctionIsSequence ==
  ASSUME NEW S, NEW n \in Nat, NEW f \in [1..n -> S]
  PROVE  f \in Seq(S) /\ Len(f) = n
  OBVIOUS

LEMMA SmallRemainder ==
  ASSUME NEW a \in Nat, NEW b \in Nat, a < b
  PROVE  a % b = a
  OBVIOUS

LEMMA ElementOf ==
  ASSUME NEW S, NEW s \in Seq(S), NEW i \in 1..Len(s)
  PROVE  s[i] \in S
  OBVIOUS

LEMMA Updated ==
  ASSUME NEW S, NEW s \in Seq(S), NEW k \in 1..Len(s), NEW e \in S
  PROVE  /\ [s EXCEPT ![k] = e] \in Seq(S) /\ Len([s EXCEPT ![k] = e]) = Len(s)
         /\ \A i \in 1..Len(s) : [s EXCEPT ![k] = e][i] = IF i = k THEN e ELSE s[i]
  OBVIOUS

LEMMA StampTyped ==
  ASSUME NEW t \in Tracker, NEW i \in 1..Len(t.stamps)
  PROVE  t.stamps[i] \in 0..MaxStamp
  BY ElementOf DEF Tracker

LEMMA NewTrackerClean == NewTracker \in Tracker /\ Clean(NewTracker)
  BY WorkspaceAssumption DEF NewTracker, Tracker, Clean

\* Growing a tracker adds nodes that were never visited.
LEMMA GrownTracker ==
  ASSUME NEW t \in Tracker, Clean(t), NEW n \in Nat
  PROVE  /\ Grown(t, n) \in Tracker /\ Clean(Grown(t, n))
         /\ Grown(t, n).current = t.current
         /\ Len(Grown(t, n).stamps) = IF Len(t.stamps) < n THEN n ELSE Len(t.stamps)
         /\ \A i \in 1..Len(Grown(t, n).stamps) :
              Grown(t, n).stamps[i] = IF i <= Len(t.stamps) THEN t.stamps[i] ELSE 0
<1> DEFINE size == IF Len(t.stamps) < n THEN n ELSE Len(t.stamps)
           longer == [i \in 1..size |-> IF i <= Len(t.stamps) THEN t.stamps[i] ELSE 0]
<1>1. t.stamps \in Seq(0..MaxStamp) /\ t.current \in 1..MaxStamp
  BY DEF Tracker
<1>2. Len(t.stamps) \in Nat /\ size \in Nat
  BY <1>1
<1>3. longer \in Seq(0..MaxStamp) /\ Len(longer) = size
  <2>1. \A i \in 1..size : (IF i <= Len(t.stamps) THEN t.stamps[i] ELSE 0) \in 0..MaxStamp
    BY <1>1, <1>2, WorkspaceAssumption
  <2>2. longer \in [1..size -> 0..MaxStamp]
    BY <2>1
  <2> HIDE DEF longer, size
  <2>3. QED
    BY <1>2, <2>2, FunctionIsSequence
<1>4. Grown(t, n) = [stamps |-> longer, current |-> t.current]
  BY DEF Grown
<1>5. /\ Grown(t, n).stamps = longer /\ Grown(t, n).current = t.current
      /\ Grown(t, n) \in Tracker
  BY <1>1, <1>3, <1>4 DEF Tracker
<1>6. Clean(Grown(t, n))
  BY <1>1, <1>2, <1>3, <1>5 DEF Clean
<1>7. QED
  BY <1>3, <1>5, <1>6

\* Nothing is visited in a tracker that has just begun a generation, the
\* wrap included.
LEMMA BeganTracker ==
  ASSUME NEW t \in Tracker, Clean(t)
  PROVE  /\ Began(t) \in Tracker /\ Clean(Began(t))
         /\ \A i \in 1..Len(Began(t).stamps) : Began(t).stamps[i] # Began(t).current
<1>1. t.stamps \in Seq(0..MaxStamp) /\ t.current \in 1..MaxStamp
  BY DEF Tracker
<1>2. CASE t.current = MaxStamp
  <2> DEFINE zeroes == [i \in 1..Len(t.stamps) |-> 0]
  <2>1. (t.current + 1) % (MaxStamp + 1) = 0
    BY <1>1, <1>2, WorkspaceAssumption
  <2>2. Began(t) = [stamps |-> zeroes, current |-> 1]
    BY <2>1 DEF Began
  <2>3. zeroes \in Seq(0..MaxStamp) /\ Len(zeroes) = Len(t.stamps)
    BY <1>1, WorkspaceAssumption
  <2>4. QED
    BY <1>1, <2>2, <2>3, WorkspaceAssumption DEF Tracker, Clean
<1>3. CASE t.current # MaxStamp
  <2>1. (t.current + 1) % (MaxStamp + 1) = t.current + 1
    <3>1. t.current + 1 \in Nat /\ MaxStamp + 1 \in Nat /\ t.current + 1 < MaxStamp + 1
      BY <1>1, <1>3, WorkspaceAssumption
    <3>2. QED
      BY <3>1, SmallRemainder
  <2>2. Began(t) = [stamps |-> t.stamps, current |-> t.current + 1]
    BY <1>1, <2>1 DEF Began
  <2>3. Began(t).stamps = t.stamps /\ Began(t).current = t.current + 1 /\ Began(t) \in Tracker
    BY <1>1, <1>3, <2>2, WorkspaceAssumption DEF Tracker
  <2>4. \A i \in 1..Len(t.stamps) : t.stamps[i] \in Int /\ t.stamps[i] < t.current + 1
    <3>1. SUFFICES ASSUME NEW i \in 1..Len(t.stamps)
                   PROVE  t.stamps[i] \in Int /\ t.stamps[i] < t.current + 1
      OBVIOUS
    <3>2. t.stamps[i] \in 0..MaxStamp
      BY StampTyped
    <3>3. t.stamps[i] <= t.current
      BY DEF Clean
    <3>4. QED
      BY <1>1, <3>2, <3>3, WorkspaceAssumption
  <2>5. \A i \in 1..Len(t.stamps) :
          t.stamps[i] <= t.current + 1 /\ t.stamps[i] # t.current + 1
    BY <1>1, <2>4
  <2>6. QED
    BY <2>3, <2>5 DEF Clean
<1>4. QED
  BY <1>2, <1>3

\* The stamp of a node, 0 for one the tracker has no room for.
Stamp(t, id) == IF id < Len(t.stamps) THEN t.stamps[id + 1] ELSE 0

LEMMA StampIsTyped ==
  ASSUME NEW t \in Tracker, Clean(t), NEW id \in Nat
  PROVE  Stamp(t, id) \in Nat /\ Stamp(t, id) <= t.current
<1>1. t.stamps \in Seq(0..MaxStamp) /\ t.current \in 1..MaxStamp /\ Len(t.stamps) \in Nat
  BY DEF Tracker
<1>2. CASE id < Len(t.stamps)
  <2>1. id + 1 \in 1..Len(t.stamps)
    BY <1>1, <1>2
  <2>2. t.stamps[id + 1] \in 0..MaxStamp
    BY <2>1, StampTyped
  <2>3. t.stamps[id + 1] <= t.current
    BY <2>1 DEF Clean
  <2>4. Stamp(t, id) = t.stamps[id + 1]
    BY <1>2 DEF Stamp
  <2>5. QED
    BY <2>2, <2>3, <2>4, WorkspaceAssumption
<1>3. CASE ~(id < Len(t.stamps))
  BY <1>1, <1>3 DEF Stamp
<1>4. QED
  BY <1>2, <1>3

\* Growing a tracker changes no node's stamp.
LEMMA GrownStamp ==
  ASSUME NEW t \in Tracker, Clean(t), NEW n \in Nat, NEW id \in Nat
  PROVE  Stamp(Grown(t, n), id) = Stamp(t, id)
<1>1. t.stamps \in Seq(0..MaxStamp) /\ Len(t.stamps) \in Nat
  BY DEF Tracker
<1>2. /\ Len(Grown(t, n).stamps) = IF Len(t.stamps) < n THEN n ELSE Len(t.stamps)
      /\ \A i \in 1..Len(Grown(t, n).stamps) :
           Grown(t, n).stamps[i] = IF i <= Len(t.stamps) THEN t.stamps[i] ELSE 0
  BY GrownTracker
<1>3. CASE id < Len(Grown(t, n).stamps)
  <2>1. Grown(t, n).stamps[id + 1] = IF id + 1 <= Len(t.stamps) THEN t.stamps[id + 1] ELSE 0
    BY <1>1, <1>2, <1>3
  <2>2. id + 1 <= Len(t.stamps) <=> id < Len(t.stamps)
    BY <1>1
  <2>3. QED
    BY <1>3, <2>1, <2>2 DEF Stamp
<1>4. CASE ~(id < Len(Grown(t, n).stamps))
  <2>1. ~(id < Len(t.stamps))
    BY <1>1, <1>2, <1>4
  <2>2. QED
    BY <1>4, <2>1 DEF Stamp
<1>5. QED
  BY <1>3, <1>4

\* The tracker visit looks a node up in.
LEMMA FitsTracker ==
  ASSUME NEW t \in Tracker, Clean(t), NEW id \in Nat
  PROVE  /\ Fits(t, id) \in Tracker /\ Clean(Fits(t, id))
         /\ Fits(t, id).current = t.current
         /\ id < Len(Fits(t, id).stamps)
         /\ \A j \in Nat : Stamp(Fits(t, id), j) = Stamp(t, j)
<1>1. Len(t.stamps) \in Nat
  BY DEF Tracker
<1>2. CASE id < Len(t.stamps)
  BY <1>2 DEF Fits
<1>3. CASE ~(id < Len(t.stamps))
  <2>1. id * 2 + 1 \in Nat /\ id < id * 2 + 1
    OBVIOUS
  <2>2. Fits(t, id) = Grown(t, id * 2 + 1)
    BY <1>3 DEF Fits
  <2>3. /\ Grown(t, id * 2 + 1) \in Tracker /\ Clean(Grown(t, id * 2 + 1))
        /\ Grown(t, id * 2 + 1).current = t.current
        /\ Len(Grown(t, id * 2 + 1).stamps)
             = IF Len(t.stamps) < id * 2 + 1 THEN id * 2 + 1 ELSE Len(t.stamps)
    BY <2>1, GrownTracker
  <2>4. \A j \in Nat : Stamp(Grown(t, id * 2 + 1), j) = Stamp(t, j)
    BY <2>1, GrownStamp
  <2>5. id < Len(Grown(t, id * 2 + 1).stamps)
    BY <1>1, <1>3, <2>1, <2>3
  <2>6. QED
    BY <2>2, <2>3, <2>4, <2>5
<1>4. QED
  BY <1>2, <1>3

LEMMA FreshByStamp ==
  ASSUME NEW t \in Tracker, Clean(t), NEW id \in Nat
  PROVE  IsFresh(t, id) <=> Stamp(t, id) # t.current
<1>1. Stamp(Fits(t, id), id) = Stamp(t, id) /\ id < Len(Fits(t, id).stamps)
  BY FitsTracker
<1>2. Stamp(Fits(t, id), id) = Fits(t, id).stamps[id + 1]
  BY <1>1 DEF Stamp
<1>3. QED
  BY <1>1, <1>2 DEF IsFresh

\* Every node is fresh once a generation has begun.
LEMMA BeganFresh ==
  ASSUME NEW t \in Tracker, Clean(t), NEW id \in Nat
  PROVE  IsFresh(Began(t), id)
<1>1. /\ Began(t) \in Tracker /\ Clean(Began(t))
      /\ \A i \in 1..Len(Began(t).stamps) : Began(t).stamps[i] # Began(t).current
  BY BeganTracker
<1>2. Len(Began(t).stamps) \in Nat /\ Began(t).current \in 1..MaxStamp
  BY <1>1 DEF Tracker
<1>3. Stamp(Began(t), id) # Began(t).current
  <2>1. CASE id < Len(Began(t).stamps)
    <3>1. id + 1 \in 1..Len(Began(t).stamps)
      BY <1>2, <2>1
    <3>2. QED
      BY <1>1, <2>1, <3>1 DEF Stamp
  <2>2. CASE ~(id < Len(Began(t).stamps))
    BY <1>2, <2>2 DEF Stamp
  <2>3. QED
    BY <2>1, <2>2
<1>4. QED
  BY <1>1, <1>3, FreshByStamp

\* Marking a node makes that node, and no other, visited.
LEMMA MarkedTracker ==
  ASSUME NEW t \in Tracker, Clean(t), NEW id \in Nat
  PROVE  /\ Marked(t, id) \in Tracker /\ Clean(Marked(t, id))
         /\ \A j \in Nat : IsFresh(Marked(t, id), j) <=> j # id /\ IsFresh(t, j)
<1> DEFINE s == Fits(t, id).stamps
           r == [s EXCEPT ![id + 1] = t.current]
<1>1. /\ Fits(t, id) \in Tracker /\ Clean(Fits(t, id))
      /\ Fits(t, id).current = t.current
      /\ id < Len(s)
      /\ \A j \in Nat : Stamp(Fits(t, id), j) = Stamp(t, j)
  BY FitsTracker
<1>2. t.current \in 1..MaxStamp /\ s \in Seq(0..MaxStamp) /\ Len(s) \in Nat
  BY <1>1 DEF Tracker
<1>3. r \in Seq(0..MaxStamp) /\ Len(r) = Len(s)
      /\ \A i \in 1..Len(s) : r[i] = IF i = id + 1 THEN t.current ELSE s[i]
  <2>1. t.current \in 0..MaxStamp
    BY <1>2, WorkspaceAssumption
  <2>2. id + 1 \in 1..Len(s)
    BY <1>1, <1>2
  <2> HIDE DEF s
  <2>3. QED
    BY <1>2, <2>1, <2>2, Updated
<1>4. Marked(t, id) = [stamps |-> r, current |-> t.current]
  BY DEF Marked
<1>5. /\ Marked(t, id) \in Tracker
      /\ Marked(t, id).stamps = r /\ Marked(t, id).current = t.current
  BY <1>2, <1>3, <1>4 DEF Tracker
<1>6. Clean(Marked(t, id))
  <2>1. SUFFICES ASSUME NEW i \in 1..Len(s) PROVE r[i] <= t.current
    BY <1>3, <1>5 DEF Clean
  <2>2. s[i] <= t.current
    BY <1>1 DEF Clean
  <2>3. QED
    BY <1>2, <1>3, <2>2
<1>7. ASSUME NEW j \in Nat
      PROVE  IsFresh(Marked(t, id), j) <=> j # id /\ IsFresh(t, j)
  <2>1. IsFresh(Marked(t, id), j) <=> Stamp(Marked(t, id), j) # t.current
    BY <1>5, <1>6, FreshByStamp
  <2>2. IsFresh(t, j) <=> Stamp(t, j) # t.current
    BY FreshByStamp
  <2>3. Stamp(Marked(t, id), j) = IF j < Len(s) THEN r[j + 1] ELSE 0
    BY <1>3, <1>5 DEF Stamp
  <2>4. Stamp(t, j) = IF j < Len(s) THEN s[j + 1] ELSE 0
    BY <1>1 DEF Stamp
  <2>5. j < Len(s) => r[j + 1] = IF j = id THEN t.current ELSE s[j + 1]
    BY <1>2, <1>3
  <2>6. QED
    BY <1>1, <2>1, <2>2, <2>3, <2>4, <2>5
<1>8. QED
  BY <1>5, <1>6, <1>7

-----------------------------------------------------------------------------
(* The inductive invariant: that no tracker, in use or not, holds a stamp  *)
(* of a generation to come is what makes a new generation fresh.           *)

AllClean ==
  /\ Clean(shared)
  /\ \A d \in 1..Len(stack) : Clean(stack[d].own)

IInv == TypeOK /\ AllClean /\ OneHolder /\ VisitIsExact

LEMMA FrameFields ==
  ASSUME TypeOK, NEW d \in 1..Len(stack)
  PROVE  /\ stack[d] \in Frame /\ stack[d].own \in Tracker
         /\ stack[d].holdsShared \in BOOLEAN /\ stack[d].seen \in SUBSET Id
         /\ TrackerOf(stack[d]) \in Tracker
<1>1. stack[d] \in Frame
  BY ElementOf DEF TypeOK
<1>2. QED
  BY <1>1 DEF Frame, TrackerOf, TypeOK

LEMMA StackDomain ==
  ASSUME TypeOK
  PROVE  DOMAIN stack = 1..Len(stack) /\ Len(stack) \in Nat
  BY DEF TypeOK

LEMMA IdIsNat == Id \subseteq Nat
  BY WorkspaceAssumption DEF Id

LEMMA InitInvariant == Init => IInv
<1> SUFFICES ASSUME Init PROVE IInv
  OBVIOUS
<1>1. TypeOK
  <2>1. shared \in Tracker
    BY NewTrackerClean DEF Init
  <2>2. borrowed \in BOOLEAN
    BY DEF Init
  <2>3. stack \in Seq(Frame)
    BY DEF Init
  <2>4. QED
    BY <2>1, <2>2, <2>3 DEF TypeOK
<1>2. AllClean /\ OneHolder /\ VisitIsExact
  BY <1>1, NewTrackerClean DEF Init, AllClean, OneHolder, VisitIsExact
<1>3. QED
  BY <1>1, <1>2 DEF IInv

\* A step of the innermost search that keeps its answers exact disturbs no
\* other search.
LEMMA UpdateTopInvariant ==
  ASSUME IInv, Depth > 0, NEW t \in Tracker, Clean(t), NEW seen \in SUBSET Id,
         \A id \in Id : IsFresh(t, id) <=> id \notin seen,
         UpdateTop(t, seen)
  PROVE  IInv'
<1> DEFINE top == [holdsShared |-> Top.holdsShared,
                   own |-> IF Top.holdsShared THEN Top.own ELSE t,
                   inLayer |-> TRUE, seen |-> seen]
<1>1. /\ TypeOK /\ AllClean /\ OneHolder /\ VisitIsExact
      /\ DOMAIN stack = 1..Len(stack) /\ Len(stack) \in Nat
  BY StackDomain DEF IInv
<1>2. Len(stack) \in 1..Len(stack)
  BY <1>1 DEF Depth
<1>3. Top.own \in Tracker /\ Top.holdsShared \in BOOLEAN
  BY <1>1, <1>2, FrameFields DEF Top, Depth
<1>4. top \in Frame
  BY <1>3 DEF Frame
<1>5. stack' = [stack EXCEPT ![Len(stack)] = top]
  BY DEF UpdateTop, Depth
<1>6. /\ stack' \in Seq(Frame) /\ Len(stack') = Len(stack)
      /\ \A d \in 1..Len(stack) : stack'[d] = IF d = Len(stack) THEN top ELSE stack[d]
  <2>1. stack \in Seq(Frame)
    BY <1>1 DEF TypeOK
  <2> HIDE DEF top
  <2>2. QED
    BY <1>2, <1>4, <1>5, <2>1, Updated
<1>7. DOMAIN stack' = 1..Len(stack)
  BY <1>6
<1>8. shared' = (IF Top.holdsShared THEN t ELSE shared) /\ borrowed' = borrowed
  BY DEF UpdateTop
<1>9. TypeOK'
  BY <1>1, <1>6, <1>8 DEF TypeOK
<1>10. AllClean'
  <2>1. Clean(shared')
    BY <1>1, <1>8 DEF AllClean
  <2>2. ASSUME NEW d \in 1..Len(stack) PROVE Clean(stack'[d].own)
    <3>1. Clean(stack[d].own) /\ Clean(Top.own)
      BY <1>1, <1>2 DEF AllClean, Top, Depth
    <3>2. QED
      BY <1>6, <3>1
  <2>3. QED
    BY <1>6, <2>1, <2>2 DEF AllClean
<1>11. \A d \in 1..Len(stack) : stack'[d].holdsShared = stack[d].holdsShared
  BY <1>6 DEF Top, Depth
<1>12. OneHolder'
  BY <1>1, <1>7, <1>8, <1>11 DEF OneHolder
<1>13. VisitIsExact'
  <2>1. SUFFICES ASSUME NEW d \in 1..Len(stack), stack'[d].inLayer, NEW id \in Id
                 PROVE  IsFresh(IF stack'[d].holdsShared THEN shared' ELSE stack'[d].own, id)
                          <=> id \notin stack'[d].seen
    BY <1>7 DEF VisitIsExact, TrackerOf
  <2>2. CASE d = Len(stack)
    <3>1. stack'[d] = top
      BY <1>6, <2>2
    <3>2. (IF stack'[d].holdsShared THEN shared' ELSE stack'[d].own) = t
      BY <1>8, <3>1
    <3>3. stack'[d].seen = seen
      BY <3>1
    <3>4. QED
      BY <3>2, <3>3
  <2>3. CASE d # Len(stack)
    <3>1. stack'[d] = stack[d]
      BY <1>6, <2>3
    <3>2. ~(stack[d].holdsShared /\ Top.holdsShared)
      BY <1>1, <1>2, <2>3 DEF OneHolder, Top, Depth
    <3>3. IsFresh(TrackerOf(stack[d]), id) <=> id \notin stack[d].seen
      BY <1>1, <2>1, <3>1 DEF VisitIsExact
    <3>4. (IF stack'[d].holdsShared THEN shared' ELSE stack'[d].own) = TrackerOf(stack[d])
      BY <1>8, <3>1, <3>2 DEF TrackerOf
    <3>5. QED
      BY <3>1, <3>3, <3>4
  <2>4. QED
    BY <2>2, <2>3
<1>14. QED
  BY <1>9, <1>10, <1>12, <1>13 DEF IInv

LEMMA TopTracker ==
  ASSUME IInv, Depth > 0
  PROVE  /\ TrackerOf(Top) \in Tracker /\ Clean(TrackerOf(Top))
         /\ Top.seen \in SUBSET Id /\ Depth \in DOMAIN stack
<1>1. Len(stack) \in 1..Len(stack) /\ DOMAIN stack = 1..Len(stack)
  BY StackDomain DEF IInv, Depth
<1>2. Clean(TrackerOf(Top))
  BY <1>1 DEF IInv, AllClean, TrackerOf, Top, Depth
<1>3. QED
  BY <1>1, <1>2, FrameFields DEF IInv, Top, Depth

LEMMA BeginLayerInvariant == ASSUME IInv, BeginLayer PROVE IInv'
<1>1. Depth > 0 /\ UpdateTop(Began(TrackerOf(Top)), {})
  BY DEF BeginLayer
<1>2. TrackerOf(Top) \in Tracker /\ Clean(TrackerOf(Top))
  BY <1>1, TopTracker
<1>3. Began(TrackerOf(Top)) \in Tracker /\ Clean(Began(TrackerOf(Top)))
  BY <1>2, BeganTracker
<1>4. \A id \in Id : IsFresh(Began(TrackerOf(Top)), id) <=> id \notin {}
  BY <1>2, BeganFresh, IdIsNat
<1>5. QED
  BY <1>1, <1>3, <1>4, UpdateTopInvariant

LEMMA VisitInvariant == ASSUME IInv, Visit PROVE IInv'
<1>1. Depth > 0 /\ Top.inLayer
  BY DEF Visit
<1>2. PICK id \in Id : UpdateTop(Marked(TrackerOf(Top), id), Top.seen \union {id})
  BY DEF Visit
<1>3. /\ TrackerOf(Top) \in Tracker /\ Clean(TrackerOf(Top))
      /\ Top.seen \in SUBSET Id /\ Depth \in DOMAIN stack
  BY <1>1, TopTracker
<1>4. /\ Marked(TrackerOf(Top), id) \in Tracker /\ Clean(Marked(TrackerOf(Top), id))
      /\ \A j \in Nat : IsFresh(Marked(TrackerOf(Top), id), j)
                        <=> j # id /\ IsFresh(TrackerOf(Top), j)
  BY <1>3, MarkedTracker, IdIsNat
<1>5. \A j \in Id : IsFresh(TrackerOf(Top), j) <=> j \notin Top.seen
  BY <1>1, <1>3 DEF IInv, VisitIsExact, Top
<1>6. \A j \in Id : IsFresh(Marked(TrackerOf(Top), id), j) <=> j \notin Top.seen \union {id}
  BY <1>4, <1>5, IdIsNat
<1>7. Top.seen \union {id} \in SUBSET Id
  BY <1>3
<1>8. QED
  BY <1>1, <1>2, <1>4, <1>6, <1>7, UpdateTopInvariant

\* A nested search finds the shared tracker taken and leaves it alone; any
\* other finds that no search under way depends on it.
LEMMA OpenInvariant == ASSUME IInv, Open PROVE IInv'
<1> DEFINE frame(n) == [holdsShared |-> Available,
                        own |-> IF Available THEN NewTracker ELSE Grown(NewTracker, n),
                        inLayer |-> FALSE, seen |-> {}]
<1>1. PICK n \in 0..(MaxId + 1) :
        /\ stack' = Append(stack, frame(n))
        /\ shared' = IF Available THEN Grown(shared, n) ELSE shared
  BY DEF Open
<1>2. /\ TypeOK /\ AllClean /\ OneHolder /\ VisitIsExact
      /\ DOMAIN stack = 1..Len(stack) /\ Len(stack) \in Nat
      /\ borrowed \in BOOLEAN /\ borrowed' = TRUE
  BY StackDomain DEF IInv, TypeOK, Open
<1>3. n \in Nat
  BY WorkspaceAssumption
<1>4. /\ Grown(NewTracker, n) \in Tracker /\ Clean(Grown(NewTracker, n))
      /\ Grown(shared, n) \in Tracker /\ Clean(Grown(shared, n))
  BY <1>2, <1>3, NewTrackerClean, GrownTracker DEF TypeOK, AllClean
<1>5. /\ frame(n).own \in Tracker /\ Clean(frame(n).own)
      /\ frame(n).holdsShared = ~borrowed /\ ~frame(n).inLayer
  BY <1>4, NewTrackerClean DEF Available
<1>6. frame(n) \in Frame
  <2>1. Available \in BOOLEAN /\ {} \in SUBSET Id
    BY DEF Available
  <2>2. QED
    BY <1>5, <2>1 DEF Frame
<1> HIDE DEF frame
<1>7. stack \in Seq(Frame)
  BY <1>2 DEF TypeOK
<1>8. /\ stack' \in Seq(Frame) /\ Len(stack') = Len(stack) + 1
      /\ DOMAIN stack' = 1..(Len(stack) + 1)
      /\ stack'[Len(stack) + 1] = frame(n)
      /\ \A d \in 1..Len(stack) : stack'[d] = stack[d]
  BY <1>1, <1>6, <1>7
<1>9. TypeOK'
  <2>1. shared' \in Tracker
    BY <1>1, <1>2, <1>4 DEF TypeOK
  <2>2. borrowed' \in BOOLEAN
    BY <1>2
  <2>3. QED
    BY <1>8, <2>1, <2>2 DEF TypeOK
<1>10. AllClean'
  <2>1. Clean(shared')
    BY <1>1, <1>2, <1>4 DEF AllClean
  <2>2. ASSUME NEW d \in 1..(Len(stack) + 1) PROVE Clean(stack'[d].own)
    <3>1. CASE d = Len(stack) + 1
      BY <1>5, <1>8, <3>1
    <3>2. CASE d # Len(stack) + 1
      <4>1. d \in 1..Len(stack)
        BY <1>2, <3>2
      <4>2. QED
        BY <1>2, <1>8, <4>1 DEF AllClean
    <3>3. QED
      BY <3>1, <3>2
  <2>3. QED
    BY <1>8, <2>1, <2>2 DEF AllClean
<1>11. \A d \in 1..(Len(stack) + 1) : d = Len(stack) + 1 \/ d \in 1..Len(stack)
  BY <1>2
<1>12. borrowed <=> \E d \in 1..Len(stack) : stack[d].holdsShared
  BY <1>2 DEF OneHolder
<1>13. Len(stack) + 1 \in 1..(Len(stack) + 1) /\ 1..Len(stack) \subseteq 1..(Len(stack) + 1)
  BY <1>2
<1>14. OneHolder'
  <2>1. ASSUME NEW d \in 1..(Len(stack) + 1), NEW e \in 1..(Len(stack) + 1),
               stack'[d].holdsShared, stack'[e].holdsShared
        PROVE  d = e
    <3>1. CASE d \in 1..Len(stack) /\ e \in 1..Len(stack)
      BY <1>2, <1>8, <2>1, <3>1 DEF OneHolder
    <3>2. CASE d \in 1..Len(stack) /\ e = Len(stack) + 1
      BY <1>5, <1>8, <1>12, <2>1, <3>2
    <3>3. CASE d = Len(stack) + 1 /\ e \in 1..Len(stack)
      BY <1>5, <1>8, <1>12, <2>1, <3>3
    <3>4. QED
      BY <1>11, <3>1, <3>2, <3>3
  <2>2. \E d \in 1..(Len(stack) + 1) : stack'[d].holdsShared
    <3>1. CASE borrowed
      BY <1>8, <1>12, <1>13, <3>1
    <3>2. CASE ~borrowed
      BY <1>5, <1>8, <1>13, <3>2
    <3>3. QED
      BY <3>1, <3>2
  <2>3. QED
    BY <1>2, <1>8, <2>1, <2>2 DEF OneHolder
<1>15. VisitIsExact'
  <2>1. SUFFICES ASSUME NEW d \in 1..(Len(stack) + 1), stack'[d].inLayer, NEW id \in Id
                 PROVE  IsFresh(IF stack'[d].holdsShared THEN shared' ELSE stack'[d].own, id)
                          <=> id \notin stack'[d].seen
    BY <1>8 DEF VisitIsExact, TrackerOf
  <2>2. d \in 1..Len(stack) /\ stack'[d] = stack[d]
    BY <1>5, <1>8, <1>11, <2>1
  <2>3. IsFresh(TrackerOf(stack[d]), id) <=> id \notin stack[d].seen
    BY <1>2, <2>1, <2>2 DEF VisitIsExact
  <2>4. stack[d].holdsShared => shared' = shared
    BY <1>1, <1>12, <2>2 DEF Available
  <2>5. QED
    BY <2>2, <2>3, <2>4 DEF TrackerOf
<1>16. QED
  BY <1>9, <1>10, <1>14, <1>15 DEF IInv

LEMMA CloseInvariant == ASSUME IInv, Close PROVE IInv'
<1>1. /\ TypeOK /\ AllClean /\ OneHolder /\ VisitIsExact
      /\ DOMAIN stack = 1..Len(stack) /\ Len(stack) \in Nat /\ Len(stack) > 0
      /\ shared' = shared
  BY StackDomain DEF IInv, Close, Depth
<1>2. stack' = SubSeq(stack, 1, Len(stack) - 1)
  BY DEF Close, Depth
<1>3. borrowed' = IF stack[Len(stack)].holdsShared THEN FALSE ELSE borrowed
  BY DEF Close, Top, Depth
<1>4. stack \in Seq(Frame)
  BY <1>1 DEF TypeOK
<1>5. /\ stack' \in Seq(Frame) /\ Len(stack') = Len(stack) - 1
      /\ DOMAIN stack' = 1..(Len(stack) - 1)
      /\ \A d \in 1..(Len(stack) - 1) : stack'[d] = stack[d]
  BY <1>1, <1>2, <1>4
<1>6. /\ 1..(Len(stack) - 1) \subseteq 1..Len(stack) /\ Len(stack) \in 1..Len(stack)
      /\ \A d \in 1..Len(stack) : d = Len(stack) \/ d \in 1..(Len(stack) - 1)
      /\ Len(stack) \notin 1..(Len(stack) - 1)
  <2>1. ASSUME NEW n \in Nat, n > 0
        PROVE  /\ 1..(n - 1) \subseteq 1..n /\ n \in 1..n
               /\ \A d \in 1..n : d = n \/ d \in 1..(n - 1)
               /\ n \notin 1..(n - 1)
    BY <2>1
  <2>2. Len(stack) \in Nat /\ Len(stack) > 0
    BY <1>1
  <2> HIDE <1>1
  <2>3. QED
    BY <2>1, <2>2
<1>7. TypeOK'
  <2>1. borrowed \in BOOLEAN
    BY <1>1 DEF TypeOK
  <2>2. borrowed' \in BOOLEAN
    BY <1>3, <2>1
  <2>3. shared' \in Tracker
    BY <1>1 DEF TypeOK
  <2>4. QED
    BY <1>5, <2>2, <2>3 DEF TypeOK
<1>8. AllClean'
  <2>1. Clean(shared')
    BY <1>1 DEF AllClean
  <2>2. \A d \in 1..(Len(stack) - 1) : Clean(stack'[d].own)
    BY <1>1, <1>5, <1>6 DEF AllClean
  <2>3. QED
    BY <1>5, <2>1, <2>2 DEF AllClean
<1>9. /\ \A d, e \in 1..Len(stack) :
           stack[d].holdsShared /\ stack[e].holdsShared => d = e
      /\ borrowed <=> \E d \in 1..Len(stack) : stack[d].holdsShared
  BY <1>1 DEF OneHolder
<1>10. OneHolder'
  <2>1. \A d, e \in 1..(Len(stack) - 1) :
          stack'[d].holdsShared /\ stack'[e].holdsShared => d = e
    BY <1>5, <1>6, <1>9
  <2>2. borrowed' <=> \E d \in 1..(Len(stack) - 1) : stack'[d].holdsShared
    <3>1. CASE stack[Len(stack)].holdsShared
      BY <1>3, <1>5, <1>6, <1>9, <3>1
    <3>2. CASE ~stack[Len(stack)].holdsShared
      BY <1>3, <1>5, <1>6, <1>9, <3>2
    <3>3. QED
      BY <3>1, <3>2
  <2>3. QED
    BY <1>5, <2>1, <2>2 DEF OneHolder
<1>11. VisitIsExact'
  <2>1. \A d \in 1..(Len(stack) - 1) : stack[d].inLayer =>
          \A id \in Id : IsFresh(TrackerOf(stack[d]), id) <=> id \notin stack[d].seen
    BY <1>1, <1>6 DEF VisitIsExact
  <2>2. QED
    BY <1>1, <1>5, <2>1 DEF VisitIsExact, TrackerOf
<1>12. QED
  BY <1>7, <1>8, <1>10, <1>11 DEF IInv

LEMMA UnwindInvariant == ASSUME IInv, Unwind PROVE IInv'
<1>1. shared' = shared /\ borrowed' = FALSE /\ stack' = <<>>
  BY DEF Unwind
<1>2. shared' \in Tracker /\ Clean(shared')
  BY <1>1 DEF IInv, TypeOK, AllClean
<1>3. stack' \in Seq(Frame) /\ Len(stack') = 0 /\ DOMAIN stack' = {}
  BY <1>1
<1>4. TypeOK'
  <2>1. borrowed' \in BOOLEAN
    BY <1>1
  <2>2. QED
    BY <1>2, <1>3, <2>1 DEF TypeOK
<1>5. AllClean'
  BY <1>2, <1>3 DEF AllClean
<1>6. OneHolder' /\ VisitIsExact'
  BY <1>1, <1>3 DEF OneHolder, VisitIsExact
<1>7. QED
  BY <1>4, <1>5, <1>6 DEF IInv

LEMMA StutterInvariant == ASSUME IInv, UNCHANGED vars PROVE IInv'
<1>1. shared' = shared /\ borrowed' = borrowed /\ stack' = stack
  BY DEF vars
<1>2. QED
  BY <1>1 DEF IInv, TypeOK, AllClean, OneHolder, VisitIsExact, TrackerOf

LEMMA Invariant == Spec => []IInv
<1>1. ASSUME IInv, [Next]_vars PROVE IInv'
  BY <1>1, OpenInvariant, BeginLayerInvariant, VisitInvariant, CloseInvariant,
     UnwindInvariant, StutterInvariant DEF Next
<1>2. QED
  BY <1>1, InitInvariant, PTL DEF Spec

-----------------------------------------------------------------------------
\* Trackers and stacks keep their types; the generation is never 0.
THEOREM TypeCorrect == Spec => []TypeOK
<1>1. IInv => TypeOK
  BY DEF IInv
<1>2. QED
  BY <1>1, Invariant, PTL

\* The thread-local tracker has one holder at most, and the borrow flag says
\* whether it has one (with_query_workspace).
THEOREM OneHolderAlways == Spec => []OneHolder
<1>1. IInv => OneHolder
  BY DEF IInv
<1>2. QED
  BY <1>1, Invariant, PTL

\* A search meets every node of a layer as new once and only once, whatever
\* its thread searched before, across any number of wraps of the generation
\* counter and whatever searches callbacks start inside it.
THEOREM VisitExact == Spec => []VisitIsExact
<1>1. IInv => VisitIsExact
  BY DEF IInv
<1>2. QED
  BY <1>1, Invariant, PTL
=============================================================================
