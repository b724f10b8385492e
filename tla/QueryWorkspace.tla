--------------------------- MODULE QueryWorkspace ---------------------------
(***************************************************************************)
(* The storage a thread reuses from one search to the next (src/hnsw.rs:   *)
(* VisitedTracker, SearchWorkspace, with_query_workspace).  The set of     *)
(* visited nodes is never cleared: a node is visited when its stamp is the *)
(* tracker's current generation, and the generation counter wraps.  One    *)
(* tracker serves indexes of different sizes, one after the other, and a   *)
(* distance or filter callback may start a search inside a search.         *)
(***************************************************************************)
EXTENDS Integers, Sequences

CONSTANTS MaxId,     \* bound: the largest node id
          MaxStamp,  \* u32::MAX
          MaxDepth   \* bound: searches nested in one another

ASSUME WorkspaceAssumption ==
  MaxId \in Nat /\ MaxStamp \in Nat \ {0} /\ MaxDepth \in Nat

VARIABLES shared,    \* the thread-local tracker
          borrowed,  \* RefCell: a search holds it
          stack      \* the searches under way, innermost last

vars == <<shared, borrowed, stack>>

Id == 0..MaxId

-----------------------------------------------------------------------------
(* VisitedTracker                                                          *)

\* The stamp of node id is stamps[id + 1].
NewTracker == [stamps |-> <<>>, current |-> 1]

Grown(t, n) ==
  LET size == IF Len(t.stamps) < n THEN n ELSE Len(t.stamps)
  IN  [stamps  |-> [i \in 1..size |-> IF i <= Len(t.stamps) THEN t.stamps[i] ELSE 0],
       current |-> t.current]

BeganAtZero(t) ==   \* mutant: generation 0 is used
  [stamps |-> t.stamps, current |-> (t.current + 1) % (MaxStamp + 1)]
BeganUncleared(t) ==   \* mutant: the wrap does not clear the stamps
  [stamps |-> t.stamps, current |-> IF t.current = MaxStamp THEN 1 ELSE t.current + 1]
Began(t) ==
  LET g == (t.current + 1) % (MaxStamp + 1)
  IN  IF g = 0
      THEN [stamps |-> [i \in 1..Len(t.stamps) |-> 0], current |-> 1]
      ELSE [stamps |-> t.stamps, current |-> g]

\* visit: grow first when the id does not fit.
Fits(t, id) == IF id < Len(t.stamps) THEN t ELSE Grown(t, id * 2 + 1)
IsFresh(t, id) == Fits(t, id).stamps[id + 1] # t.current
Marked(t, id) ==
  [stamps  |-> [Fits(t, id).stamps EXCEPT ![id + 1] = t.current],
   current |-> t.current]

-----------------------------------------------------------------------------
(* Searches.  A frame holds its own tracker unless it holds the shared     *)
(* one; `seen` is what it has visited in its current layer.                *)

Depth == Len(stack)
Top == stack[Depth]

TrackerOf(f) == IF f.holdsShared THEN shared ELSE f.own

\* Replace the tracker and the seen set of the innermost search.
UpdateTop(t, seen) ==
  /\ shared' = IF Top.holdsShared THEN t ELSE shared
  /\ stack' = [stack EXCEPT ![Depth] =
                 [holdsShared |-> Top.holdsShared,
                  own |-> IF Top.holdsShared THEN Top.own ELSE t,
                  inLayer |-> TRUE, seen |-> seen]]
  /\ UNCHANGED borrowed

\* try_borrow_mut.
AlwaysAvailable == TRUE   \* mutant: a nested search is given the shared tracker
Available == ~borrowed

\* A search is called, by the thread or by a callback of the innermost one:
\* it prepares a tracker for an index of n nodes.
Open ==
  /\ Depth < MaxDepth
  /\ \E n \in 0..(MaxId + 1) :
       LET frame == [holdsShared |-> Available,
                     own |-> IF Available THEN NewTracker ELSE Grown(NewTracker, n),
                     inLayer |-> FALSE, seen |-> {}]
       IN  /\ stack' = Append(stack, frame)
           /\ shared' = IF Available THEN Grown(shared, n) ELSE shared
  /\ borrowed' = TRUE

\* The innermost search starts a layer.
BeginLayer == Depth > 0 /\ UpdateTop(Began(TrackerOf(Top)), {})

\* It comes across a node.
Visit ==
  /\ Depth > 0
  /\ Top.inLayer
  /\ \E id \in Id : UpdateTop(Marked(TrackerOf(Top), id), Top.seen \union {id})

\* It returns; the shared tracker is released by the search that held it.
Close ==
  /\ Depth > 0
  /\ stack' = SubSeq(stack, 1, Depth - 1)
  /\ borrowed' = IF Top.holdsShared THEN FALSE ELSE borrowed
  /\ UNCHANGED shared

\* A callback panics: every search is unwound and the borrow dropped.
Unwind ==
  /\ Depth > 0
  /\ stack' = <<>>
  /\ borrowed' = FALSE
  /\ UNCHANGED shared

Init == shared = NewTracker /\ borrowed = FALSE /\ stack = <<>>

Next == Open \/ BeginLayer \/ Visit \/ Close \/ Unwind

Spec == Init /\ [][Next]_vars

-----------------------------------------------------------------------------
Tracker == [stamps : Seq(0..MaxStamp), current : 1..MaxStamp]
Frame == [holdsShared : BOOLEAN, own : Tracker, inLayer : BOOLEAN, seen : SUBSET Id]

\* Every tracker has stamps and a generation of the machine's width; the
\* generation is never 0, the stamp of a node that was never visited.
TypeOK ==
  /\ shared \in Tracker
  /\ borrowed \in BOOLEAN
  /\ stack \in Seq(Frame)

\* visit answers "not yet" exactly for the nodes this search has not met in
\* this layer, for every search under way, whatever earlier searches left in
\* the tracker, however often the generation has wrapped and whichever
\* searches run inside this one.
VisitIsExact ==
  \A d \in DOMAIN stack : stack[d].inLayer =>
    \A id \in Id : IsFresh(TrackerOf(stack[d]), id) <=> id \notin stack[d].seen

\* The shared tracker has one holder at most, and the flag tells.
OneHolder ==
  /\ \A d, e \in DOMAIN stack :
       stack[d].holdsShared /\ stack[e].holdsShared => d = e
  /\ borrowed <=> \E d \in DOMAIN stack : stack[d].holdsShared
=============================================================================
