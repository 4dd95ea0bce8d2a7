------------------------------ MODULE Watches ------------------------------
(***************************************************************************)
(* What the proofs about the controllers need to know of a watch: the      *)
(* sequence of the events that the API server has sent and the informer    *)
(* has not yet applied to its copy.                                        *)
(***************************************************************************)
EXTENDS Naturals, Sequences, SequenceTheorems, TLAPS

\* The events that are on their way.
Events(w) == {w[i] : i \in 1..Len(w)}

\* What the informer will hold when everything has arrived.
Latest(c, w) == IF w = << >> THEN c ELSE w[Len(w)]

-----------------------------------------------------------------------------
\* A write of the API server adds one event to the watch, as the latest one.
LEMMA SendEvent ==
    ASSUME NEW S, NEW w \in Seq(S), NEW x \in S
    PROVE  /\ Append(w, x) \in Seq(S)
           /\ Append(w, x) # << >>
           /\ Events(Append(w, x)) = Events(w) \cup {x}
           /\ \A c : Latest(c, Append(w, x)) = x
<1>1. Append(w, x) \in Seq(S) /\ Len(Append(w, x)) = Len(w) + 1 /\ Append(w, x)[Len(w) + 1] = x
  OBVIOUS
<1>2. \A i \in 1..Len(w) : Append(w, x)[i] = w[i]
  OBVIOUS
<1>3. Append(w, x) # << >>
  BY <1>1
<1>4. Events(Append(w, x)) = Events(w) \cup {x}
  <2>1. 1..Len(Append(w, x)) = 1..Len(w) \cup {Len(w) + 1}
    BY <1>1
  <2> QED BY <1>1, <1>2, <2>1 DEF Events
<1>5. \A c : Latest(c, Append(w, x)) = x
  BY <1>1, <1>3 DEF Latest
<1> QED BY <1>1, <1>3, <1>4, <1>5

\* An informer that applies an event takes the first one off the watch.
LEMMA TakeEvent ==
    ASSUME NEW S, NEW w \in Seq(S), w # << >>
    PROVE  /\ Head(w) \in S /\ Tail(w) \in Seq(S)
           /\ Events(w) = {Head(w)} \cup Events(Tail(w))
           /\ \A c : Latest(Head(w), Tail(w)) = Latest(c, w)
<1>1. Len(w) \in Nat /\ Len(w) >= 1 /\ Head(w) = w[1] /\ Head(w) \in S
  OBVIOUS
<1>2. Tail(w) \in Seq(S) /\ Len(Tail(w)) = Len(w) - 1
  OBVIOUS
<1>3. \A i \in 1..(Len(w) - 1) : Tail(w)[i] = w[i + 1]
  OBVIOUS
<1>4. ASSUME NEW x \in Events(w) PROVE x = Head(w) \/ x \in Events(Tail(w))
  <2>1. PICK i \in 1..Len(w) : x = w[i]
    BY DEF Events
  <2>2. CASE i = 1
    BY <1>1, <2>1, <2>2
  <2>3. CASE i # 1
    <3>1. i - 1 \in 1..(Len(w) - 1) /\ (i - 1) + 1 = i
      BY <1>1, <2>3
    <3> QED BY <1>2, <1>3, <2>1, <3>1 DEF Events
  <2> QED BY <2>2, <2>3
<1>5. ASSUME NEW x \in Events(Tail(w)) PROVE x \in Events(w)
  <2>1. PICK i \in 1..(Len(w) - 1) : x = Tail(w)[i]
    BY <1>2, Zenon DEF Events
  <2>2. x = w[i + 1] /\ i + 1 \in 1..Len(w)
    BY <1>1, <1>3, <2>1
  <2> QED BY <2>2 DEF Events
<1>6. Head(w) \in Events(w)
  BY <1>1 DEF Events
<1>7. \A c : Latest(Head(w), Tail(w)) = Latest(c, w)
  <2>0. Tail(w) = << >> <=> Len(Tail(w)) = 0
    BY <1>2, EmptySeq, Zenon
  <2>1. CASE Len(w) = 1
    BY <1>1, <1>2, <2>0, <2>1 DEF Latest
  <2>2. CASE Len(w) # 1
    <3>1. Tail(w) # << >> /\ Len(Tail(w)) \in 1..(Len(w) - 1) /\ Len(Tail(w)) + 1 = Len(w)
      BY <1>1, <1>2, <2>0, <2>2
    <3> QED BY <1>3, <3>1 DEF Latest
  <2> QED BY <2>1, <2>2
<1> QED BY <1>1, <1>2, <1>4, <1>5, <1>6, <1>7

\* An informer that has caught up, or has listed everything anew, waits for
\* nothing.
LEMMA NoEvent ==
    ASSUME NEW S
    PROVE  << >> \in Seq(S) /\ Events(<< >>) = {} /\ \A c : Latest(c, << >>) = c
BY DEF Events, Latest

\* What is on its way is of the type of the watch.
LEMMA EventType ==
    ASSUME NEW S, NEW w \in Seq(S)
    PROVE  Events(w) \subseteq S /\ (w # << >> => Latest(w[1], w) \in Events(w))
BY DEF Events, Latest

=============================================================================
