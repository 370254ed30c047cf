------------------------ MODULE PipelineResourceProofs -------------------------
(***************************************************************************)
(* Proofs that InferencePipeline loses and duplicates no resource: every   *)
(* live lease of the broker lies in exactly one place (the captured or the *)
(* video queue, what is being dispatched, or what one thread is about to   *)
(* release), and every slot of the device in at most one, its free queue   *)
(* included, and in one unless there is an excuse: StartCamera is still to *)
(* come, the free queue is stopped, or a stage threw.  The invariant is    *)
(* about the lists of steps still to be taken, the jobs in hand and the    *)
(* queues; Inv of PipelineProofs is known to hold.                         *)
(***************************************************************************)
EXTENDS PipelineFlowProofs

--------------------------------------------------------------------------------
(* Every lease and every slot has one place                                 *)

\* P gives what lies in each place, oldest first.  Nothing lies in two places, nor twice
\* in one; x lies in some place.
Single(P) ==
    \A a, b \in DOMAIN P : \A i \in DOMAIN P[a], j \in DOMAIN P[b] :
        P[a][i] = P[b][j] => a = b /\ i = j
Lies(P, x) == \E a \in DOMAIN P : \E i \in DOMAIN P[a] : P[a][i] = x

\* At most one step of S is left.
Once(s, S) == \A i, j \in DOMAIN s : s[i] \in S /\ s[j] \in S => i = j

\* The steps at which a stage has an input slot, an output slot; at which a thread has
\* leases to release; and the steps that end a stage's list.
Carriers == {"preprocess", "npu", "postprocess"}
InputSteps == {"frame", "process", "push_prepared", "output", "run", "return_input"}
OutputSteps == {"run", "push_completed", "post", "return_output"}
ReleaseSteps == {"dispose", "process", "encode"}
LastSteps == {"slot", "frame", "process", "push_prepared", "prepared", "output", "run",
              "push_completed", "post", "publish_result", "completed"}

\* A list with one step at most that passes a slot on or gives it back.
Tidy(s) == Once(s, InputSteps) /\ Once(s, OutputSteps) /\ Last(s, LastSteps)

\* A stage has a slot where it will pass it on or give it back, and only there; the other
\* threads have none.  A job in a stage queue has the slot that the next stage needs.
HasSlots(t) ==
    /\ job[t].in # 0 <=> Has(pc[t], InputSteps)
    /\ job[t].out # 0 <=> Has(pc[t], OutputSteps)
SlotsInHand == \A t \in Carriers : Tidy(pc[t]) /\ HasSlots(t)
NoSlots ==
    \A t \in Threads \ Carriers :
        /\ ~Has(pc[t], {"return_input", "return_output"})
        /\ job[t].in = 0 /\ job[t].out = 0
JobsFed ==
    /\ \A i \in DOMAIN queue["prepared"].items :
           queue["prepared"].items[i].in # 0 /\ queue["prepared"].items[i].out = 0
    /\ \A i \in DOMAIN queue["completed"].items :
           queue["completed"].items[i].in = 0 /\ queue["completed"].items[i].out # 0

\* Where the slots are.
SlotHeld(n) == IF n = 0 THEN <<>> ELSE <<n>>
InputsOf(s) == [i \in DOMAIN s |-> s[i].in]
OutputsOf(s) == [i \in DOMAIN s |-> s[i].out]
SlotsAt(free, waiting, items, slots, held) == [p \in Threads \cup {free, waiting} |->
    IF p = free THEN items ELSE IF p = waiting THEN slots ELSE SlotHeld(held[p])]
InputsHeld == [t \in Threads |-> job[t].in]
OutputsHeld == [t \in Threads |-> job[t].out]
InputAt == SlotsAt("freeIn", "prepared", queue["freeIn"].items,
                   InputsOf(queue["prepared"].items), InputsHeld)
OutputAt == SlotsAt("freeOut", "completed", queue["freeOut"].items,
                    OutputsOf(queue["completed"].items), OutputsHeld)

\* They are the slots there are; none is missing without an excuse.
Excused(free) ==
    \/ pc["main"] = <<"start">>
    \/ queue[free].stopped
    \/ faults \cap {"preprocessThrows", "runThrows"} # {}
Accounted(P, all, free) ==
    /\ Single(P)
    /\ \A p \in DOMAIN P : \A i \in DOMAIN P[p] : P[p][i] \in all
    /\ Excused(free) \/ \A x \in all : Lies(P, x)

\* The capture thread has a frame to hand on between its publication and the last push;
\* a thread has leases to release where it is about to release them, and only there.
Dispatching ==
    dispatch # <<>> =>
        \/ pc["capture"] = <<"push_captured">> /\ "capture" \notin notifying
        \/ EnableVideo /\ pc["capture"] \in {<<"push_video">>, <<"dispose", "push_video">>}
Releases(t) ==
    /\ First(pc[t], ReleaseSteps)
    /\ disposing[t] # <<>> <=> Has(pc[t], ReleaseSteps)
    /\ Has(pc[t], {"process", "encode"}) => Len(disposing[t]) = 1
Releasing == \A t \in Threads : Releases(t)

\* Where the leases are.
LeaseAt == [p \in Threads \cup {"captured", "videoQueue", "dispatched"} |->
    IF p = "captured" THEN queue["captured"].items
    ELSE IF p = "videoQueue" THEN queue["video"].items
    ELSE IF p = "dispatched" THEN DispatchedLeases
    ELSE disposing[p]]
LeasesPlaced ==
    /\ Single(LeaseAt)
    /\ \A p \in DOMAIN LeaseAt : \A i \in DOMAIN LeaseAt[p] : LeaseAt[p][i] \in live
    /\ \A l \in live : Lies(LeaseAt, l)

BeforeStart ==
    pc["main"] = <<"start">> => \A q \in Queues : queue[q].items = <<>>

ResourceInv ==
    /\ SlotsInHand /\ NoSlots /\ JobsFed /\ Dispatching /\ Releasing /\ BeforeStart
    /\ Accounted(InputAt, InSlots, "freeIn")
    /\ Accounted(OutputAt, OutSlots, "freeOut")
    /\ LeasesPlaced

\* The head of one place becomes the newest of another.
Moved(P, Q, a, b) ==
    /\ P[a] # <<>>
    /\ Q[a] = Tail(P[a]) /\ Q[b] = Append(P[b], Head(P[a]))
    /\ \A c \in DOMAIN P \ {a, b} : Q[c] = P[c]

\* The head of a place goes; a place gets one more.
Dropped(P, Q, a) ==
    /\ P[a] # <<>> /\ Q[a] = Tail(P[a])
    /\ \A c \in DOMAIN P \ {a} : Q[c] = P[c]
Gained(P, Q, a, x) ==
    /\ Q[a] = Append(P[a], x)
    /\ \A c \in DOMAIN P \ {a} : Q[c] = P[c]

\* Nothing moves but the head, so everything still lies in one place.
LEMMA PlaceMoved ==
    ASSUME NEW N, NEW V, NEW P \in [N -> Seq(V)], NEW Q \in [N -> Seq(V)],
           NEW a \in N, NEW b \in N, a # b, Moved(P, Q, a, b), Single(P)
    PROVE  Single(Q) /\ \A x : Lies(Q, x) <=> Lies(P, x)
<1> DEFINE from(c, i) == IF c = a \/ (c = b /\ i = Len(P[b]) + 1) THEN a ELSE c
           at(c, i) == IF c = a THEN i + 1
                       ELSE IF c = b /\ i = Len(P[b]) + 1 THEN 1 ELSE i
<1>0. /\ DOMAIN P = N /\ DOMAIN Q = N
      /\ \A c \in N : /\ DOMAIN P[c] = 1..Len(P[c]) /\ Len(P[c]) \in Nat
                      /\ DOMAIN Q[c] = 1..Len(Q[c]) /\ Len(Q[c]) \in Nat
  OBVIOUS
<1>1. /\ Len(P[a]) > 0 /\ Len(Q[a]) = Len(P[a]) - 1
      /\ \A i \in 1..(Len(P[a]) - 1) : Q[a][i] = P[a][i + 1]
      /\ Len(Q[b]) = Len(P[b]) + 1 /\ Q[b][Len(P[b]) + 1] = P[a][1]
      /\ \A i \in 1..Len(P[b]) : Q[b][i] = P[b][i]
  <2>1. P[a] \in Seq(V) /\ P[a] # <<>> /\ P[b] \in Seq(V)  BY DEF Moved
  <2>2. Head(P[a]) \in V /\ Head(P[a]) = P[a][1]  BY <2>1
  <2> DEFINE s == P[a]
             r == P[b]
             h == Head(P[a])
  <2>3. /\ Len(s) > 0 /\ Len(Tail(s)) = Len(s) - 1
        /\ \A i \in 1..(Len(s) - 1) : Tail(s)[i] = s[i + 1]
    BY <2>1
  <2>4. /\ Len(Append(r, h)) = Len(r) + 1 /\ Append(r, h)[Len(r) + 1] = h
        /\ \A i \in 1..Len(r) : Append(r, h)[i] = r[i]
    BY <2>1, <2>2
  <2> QED BY <2>2, <2>3, <2>4 DEF Moved
<1>2. \A c \in N \ {a, b} : Q[c] = P[c]  BY <1>0 DEF Moved
<1>3. ASSUME NEW c \in N, NEW i \in DOMAIN Q[c]
      PROVE  /\ from(c, i) \in N /\ at(c, i) \in DOMAIN P[from(c, i)]
             /\ P[from(c, i)][at(c, i)] = Q[c][i]
  BY <1>0, <1>1, <1>2
<1>4. ASSUME NEW c \in N, NEW i \in DOMAIN Q[c], NEW d \in N, NEW j \in DOMAIN Q[d],
             from(c, i) = from(d, j), at(c, i) = at(d, j)
      PROVE  c = d /\ i = j
  BY <1>0, <1>1, <1>2, <1>4
<1>5. ASSUME NEW c \in N, NEW i \in DOMAIN P[c]
      PROVE  \E d \in N : \E j \in DOMAIN Q[d] : Q[d][j] = P[c][i]
  <2>1. CASE c = a /\ i = 1
    <3>1. Len(P[b]) + 1 \in DOMAIN Q[b]  BY <1>0, <1>1
    <3> QED BY <1>1, <2>1, <3>1
  <2>2. CASE c = a /\ i # 1
    <3>1. i - 1 \in DOMAIN Q[a] /\ i - 1 \in 1..(Len(P[a]) - 1) /\ (i - 1) + 1 = i
      BY <1>0, <1>1, <2>2
    <3> QED BY <1>1, <2>2, <3>1
  <2>3. CASE c = b
    <3>1. i \in 1..Len(P[b]) /\ i \in DOMAIN Q[b]  BY <1>0, <1>1, <2>3
    <3> QED BY <1>1, <2>3, <3>1
  <2>4. CASE c # a /\ c # b
    <3>1. Q[c] = P[c]  BY <1>2, <2>4
    <3> QED BY <3>1
  <2> QED BY <2>1, <2>2, <2>3, <2>4
<1> HIDE DEF from, at
<1>6. Single(Q)
  <2> SUFFICES ASSUME NEW c \in N, NEW d \in N, NEW i \in DOMAIN Q[c], NEW j \in DOMAIN Q[d],
                      Q[c][i] = Q[d][j]
               PROVE  c = d /\ i = j
    BY <1>0 DEF Single
  <2>1. /\ from(c, i) \in N /\ at(c, i) \in DOMAIN P[from(c, i)]
        /\ from(d, j) \in N /\ at(d, j) \in DOMAIN P[from(d, j)]
        /\ P[from(c, i)][at(c, i)] = P[from(d, j)][at(d, j)]
    BY <1>3
  <2>2. from(c, i) = from(d, j) /\ at(c, i) = at(d, j)  BY <1>0, <2>1 DEF Single
  <2> QED BY <1>4, <2>2
<1>7. ASSUME NEW x PROVE Lies(Q, x) <=> Lies(P, x)  BY <1>0, <1>3, <1>5 DEF Lies
<1> QED BY <1>6, <1>7

\* The head of a place, and only that, is gone.
LEMMA PlaceDropped ==
    ASSUME NEW N, NEW V, NEW P \in [N -> Seq(V)], NEW Q \in [N -> Seq(V)],
           NEW a \in N, Dropped(P, Q, a), Single(P)
    PROVE  Single(Q) /\ \A x : Lies(Q, x) <=> Lies(P, x) /\ x # Head(P[a])
<1> DEFINE at(c, i) == IF c = a THEN i + 1 ELSE i
<1>0. /\ DOMAIN P = N /\ DOMAIN Q = N
      /\ \A c \in N : /\ DOMAIN P[c] = 1..Len(P[c]) /\ Len(P[c]) \in Nat
                      /\ DOMAIN Q[c] = 1..Len(Q[c]) /\ Len(Q[c]) \in Nat
  OBVIOUS
<1>1. /\ Len(P[a]) > 0 /\ Len(Q[a]) = Len(P[a]) - 1 /\ Head(P[a]) = P[a][1]
      /\ \A i \in 1..(Len(P[a]) - 1) : Q[a][i] = P[a][i + 1]
  BY DEF Dropped
<1>2. \A c \in N \ {a} : Q[c] = P[c]  BY <1>0 DEF Dropped
<1>3. ASSUME NEW c \in N, NEW i \in DOMAIN Q[c]
      PROVE  /\ at(c, i) \in DOMAIN P[c] /\ P[c][at(c, i)] = Q[c][i]
             /\ ~(c = a /\ at(c, i) = 1)
  BY <1>0, <1>1, <1>2
<1>4. ASSUME NEW c \in N, NEW i \in DOMAIN Q[c], NEW j \in DOMAIN Q[c], at(c, i) = at(c, j)
      PROVE  i = j
  BY <1>0, <1>4
<1>5. ASSUME NEW c \in N, NEW i \in DOMAIN P[c], ~(c = a /\ i = 1)
      PROVE  \E j \in DOMAIN Q[c] : Q[c][j] = P[c][i]
  <2>1. CASE c = a
    <3>1. i - 1 \in DOMAIN Q[a] /\ i - 1 \in 1..(Len(P[a]) - 1) /\ (i - 1) + 1 = i
      BY <1>0, <1>1, <1>5, <2>1
    <3> QED BY <1>1, <2>1, <3>1
  <2>2. CASE c # a  BY <1>2, <2>2
  <2> QED BY <2>1, <2>2
<1> HIDE DEF at
<1>6. Single(Q)
  <2> SUFFICES ASSUME NEW c \in N, NEW d \in N, NEW i \in DOMAIN Q[c], NEW j \in DOMAIN Q[d],
                      Q[c][i] = Q[d][j]
               PROVE  c = d /\ i = j
    BY <1>0 DEF Single
  <2>1. /\ at(c, i) \in DOMAIN P[c] /\ at(d, j) \in DOMAIN P[d]
        /\ P[c][at(c, i)] = P[d][at(d, j)]
    BY <1>3
  <2>2. c = d /\ at(c, i) = at(d, j)  BY <1>0, <2>1 DEF Single
  <2> QED BY <1>4, <2>2
<1>7. ASSUME NEW x PROVE Lies(Q, x) <=> Lies(P, x) /\ x # Head(P[a])
  <2>1. ASSUME Lies(Q, x) PROVE Lies(P, x) /\ x # Head(P[a])
    <3>1. PICK c \in N : \E i \in DOMAIN Q[c] : Q[c][i] = x  BY <1>0, <2>1 DEF Lies
    <3>2. PICK i \in DOMAIN Q[c] : Q[c][i] = x  BY <3>1
    <3>3. /\ at(c, i) \in DOMAIN P[c] /\ P[c][at(c, i)] = x /\ ~(c = a /\ at(c, i) = 1)
      BY <1>3, <3>2
    <3>4. 1 \in DOMAIN P[a] /\ Head(P[a]) = P[a][1]  BY <1>0, <1>1
    <3> QED BY <1>0, <3>3, <3>4 DEF Lies, Single
  <2>2. ASSUME Lies(P, x), x # Head(P[a]) PROVE Lies(Q, x)
    <3>1. PICK c \in N : \E i \in DOMAIN P[c] : P[c][i] = x  BY <1>0, <2>2 DEF Lies
    <3>2. PICK i \in DOMAIN P[c] : P[c][i] = x  BY <3>1
    <3>3. ~(c = a /\ i = 1)  BY <1>1, <2>2, <3>2
    <3> QED BY <1>0, <1>5, <3>2, <3>3 DEF Lies
  <2> QED BY <2>1, <2>2
<1> QED BY <1>6, <1>7

\* What is new lies in one place, and the rest where it was.
LEMMA PlaceGained ==
    ASSUME NEW N, NEW V, NEW P \in [N -> Seq(V)], NEW Q \in [N -> Seq(V)],
           NEW a \in N, NEW x \in V, Gained(P, Q, a, x), Single(P), ~Lies(P, x)
    PROVE  Single(Q) /\ \A y : Lies(Q, y) <=> Lies(P, y) \/ y = x
<1>0. /\ DOMAIN P = N /\ DOMAIN Q = N
      /\ \A c \in N : /\ DOMAIN P[c] = 1..Len(P[c]) /\ Len(P[c]) \in Nat
                      /\ DOMAIN Q[c] = 1..Len(Q[c]) /\ Len(Q[c]) \in Nat
  OBVIOUS
<1> DEFINE n == Len(P[a]) + 1
<1>1. /\ Len(Q[a]) = n /\ Q[a][n] = x /\ n \in DOMAIN Q[a]
      /\ \A i \in 1..Len(P[a]) : Q[a][i] = P[a][i]
  BY DEF Gained
<1>2. \A c \in N \ {a} : Q[c] = P[c]  BY <1>0 DEF Gained
<1>3. ASSUME NEW c \in N, NEW i \in DOMAIN Q[c]
      PROVE  (c = a /\ i = n) \/ (i \in DOMAIN P[c] /\ P[c][i] = Q[c][i])
  BY <1>0, <1>1, <1>2
<1>4. ASSUME NEW c \in N, NEW i \in DOMAIN P[c]
      PROVE  i \in DOMAIN Q[c] /\ Q[c][i] = P[c][i]
  BY <1>0, <1>1, <1>2
<1> HIDE DEF n
<1>5. \A c \in N : \A i \in DOMAIN P[c] : P[c][i] # x  BY <1>0 DEF Lies
<1>6. Single(Q)
  <2> SUFFICES ASSUME NEW c \in N, NEW d \in N, NEW i \in DOMAIN Q[c], NEW j \in DOMAIN Q[d],
                      Q[c][i] = Q[d][j]
               PROVE  c = d /\ i = j
    BY <1>0 DEF Single
  <2>1. CASE c = a /\ i = n
    <3>1. Q[d][j] = x  BY <1>1, <2>1
    <3>2. d = a /\ j = n  BY <1>3, <1>5, <3>1
    <3> QED BY <2>1, <3>2
  <2>2. CASE d = a /\ j = n
    <3>1. Q[c][i] = x  BY <1>1, <2>2
    <3>2. c = a /\ i = n  BY <1>3, <1>5, <3>1
    <3> QED BY <2>2, <3>2
  <2>3. CASE ~(c = a /\ i = n) /\ ~(d = a /\ j = n)
    <3>1. i \in DOMAIN P[c] /\ P[c][i] = Q[c][i] /\ j \in DOMAIN P[d] /\ P[d][j] = Q[d][j]
      BY <1>3, <2>3
    <3> QED BY <1>0, <3>1 DEF Single
  <2> QED BY <2>1, <2>2, <2>3
<1>7. ASSUME NEW y PROVE Lies(Q, y) <=> Lies(P, y) \/ y = x
  BY <1>0, <1>1, <1>3, <1>4 DEF Lies
<1> QED BY <1>6, <1>7


\* A list of slots is never full while one of the slots lies elsewhere.
LEMMA RoomElsewhere ==
    ASSUME NEW n \in Nat, NEW N, NEW P \in [N -> Seq(Nat)], Single(P),
           \A c \in N : \A i \in DOMAIN P[c] : P[c][i] \in 1..n,
           NEW a \in N, NEW b \in N, a # b, P[b] # <<>>
    PROVE  Len(P[a]) < n
<1> DEFINE S == 1..Len(P[a])
           T == (1..n) \ {P[b][1]}
           f == [i \in S |-> P[a][i]]
<1>0. DOMAIN P = N /\ S = DOMAIN P[a] /\ Len(P[a]) \in Nat /\ 1 \in DOMAIN P[b]  OBVIOUS
<1>1. P[b][1] \in 1..n  BY <1>0
<1>2. \A m \in Nat : IsFiniteSet(1..m) /\ Cardinality(1..m) = m
  <2> SUFFICES ASSUME NEW m \in Nat PROVE IsFiniteSet(1..m) /\ Cardinality(1..m) = m
    OBVIOUS
  <2>1. IsFiniteSet(1..m) /\ Cardinality(1..m) = IF 1 > m THEN 0 ELSE m - 1 + 1
    BY FS_Interval
  <2> QED BY <2>1
<1>3. IsFiniteSet(S) /\ Cardinality(S) = Len(P[a])  BY <1>0, <1>2
<1>4. IsFiniteSet(T) /\ Cardinality(T) = n - 1
  <2> DEFINE U == 1..n
             x == P[b][1]
  <2>1. IsFiniteSet(U) /\ Cardinality(U) = n /\ x \in U  BY <1>1, <1>2
  <2> HIDE DEF U, x
  <2>2. IsFiniteSet(U \ {x}) /\ Cardinality(U \ {x}) = n - 1  BY <2>1, FS_RemoveElement
  <2> QED BY <2>2 DEF U, x
<1>5. f \in [S -> T]
  <2> SUFFICES ASSUME NEW i \in S PROVE P[a][i] \in T  OBVIOUS
  <2>1. P[a][i] \in 1..n  BY <1>0
  <2>2. P[a][i] # P[b][1]  BY <1>0 DEF Single
  <2> QED BY <2>1, <2>2
<1>6. \A i, j \in S : f[i] = f[j] => i = j  BY <1>0 DEF Single
<1> HIDE DEF S, T, f
<1>7. f \in Injection(S, T)  BY <1>5, <1>6 DEF Injection, IsInjective
<1>8. Len(P[a]) <= n - 1  BY <1>3, <1>4, <1>7, FS_Injection
<1> QED BY <1>0, <1>8

\* A set all of whose elements are equal has none or one.
LEMMA AtMostOne ==
    ASSUME NEW S, \A x, y \in S : x = y
    PROVE  /\ S = {} => Cardinality(S) = 0
           /\ S # {} => Cardinality(S) = 1
<1>1. S # {} => \E x : S = {x}  OBVIOUS
<1> QED BY <1>1, FS_EmptySet, FS_Singleton

\* Of three such sets that exclude each other at most one has an element.
LEMMA OneOfThree ==
    ASSUME NEW A, NEW B, NEW C, \A x, y \in A : x = y, \A x, y \in B : x = y,
           \A x, y \in C : x = y, A = {} \/ B = {}, A = {} \/ C = {}, B = {} \/ C = {}
    PROVE  LET n == Cardinality(A) + Cardinality(B) + Cardinality(C)
           IN  n <= 1 /\ (n = 0 => A = {} /\ B = {} /\ C = {})
<1>1. /\ (A = {} /\ Cardinality(A) = 0) \/ (A # {} /\ Cardinality(A) = 1)
      /\ (B = {} /\ Cardinality(B) = 0) \/ (B # {} /\ Cardinality(B) = 1)
      /\ (C = {} /\ Cardinality(C) = 0) \/ (C # {} /\ Cardinality(C) = 1)
  BY AtMostOne
<1> QED BY <1>1

\* Slots: what lies in single places has one holder.
LEMMA SlotCounted ==
    ASSUME NEW all, NEW s \in all, 0 \notin all, NEW items, NEW slots, NEW held,
           NEW P, NEW free, NEW waiting, free # waiting,
           DOMAIN P = Threads \cup {free, waiting}, free \notin Threads, waiting \notin Threads,
           P[free] = items, P[waiting] = slots,
           \A t \in Threads : P[t] = SlotHeld(held[t]), Single(P)
    PROVE  LET n == Cardinality({i \in DOMAIN items : items[i] = s})
                    + Cardinality({i \in DOMAIN slots : slots[i] = s})
                    + Cardinality({t \in Threads : held[t] = s})
           IN  n <= 1 /\ (n = 0 => ~Lies(P, s))
<1> DEFINE A == {i \in DOMAIN items : items[i] = s}
           B == {i \in DOMAIN slots : slots[i] = s}
           C == {t \in Threads : held[t] = s}
<1>1. \A t \in C : 1 \in DOMAIN P[t] /\ P[t][1] = s  BY DEF SlotHeld
<1>2. (\A x, y \in A : x = y) /\ (\A x, y \in B : x = y)  BY DEF Single
<1>3. \A x, y \in C : x = y  BY <1>1 DEF Single
<1>4. A = {} \/ B = {}  BY DEF Single
<1>5. (A = {} \/ C = {}) /\ (B = {} \/ C = {})  BY <1>1 DEF Single
<1>6. A = {} /\ B = {} /\ C = {} => ~Lies(P, s)
  <2> SUFFICES ASSUME A = {}, B = {}, C = {}, NEW c \in DOMAIN P, NEW i \in DOMAIN P[c], P[c][i] = s
               PROVE  FALSE
    BY DEF Lies
  <2>1. c \in Threads  OBVIOUS
  <2>2. P[c] = SlotHeld(held[c]) /\ held[c] # s  BY <2>1
  <2> QED BY <2>2 DEF SlotHeld
<1> HIDE DEF A, B, C
<1>7. LET n == Cardinality(A) + Cardinality(B) + Cardinality(C)
      IN  n <= 1 /\ (n = 0 => A = {} /\ B = {} /\ C = {})
  BY <1>2, <1>3, <1>4, <1>5, OneOfThree
<1> QED BY <1>6, <1>7 DEF A, B, C

\* So each slot has at most one holder, and one unless there is an excuse.
LEMMA InputsCounted == Accounted(InputAt, InSlots, "freeIn") => InputSlotsAccounted
<1> SUFFICES ASSUME Accounted(InputAt, InSlots, "freeIn"), NEW s \in InSlots
             PROVE  LET slotOf(j) == j.in
                    IN  OneHolder(Holders(s, "freeIn", "prepared", slotOf), "freeIn")
  BY DEF InputSlotsAccounted
<1> DEFINE items == queue["freeIn"].items
           waits == queue["prepared"].items
           slots == InputsOf(waits)
           held == [t \in Threads |-> job[t].in]
           n == Cardinality({i \in DOMAIN items : items[i] = s})
                + Cardinality({i \in DOMAIN slots : slots[i] = s})
                + Cardinality({t \in Threads : held[t] = s})
<1>1. /\ DOMAIN InputAt = Threads \cup {"freeIn", "prepared"}
      /\ "freeIn" \notin Threads /\ "prepared" \notin Threads
      /\ InputAt["freeIn"] = items /\ InputAt["prepared"] = slots
      /\ \A t \in Threads : InputAt[t] = SlotHeld(held[t])
  BY PipelineThreads DEF InputAt, SlotsAt, InputsHeld, Workers
<1>2. 0 \notin InSlots /\ Single(InputAt)  BY DEF InSlots, Accounted
<1>3. n <= 1 /\ (n = 0 => ~Lies(InputAt, s))
  <2> HIDE DEF items, slots, held
  <2> QED BY <1>1, <1>2, SlotCounted
<1>4. n = 0 => Excused("freeIn")  BY <1>3 DEF Accounted
<1>5. /\ {i \in DOMAIN slots : slots[i] = s} = {i \in DOMAIN waits : waits[i].in = s}
      /\ {t \in Threads : held[t] = s} = {t \in Threads : job[t].in = s}
  BY DEF InputsOf
<1> QED BY <1>3, <1>4, <1>5 DEF OneHolder, Holders, Excused

\* So are the output slots.
LEMMA OutputsCounted == Accounted(OutputAt, OutSlots, "freeOut") => OutputSlotsAccounted
<1> SUFFICES ASSUME Accounted(OutputAt, OutSlots, "freeOut"), NEW s \in OutSlots
             PROVE  LET slotOf(j) == j.out
                    IN  OneHolder(Holders(s, "freeOut", "completed", slotOf), "freeOut")
  BY DEF OutputSlotsAccounted
<1> DEFINE items == queue["freeOut"].items
           waits == queue["completed"].items
           slots == OutputsOf(waits)
           held == [t \in Threads |-> job[t].out]
           n == Cardinality({i \in DOMAIN items : items[i] = s})
                + Cardinality({i \in DOMAIN slots : slots[i] = s})
                + Cardinality({t \in Threads : held[t] = s})
<1>1. /\ DOMAIN OutputAt = Threads \cup {"freeOut", "completed"}
      /\ "freeOut" \notin Threads /\ "completed" \notin Threads
      /\ OutputAt["freeOut"] = items /\ OutputAt["completed"] = slots
      /\ \A t \in Threads : OutputAt[t] = SlotHeld(held[t])
  BY PipelineThreads DEF OutputAt, SlotsAt, OutputsHeld, Workers
<1>2. 0 \notin OutSlots /\ Single(OutputAt)  BY DEF OutSlots, Accounted
<1>3. n <= 1 /\ (n = 0 => ~Lies(OutputAt, s))
  <2> HIDE DEF items, slots, held
  <2> QED BY <1>1, <1>2, SlotCounted
<1>4. n = 0 => Excused("freeOut")  BY <1>3 DEF Accounted
<1>5. /\ {i \in DOMAIN slots : slots[i] = s} = {i \in DOMAIN waits : waits[i].out = s}
      /\ {t \in Threads : held[t] = s} = {t \in Threads : job[t].out = s}
  BY DEF OutputsOf
<1> QED BY <1>3, <1>4, <1>5 DEF OneHolder, Holders, Excused

\* And each live lease has exactly one place.
LEMMA LeasesCounted == LeasesPlaced => LeasesHeldOnce
<1> SUFFICES ASSUME LeasesPlaced, NEW l \in live
             PROVE  1 = Cardinality(Places(queue["captured"].items, l))
                        + Cardinality(Places(queue["video"].items, l))
                        + Cardinality(Places(DispatchedLeases, l))
                        + Cardinality(UNION {{t} \X Places(disposing[t], l) : t \in Threads})
  BY DEF LeasesHeldOnce
<1> DEFINE P == LeaseAt
           A == Places(queue["captured"].items, l)
           B == Places(queue["video"].items, l)
           C == Places(DispatchedLeases, l)
           D == UNION {{t} \X Places(disposing[t], l) : t \in Threads}
<1>1. /\ DOMAIN P = Threads \cup {"captured", "videoQueue", "dispatched"}
      /\ "captured" \notin Threads /\ "videoQueue" \notin Threads /\ "dispatched" \notin Threads
      /\ P["captured"] = queue["captured"].items /\ P["videoQueue"] = queue["video"].items
      /\ P["dispatched"] = DispatchedLeases /\ \A t \in Threads : P[t] = disposing[t]
  BY PipelineThreads DEF LeaseAt, Workers
<1>2. Single(P) /\ Lies(P, l)  BY DEF LeasesPlaced
<1> HIDE DEF P
<1>3. /\ A = {i \in DOMAIN P["captured"] : P["captured"][i] = l}
      /\ B = {i \in DOMAIN P["videoQueue"] : P["videoQueue"][i] = l}
      /\ C = {i \in DOMAIN P["dispatched"] : P["dispatched"][i] = l}
      /\ \A x : x \in D <=> \E t \in Threads : \E i \in DOMAIN P[t] : x = <<t, i>> /\ P[t][i] = l
  BY <1>1 DEF Places
<1> HIDE DEF A, B, C, D
<1>4. /\ \A x, y \in A : x = y
      /\ \A x, y \in B : x = y
      /\ \A x, y \in C : x = y
  BY <1>1, <1>2, <1>3 DEF Single
<1>5. \A x, y \in D : x = y  BY <1>1, <1>2, <1>3 DEF Single
<1>6. /\ A = {} \/ B = {}
      /\ A = {} \/ C = {}
      /\ B = {} \/ C = {}
  BY <1>1, <1>2, <1>3 DEF Single
<1>7. /\ A = {} \/ D = {}
      /\ B = {} \/ D = {}
      /\ C = {} \/ D = {}
  BY <1>1, <1>2, <1>3 DEF Single
<1>8. ~(A = {} /\ B = {} /\ C = {} /\ D = {})
  <2>1. PICK c \in DOMAIN P : \E i \in DOMAIN P[c] : P[c][i] = l  BY <1>2 DEF Lies
  <2> QED BY <1>1, <1>3, <2>1
<1>9. /\ (A = {} /\ Cardinality(A) = 0) \/ (A # {} /\ Cardinality(A) = 1)
      /\ (B = {} /\ Cardinality(B) = 0) \/ (B # {} /\ Cardinality(B) = 1)
      /\ (C = {} /\ Cardinality(C) = 0) \/ (C # {} /\ Cardinality(C) = 1)
      /\ (D = {} /\ Cardinality(D) = 0) \/ (D # {} /\ Cardinality(D) = 1)
  BY <1>4, <1>5, AtMostOne
<1>10. 1 = Cardinality(A) + Cardinality(B) + Cardinality(C) + Cardinality(D)
  BY <1>6, <1>7, <1>8, <1>9
<1> QED BY <1>10 DEF A, B, C, D


\* What is left of a list with one step of S.
LEMMA TailOnce ==
    ASSUME NEW s \in Seq(Steps), s # <<>>, NEW S, Once(s, S)
    PROVE  Once(Tail(s), S) /\ (Head(s) \in S => ~Has(Tail(s), S))
<1>1. \A i \in 1..(Len(s) - 1) : i + 1 \in DOMAIN s /\ Tail(s)[i] = s[i + 1] /\ i + 1 # 1
  BY TailSteps
<1>2. \A i \in DOMAIN Tail(s) : i \in 1..(Len(s) - 1) /\ i \in Int  BY TailSteps
<1>3. Once(Tail(s), S)
  <2> SUFFICES ASSUME NEW i \in DOMAIN Tail(s), NEW j \in DOMAIN Tail(s),
                      Tail(s)[i] \in S, Tail(s)[j] \in S
               PROVE  i = j
    BY DEF Once
  <2>1. i + 1 = j + 1  BY <1>1, <1>2 DEF Once
  <2> QED BY <1>2, <2>1
<1>4. ASSUME Head(s) \in S, NEW i \in DOMAIN Tail(s), Tail(s)[i] \in S PROVE FALSE
  <2>1. 1 \in DOMAIN s /\ s[1] \in S  BY <1>4, TailSteps
  <2> QED BY <1>1, <1>2, <1>4, <2>1 DEF Once
<1> QED BY <1>3, <1>4 DEF Has

\* Two lists of which one has a step of S, and only one.
LEMMA ConcatOnce ==
    ASSUME NEW a \in Seq(Steps), NEW b \in Seq(Steps), NEW S,
           (Once(a, S) /\ ~Has(b, S)) \/ (~Has(a, S) /\ Once(b, S))
    PROVE  Once(a \o b, S)
<1> SUFFICES ASSUME NEW i \in DOMAIN (a \o b), NEW j \in DOMAIN (a \o b),
                    (a \o b)[i] \in S, (a \o b)[j] \in S
             PROVE  i = j
  BY DEF Once
<1>1. \A k \in DOMAIN (a \o b) :
          \/ k \in DOMAIN a /\ (a \o b)[k] = a[k]
          \/ k - Len(a) \in DOMAIN b /\ (a \o b)[k] = b[k - Len(a)] /\ k \in Int
  <2> SUFFICES ASSUME NEW k \in DOMAIN (a \o b), k \notin DOMAIN a
               PROVE  k - Len(a) \in DOMAIN b /\ (a \o b)[k] = b[k - Len(a)] /\ k \in Int
    BY ConcatSteps
  <2>1. k - Len(a) \in DOMAIN b /\ k = Len(a) + (k - Len(a)) /\ k \in Int
    BY ConcatSteps
  <2> QED BY <2>1, ConcatSteps
<1>2. CASE Once(a, S) /\ ~Has(b, S)  BY <1>1, <1>2 DEF Once, Has
<1>3. CASE ~Has(a, S) /\ Once(b, S)
  <2>1. i - Len(a) = j - Len(a) /\ i \in Int /\ j \in Int  BY <1>1, <1>3 DEF Once, Has
  <2> QED BY <2>1, ConcatSteps
<1> QED BY <1>2, <1>3

\* Which lists of the stages pass on or give back an input slot, an output slot.
LEMMA PassLists ==
    /\ \A p \in {<<>>, PreprocessExit, NpuExit, SignalFailure, SignalFailure \o PreprocessExit,
                 SignalFailure \o NpuExit, <<"slot">>, <<"prepared">>, <<"completed">>,
                 <<"publish_result">>, <<"dispose">>} :
           ~Has(p, InputSteps) /\ ~Has(p, OutputSteps)
    /\ \A p \in {<<"frame">>, <<"process">>, <<"push_prepared">>, <<"output">>,
                 <<"dispose", "return_input", "slot">>, <<"return_input", "slot">>,
                 <<"return_input">> \o PreprocessExit, <<"return_input">> \o NpuExit} :
           Has(p, InputSteps) /\ ~Has(p, OutputSteps)
    /\ \A p \in {<<"push_completed">>, <<"post">>, <<"return_output", "prepared">>,
                 <<"return_output">> \o NpuExit} :
           ~Has(p, InputSteps) /\ Has(p, OutputSteps)
    /\ Has(<<"run">>, InputSteps) /\ Has(<<"run">>, OutputSteps)
<1>1. /\ \A S, x : x \in S => Has(<<x>>, S)
      /\ \A S, x, y : x \in S => Has(<<x, y>>, S)
      /\ \A S, x, y, z : y \in S => Has(<<x, y, z>>, S)
  <2>1. \A S, x : x \in S => Has(<<x>>, S)  BY DEF Has
  <2>2. \A S, x, y : x \in S => Has(<<x, y>>, S)  BY DEF Has
  <2>3. \A S, x, y, z : y \in S => Has(<<x, y, z>>, S)  BY DEF Has
  <2> QED BY <2>1, <2>2, <2>3
<1>2. \A p \in {<<>>, PreprocessExit, NpuExit, <<"slot">>, <<"prepared">>, <<"completed">>,
                <<"publish_result">>, <<"dispose">>} :
          ~Has(p, InputSteps) /\ ~Has(p, OutputSteps)
  BY ShortLists DEF PreprocessExit, NpuExit, InputSteps, OutputSteps
<1>3. ~Has(SignalFailure, InputSteps) /\ ~Has(SignalFailure, OutputSteps)
  BY DEF Has, SignalFailure, InputSteps, OutputSteps
<1>4. \A p \in {<<"frame">>, <<"process">>, <<"push_prepared">>, <<"output">>,
                <<"dispose", "return_input", "slot">>, <<"return_input", "slot">>,
                <<"return_input">>} :
          Has(p, InputSteps) /\ ~Has(p, OutputSteps)
  BY <1>1, ShortLists DEF InputSteps, OutputSteps
<1>5. \A p \in {<<"push_completed">>, <<"post">>, <<"return_output", "prepared">>,
                <<"return_output">>} :
          ~Has(p, InputSteps) /\ Has(p, OutputSteps)
  BY <1>1, ShortLists DEF InputSteps, OutputSteps
<1>6. <<"return_input">> \in Seq(Steps) /\ <<"return_output">> \in Seq(Steps)
  BY DEF Steps
<1> DEFINE None(p) == ~Has(p, InputSteps) /\ ~Has(p, OutputSteps)
           In(p) == Has(p, InputSteps) /\ ~Has(p, OutputSteps)
           Out(p) == ~Has(p, InputSteps) /\ Has(p, OutputSteps)
<1>7. \A a, b \in Seq(Steps) : /\ None(a) /\ None(b) => None(a \o b)
                               /\ In(a) /\ None(b) => In(a \o b)
                               /\ Out(a) /\ None(b) => Out(a \o b)
  BY ConcatHas
<1>8. /\ None(SignalFailure) /\ None(PreprocessExit) /\ None(NpuExit)
      /\ In(<<"return_input">>) /\ Out(<<"return_output">>)
  BY <1>2, <1>3, <1>4, <1>5
<1> HIDE DEF None, In, Out
<1>9. /\ None(SignalFailure \o PreprocessExit) /\ None(SignalFailure \o NpuExit)
      /\ In(<<"return_input">> \o PreprocessExit) /\ In(<<"return_input">> \o NpuExit)
      /\ Out(<<"return_output">> \o NpuExit)
  BY <1>6, <1>7, <1>8, Lists
<1>10. Has(<<"run">>, InputSteps) /\ Has(<<"run">>, OutputSteps)
  BY <1>1 DEF InputSteps, OutputSteps
<1>11. \A p \in {<<>>, PreprocessExit, NpuExit, SignalFailure, SignalFailure \o PreprocessExit,
                 SignalFailure \o NpuExit, <<"slot">>, <<"prepared">>, <<"completed">>,
                 <<"publish_result">>, <<"dispose">>} :
           ~Has(p, InputSteps) /\ ~Has(p, OutputSteps)
  BY <1>2, <1>3, <1>9 DEF None
<1>12. \A p \in {<<"frame">>, <<"process">>, <<"push_prepared">>, <<"output">>,
                 <<"dispose", "return_input", "slot">>, <<"return_input", "slot">>,
                 <<"return_input">> \o PreprocessExit, <<"return_input">> \o NpuExit} :
           Has(p, InputSteps) /\ ~Has(p, OutputSteps)
  BY <1>4, <1>9 DEF In
<1>13. \A p \in {<<"push_completed">>, <<"post">>, <<"return_output", "prepared">>,
                 <<"return_output">> \o NpuExit} :
           ~Has(p, InputSteps) /\ Has(p, OutputSteps)
  BY <1>5, <1>9 DEF Out
<1> HIDE DEF InputSteps, OutputSteps
<1> QED BY <1>10, <1>11, <1>12, <1>13

\* All of them pass each slot on once.
LEMMA TidyLists ==
    /\ \A t \in Carriers : \A p \in Programs[t] : Tidy(p)
    /\ \A t \in Carriers : Tidy(<<FirstStep[t]>>)
    /\ Tidy(<<>>) /\ ~Has(<<"dispose">>, InputSteps \cup OutputSteps \cup LastSteps)
<1> DEFINE None(p) == ~Has(p, InputSteps) /\ ~Has(p, OutputSteps) /\ ~Has(p, LastSteps)
<1>1. None(PreprocessExit) /\ None(NpuExit) /\ None(<<>>) /\ None(<<"dispose">>)
  BY ShortLists DEF PreprocessExit, NpuExit, InputSteps, OutputSteps, LastSteps
<1>2. None(SignalFailure)
  <2>1. ~Has(SignalFailure, LastSteps)  BY DEF Has, SignalFailure, LastSteps
  <2>2. ~Has(SignalFailure, InputSteps) /\ ~Has(SignalFailure, OutputSteps)
    BY DEF Has, SignalFailure, InputSteps, OutputSteps
  <2> QED BY <2>1, <2>2
<1>3. \A x : Tidy(<<x>>)
  <2>1. \A x, S : Once(<<x>>, S)  BY DEF Once
  <2> QED BY <2>1, ShortLists DEF Tidy
<1>4. \A p : None(p) => Tidy(p)  BY DEF Tidy, Once, Last, Has
<1>5. \A a, b \in Seq(Steps) :
          /\ None(a) /\ None(b) => None(a \o b)
          /\ Tidy(a) /\ ~Has(a, LastSteps) /\ None(b) => Tidy(a \o b)
          /\ None(a) /\ Tidy(b) => Tidy(a \o b)
  <2> SUFFICES ASSUME NEW a \in Seq(Steps), NEW b \in Seq(Steps)
               PROVE  /\ None(a) /\ None(b) => None(a \o b)
                      /\ Tidy(a) /\ ~Has(a, LastSteps) /\ None(b) => Tidy(a \o b)
                      /\ None(a) /\ Tidy(b) => Tidy(a \o b)
    OBVIOUS
  <2>1. None(a) /\ None(b) => None(a \o b)  BY ConcatHas
  <2>2. ASSUME Tidy(a), ~Has(a, LastSteps), None(b) PROVE Tidy(a \o b)
    <3>1. Once(a \o b, InputSteps) /\ Once(a \o b, OutputSteps)
      BY <2>2, ConcatOnce DEF Tidy
    <3>2. Last(a \o b, LastSteps)  BY <2>2, NothingLast, ConcatLast
    <3> QED BY <3>1, <3>2 DEF Tidy
  <2>3. ASSUME None(a), Tidy(b) PROVE Tidy(a \o b)
    <3>1. Once(a \o b, InputSteps) /\ Once(a \o b, OutputSteps)
      BY <2>3, ConcatOnce DEF Tidy
    <3>2. Last(a \o b, LastSteps)  BY <2>3, ConcatLast DEF Tidy
    <3> QED BY <3>1, <3>2 DEF Tidy
  <2> QED BY <2>1, <2>2, <2>3
<1>6. /\ <<"return_input">> \in Seq(Steps) /\ <<"return_output">> \in Seq(Steps)
      /\ <<"dispose">> \in Seq(Steps) /\ <<"slot">> \in Seq(Steps)
      /\ <<"prepared">> \in Seq(Steps)
  BY DEF Steps
<1>7. /\ ~Has(<<"return_input">>, LastSteps) /\ ~Has(<<"return_output">>, LastSteps)
  BY ShortLists DEF LastSteps
<1>8. Tidy(<<"return_input", "slot">>)
  BY DEF Tidy, Once, Last, InputSteps, OutputSteps, LastSteps
<1>9. Tidy(<<"dispose", "return_input", "slot">>)
  BY DEF Tidy, Once, Last, InputSteps, OutputSteps, LastSteps
<1>10. Tidy(<<"return_output", "prepared">>)
  BY DEF Tidy, Once, Last, InputSteps, OutputSteps, LastSteps
<1> HIDE DEF None
<1>11. /\ Tidy(<<>>) /\ Tidy(PreprocessExit) /\ Tidy(NpuExit)
       /\ Tidy(SignalFailure \o PreprocessExit) /\ Tidy(SignalFailure \o NpuExit)
       /\ Tidy(<<"return_input">> \o PreprocessExit) /\ Tidy(<<"return_input">> \o NpuExit)
       /\ Tidy(<<"return_output">> \o NpuExit)
  BY <1>1, <1>2, <1>3, <1>4, <1>5, <1>6, <1>7, Lists
<1>12. \A p \in Programs["preprocess"] : Tidy(p)
  BY <1>3, <1>8, <1>9, <1>11 DEF Programs
<1>13. \A p \in Programs["npu"] : Tidy(p)  BY <1>3, <1>10, <1>11 DEF Programs
<1>14. \A p \in Programs["postprocess"] : Tidy(p)  BY <1>3, <1>11 DEF Programs
<1>15. ~Has(<<"dispose">>, InputSteps \cup OutputSteps \cup LastSteps)
  BY ShortLists DEF InputSteps, OutputSteps, LastSteps
<1> QED BY <1>3, <1>11, <1>12, <1>13, <1>14, <1>15 DEF Carriers

\* A thread works on its own job, slots included.
LEMMA JobsKept ==
    ASSUME WorkType, NEW t \in Threads, ThreadStep(t), NEW u \in Threads, u # t
    PROVE  job'[u] = job[u]
<1> USE MainAndWorkers
<1> DEFINE kept == job'[u] = job[u]
<1>1. /\ job' = job => kept
      /\ \A j : job' = [job EXCEPT ![t] = j] => kept
      /\ \A n : \/ job' = [job EXCEPT ![t].in = n]
                \/ job' = [job EXCEPT ![t].out = n]
                \/ job' = [job EXCEPT ![t].frame = n]
                => kept
  BY DEF WorkType
<1> HIDE DEF kept
<1> SUFFICES kept  BY DEF kept
<1>2. CASE CallStep(t)
  BY <1>1, <1>2 DEF CallStep, SetFatal, SetStop, SetVideoFailed, CloseBroker,
     RequestCameraStop, StopQueue, NotifyCapture, Dispose, ReturnInput, ReturnOutput,
     work, pipelineVars
<1>3. CASE t = "main" /\ Supervise
  BY <1>1, <1>3 DEF Supervise, StartCamera, Spawn, Join, StopCamera, work
<1>4. CASE t = "capture" /\ CaptureLoop
  BY <1>1, <1>4 DEF CaptureLoop, CaptureCheck, DrainPop, DrainRequeued,
     DrainRequeueFailed, DrainEmpty, CaptureStopped, PollWake, PollTimeout, PollThrows,
     PollFrame, PollDropped, PublishFrame, PublishRefused, RequeueDirect, AfterDirect,
     PushCaptured, PushVideo, work, pipelineVars
<1>5. CASE t = "preprocess" /\ PreprocessLoop
  BY <1>1, <1>5 DEF PreprocessLoop, TakeInputSlot, TakeFrame, NoMoreFrames, Preprocess,
     PushPrepared, DrainLeases, work
<1>6. CASE t = "npu" /\ NpuLoop
  BY <1>1, <1>6 DEF NpuLoop, TakePrepared, TakeOutputSlot, Run, PushCompleted
<1>7. CASE PostprocessStep(t) \/ (t = "postprocess" /\ TakeCompleted)
  BY <1>1, <1>7 DEF PostprocessStep, Postprocess, PublishResult, TakeCompleted
<1>8. CASE t = "video" /\ VideoLoop
  BY <1>1, <1>8 DEF VideoLoop, TakeVideoFrame, Encode, PushEncoded, DrainLeases
<1>9. CASE t = "encoded" /\ EncodedPacketLoop
  BY <1>1, <1>9 DEF EncodedPacketLoop, TakePacket, WritePacket
<1> QED BY <1>2, <1>3, <1>4, <1>5, <1>6, <1>7, <1>8, <1>9 DEF ThreadStep

\* Slots go round: one is taken from the free ones, given back, passed on to the stage
\* queue, taken from there, or lost.
TakenFree(I, S, H, J, R, K, t) ==
    /\ I # <<>> /\ H[t] = 0 /\ Head(I) # 0
    /\ J = Tail(I) /\ R = S /\ K = [H EXCEPT ![t] = Head(I)]
GivenBack(I, S, H, J, R, K, t) ==
    H[t] # 0 /\ J = Append(I, H[t]) /\ R = S /\ K = [H EXCEPT ![t] = 0]
PassedOn(I, S, H, J, R, K, t) ==
    H[t] # 0 /\ J = I /\ R = Append(S, H[t]) /\ K = [H EXCEPT ![t] = 0]
TakenOver(I, S, H, J, R, K, t) ==
    /\ S # <<>> /\ H[t] = 0 /\ Head(S) # 0
    /\ J = I /\ R = Tail(S) /\ K = [H EXCEPT ![t] = Head(S)]
Lost(I, S, H, J, R, K, t) ==
    H[t] # 0 /\ J = I /\ R = S /\ K = [H EXCEPT ![t] = 0]
GoesRound(I, S, H, J, R, K, t) ==
    \/ J = I /\ R = S /\ K = H
    \/ TakenFree(I, S, H, J, R, K, t) \/ GivenBack(I, S, H, J, R, K, t)
    \/ PassedOn(I, S, H, J, R, K, t) \/ TakenOver(I, S, H, J, R, K, t)

\* Each of these moves one slot from a place to another.
LEMMA SlotMoved ==
    ASSUME NEW f, NEW w, f # w, f \notin Threads, w \notin Threads,
           NEW I \in Seq(Nat), NEW S \in Seq(Nat), NEW H \in [Threads -> Nat],
           NEW J \in Seq(Nat), NEW R \in Seq(Nat), NEW K \in [Threads -> Nat],
           NEW t \in Threads
    PROVE  LET P == SlotsAt(f, w, I, S, H)
               Q == SlotsAt(f, w, J, R, K)
           IN  /\ TakenFree(I, S, H, J, R, K, t) => Moved(P, Q, f, t)
               /\ GivenBack(I, S, H, J, R, K, t) => Moved(P, Q, t, f)
               /\ PassedOn(I, S, H, J, R, K, t) => Moved(P, Q, t, w)
               /\ TakenOver(I, S, H, J, R, K, t) => Moved(P, Q, w, t)
               /\ Lost(I, S, H, J, R, K, t) => Dropped(P, Q, t)
<1> DEFINE P == SlotsAt(f, w, I, S, H)
           Q == SlotsAt(f, w, J, R, K)
<1>1. /\ DOMAIN P = Threads \cup {f, w} /\ DOMAIN Q = Threads \cup {f, w}
      /\ P[f] = I /\ P[w] = S /\ Q[f] = J /\ Q[w] = R
      /\ \A u \in Threads : P[u] = SlotHeld(H[u]) /\ Q[u] = SlotHeld(K[u])
  BY DEF SlotsAt
<1> HIDE DEF P, Q
<1>2. /\ SlotHeld(0) = <<>>
      /\ \A n \in Nat : n # 0 => /\ SlotHeld(n) = <<n>> /\ SlotHeld(n) # <<>>
                                 /\ Tail(SlotHeld(n)) = <<>> /\ Head(SlotHeld(n)) = n
                                 /\ Append(<<>>, n) = SlotHeld(n)
  BY DEF SlotHeld
<1>3. ASSUME TakenFree(I, S, H, J, R, K, t) PROVE Moved(P, Q, f, t)
  <2>1. Head(I) \in Nat /\ K[t] = Head(I) /\ \A u \in Threads \ {t} : K[u] = H[u]
    BY <1>3 DEF TakenFree
  <2>2. P[t] = SlotHeld(0) /\ Q[t] = SlotHeld(Head(I)) /\ Head(I) # 0
    BY <1>1, <1>3, <2>1 DEF TakenFree
  <2>3. Q[t] = Append(P[t], Head(I))  BY <1>2, <2>1, <2>2
  <2>4. P[f] = I /\ I # <<>> /\ Q[f] = Tail(I)  BY <1>1, <1>3 DEF TakenFree
  <2>5. \A c \in DOMAIN P \ {f, t} : Q[c] = P[c]  BY <1>1, <1>3, <2>1 DEF TakenFree
  <2> QED BY <2>3, <2>4, <2>5 DEF Moved
<1>4. ASSUME GivenBack(I, S, H, J, R, K, t) PROVE Moved(P, Q, t, f)
  <2>1. H[t] \in Nat /\ K[t] = 0 /\ \A u \in Threads \ {t} : K[u] = H[u]
    BY <1>4 DEF GivenBack
  <2> QED BY <1>1, <1>2, <1>4, <2>1 DEF GivenBack, Moved
<1>5. ASSUME PassedOn(I, S, H, J, R, K, t) PROVE Moved(P, Q, t, w)
  <2>1. H[t] \in Nat /\ K[t] = 0 /\ \A u \in Threads \ {t} : K[u] = H[u]
    BY <1>5 DEF PassedOn
  <2> QED BY <1>1, <1>2, <1>5, <2>1 DEF PassedOn, Moved
<1>6. ASSUME TakenOver(I, S, H, J, R, K, t) PROVE Moved(P, Q, w, t)
  <2>1. Head(S) \in Nat /\ K[t] = Head(S) /\ \A u \in Threads \ {t} : K[u] = H[u]
    BY <1>6 DEF TakenOver
  <2>2. P[t] = SlotHeld(0) /\ Q[t] = SlotHeld(Head(S)) /\ Head(S) # 0
    BY <1>1, <1>6, <2>1 DEF TakenOver
  <2>3. Q[t] = Append(P[t], Head(S))  BY <1>2, <2>1, <2>2
  <2>4. P[w] = S /\ S # <<>> /\ Q[w] = Tail(S)  BY <1>1, <1>6 DEF TakenOver
  <2>5. \A c \in DOMAIN P \ {w, t} : Q[c] = P[c]  BY <1>1, <1>6, <2>1 DEF TakenOver
  <2> QED BY <2>3, <2>4, <2>5 DEF Moved
<1>7. ASSUME Lost(I, S, H, J, R, K, t) PROVE Dropped(P, Q, t)
  <2>1. H[t] \in Nat /\ K[t] = 0 /\ \A u \in Threads \ {t} : K[u] = H[u]
    BY <1>7 DEF Lost
  <2> QED BY <1>1, <1>2, <1>7, <2>1 DEF Lost, Dropped
<1> QED BY <1>3, <1>4, <1>5, <1>6, <1>7 DEF P, Q

\* So no slot gets a second place, and none goes but a lost one.
LEMMA SlotsGoRound ==
    ASSUME NEW f, NEW w, f # w, f \notin Threads, w \notin Threads,
           NEW I \in Seq(Nat), NEW S \in Seq(Nat), NEW H \in [Threads -> Nat],
           NEW J \in Seq(Nat), NEW R \in Seq(Nat), NEW K \in [Threads -> Nat],
           NEW t \in Threads, Single(SlotsAt(f, w, I, S, H)),
           GoesRound(I, S, H, J, R, K, t) \/ Lost(I, S, H, J, R, K, t)
    PROVE  /\ Single(SlotsAt(f, w, J, R, K))
           /\ \A x : Lies(SlotsAt(f, w, J, R, K), x) => Lies(SlotsAt(f, w, I, S, H), x)
           /\ GoesRound(I, S, H, J, R, K, t) =>
                  \A x : Lies(SlotsAt(f, w, I, S, H), x) => Lies(SlotsAt(f, w, J, R, K), x)
<1> DEFINE P == SlotsAt(f, w, I, S, H)
           Q == SlotsAt(f, w, J, R, K)
           N == Threads \cup {f, w}
<1>1. P \in [N -> Seq(Nat)] /\ Q \in [N -> Seq(Nat)]
  <2>1. \A n \in Nat : SlotHeld(n) \in Seq(Nat)  BY DEF SlotHeld
  <2> QED BY <2>1 DEF SlotsAt
<1>2. f \in N /\ w \in N /\ t \in N /\ f # t /\ w # t  OBVIOUS
<1>3. J = I /\ R = S /\ K = H => Q = P  OBVIOUS
<1>4. /\ TakenFree(I, S, H, J, R, K, t) => Moved(P, Q, f, t)
      /\ GivenBack(I, S, H, J, R, K, t) => Moved(P, Q, t, f)
      /\ PassedOn(I, S, H, J, R, K, t) => Moved(P, Q, t, w)
      /\ TakenOver(I, S, H, J, R, K, t) => Moved(P, Q, w, t)
      /\ Lost(I, S, H, J, R, K, t) => Dropped(P, Q, t)
  BY SlotMoved
<1>5. Single(P)  OBVIOUS
<1> HIDE DEF P, Q, N
<1>6. ASSUME NEW a \in N, NEW b \in N, a # b, Moved(P, Q, a, b)
      PROVE  Single(Q) /\ \A x : Lies(Q, x) <=> Lies(P, x)
  BY <1>1, <1>5, <1>6, PlaceMoved
<1>7. ASSUME Dropped(P, Q, t)
      PROVE  Single(Q) /\ \A x : Lies(Q, x) => Lies(P, x)
  BY <1>1, <1>2, <1>5, <1>7, PlaceDropped
<1>8. CASE GoesRound(I, S, H, J, R, K, t)
  <2>1. Single(Q) /\ \A x : Lies(Q, x) <=> Lies(P, x)
    <3>1. CASE J = I /\ R = S /\ K = H  BY <1>3, <1>5, <3>1
    <3>2. CASE TakenFree(I, S, H, J, R, K, t)  BY <1>2, <1>4, <1>6, <3>2
    <3>3. CASE GivenBack(I, S, H, J, R, K, t)  BY <1>2, <1>4, <1>6, <3>3
    <3>4. CASE PassedOn(I, S, H, J, R, K, t)  BY <1>2, <1>4, <1>6, <3>4
    <3>5. CASE TakenOver(I, S, H, J, R, K, t)  BY <1>2, <1>4, <1>6, <3>5
    <3> QED BY <1>8, <3>1, <3>2, <3>3, <3>4, <3>5 DEF GoesRound
  <2> QED BY <2>1 DEF P, Q
<1>9. CASE ~GoesRound(I, S, H, J, R, K, t)
  <2>1. Single(Q) /\ \A x : Lies(Q, x) => Lies(P, x)  BY <1>4, <1>7, <1>9
  <2> QED BY <1>9, <2>1 DEF P, Q
<1> QED BY <1>8, <1>9

\* Whatever a stage does next, it passes each slot on once.
LEMMA TidyStep ==
    ASSUME PcType, NEW t \in Carriers, Moves(t), Tidy(pc[t])
    PROVE  Tidy(pc'[t])
<1>0. t \in Threads /\ pc[t] \in Seq(Steps) /\ t \notin {"capture", "video", "main"}
  BY MainAndWorkers DEF PcType, Carriers
<1>1. CASE Proceeds(t)
  <2>1. pc'[t] = Tail(pc[t]) /\ pc[t] # <<>>  BY <1>0, <1>1 DEF Proceeds, PcType
  <2>2. /\ Once(Tail(pc[t]), InputSteps) /\ Once(Tail(pc[t]), OutputSteps)
        /\ Last(Tail(pc[t]), LastSteps)
    BY <1>0, <2>1, TailOnce, TailLast DEF Tidy
  <2> QED BY <2>1, <2>2 DEF Tidy
<1>2. CASE Restarts(t)  BY <1>0, <1>2, TidyLists DEF Restarts, PcType
<1>3. CASE \E q \in Queues : DrainsLease(t, q)
  <2>1. pc'[t] = <<"dispose">> \o pc[t]  BY <1>0, <1>3 DEF DrainsLease, PcType
  <2>2. /\ ~Has(<<"dispose">>, InputSteps) /\ ~Has(<<"dispose">>, OutputSteps)
        /\ ~Has(<<"dispose">>, LastSteps) /\ <<"dispose">> \in Seq(Steps)
    BY TidyLists DEF Has, Steps
  <2>3. /\ Once(<<"dispose">> \o pc[t], InputSteps) /\ Once(<<"dispose">> \o pc[t], OutputSteps)
        /\ Last(<<"dispose">> \o pc[t], LastSteps)
    BY <1>0, <2>2, ConcatOnce, ConcatLast DEF Tidy
  <2> QED BY <2>1, <2>3 DEF Tidy
<1>4. {"captured", "video"} \subseteq Queues  BY DEF Queues
<1> QED BY <1>0, <1>1, <1>2, <1>3, <1>4 DEF Moves

\* The lists of a thread start over with nothing of S when none of these has a step of S.
GiveBacks == {"return_input", "return_output"}
\* The lists of steps in which no slot is given back.
LEMMA GiveBackLists ==
    /\ \A t \in Threads \ Carriers : \A p \in Programs[t] : ~Has(p, GiveBacks)
    /\ \A t \in Workers : ~Has(<<FirstStep[t]>>, GiveBacks)
    /\ ~Has(<<>>, GiveBacks) /\ ~Has(<<"run">>, GiveBacks) /\ ~Has(<<"dispose">>, GiveBacks)
    /\ ~Has(SignalFailure, GiveBacks) /\ ~Has(StopSteps, GiveBacks)
    /\ ~Has(SignalFailure \o StopSteps, GiveBacks)
<1> DEFINE None(p) == ~Has(p, GiveBacks)
<1>1. /\ None(<<>>) /\ \A x : x \notin GiveBacks => None(<<x>>)
      /\ \A x, y : x \notin GiveBacks /\ y \notin GiveBacks => None(<<x, y>>)
  BY ShortLists
<1>2. None(SignalFailure) /\ None(StopSteps) /\ None(CaptureExit) /\ None(SignalVideoFailure)
  BY DEF Has, SignalFailure, StopSteps, CaptureExit, SignalVideoFailure, GiveBacks
<1>3. \A a, b \in Seq(Steps) : None(a) /\ None(b) => None(a \o b)  BY ConcatHas
<1> HIDE DEF None
<1>4. \A x \in {"spawn", "dispose", "poll", "publish", "check", "requeue_direct",
                "after_direct", "push_captured", "push_video", "drain_video", "video",
                "encode", "push_encoded", "packet", "write", "run", "slot", "prepared",
                "completed"} : None(<<x>>)
  BY <1>1 DEF GiveBacks
<1>5. /\ None(<<"drain", "capture">>) /\ None(<<"drain", "check">>)
      /\ None(<<"dispose", "video">>)
  BY <1>1 DEF GiveBacks
<1>6. /\ <<"dispose">> \in Seq(Steps) /\ <<"push_video">> \in Seq(Steps)
      /\ <<"check">> \in Seq(Steps) /\ <<"drain_video">> \in Seq(Steps)
  BY DEF Steps
<1>7. /\ None(SignalFailure \o CaptureExit) /\ None(<<"dispose">> \o CaptureExit)
      /\ None(<<"dispose">> \o <<"push_video">>) /\ None(<<"dispose">> \o <<"check">>)
      /\ None(SignalVideoFailure \o <<"drain_video">>)
  BY <1>2, <1>3, <1>4, <1>6, Lists
<1>8. None(SignalFailure \o StopSteps)  BY <1>2, <1>3, Lists
<1>9. /\ \A p \in Programs["main"] : None(p)
      /\ \A p \in Programs["video"] : None(p)
      /\ \A p \in Programs["encoded"] : None(p)
  BY <1>1, <1>2, <1>4, <1>5, <1>7 DEF Programs
<1>10. \A p \in Programs["capture"] : None(p)  BY <1>2, <1>4, <1>5, <1>7 DEF Programs
<1>11. Threads \ Carriers = {"main", "capture", "video", "encoded"}
  BY PipelineThreads DEF Workers, Carriers
<1>12. \A t \in Workers : None(<<FirstStep[t]>>)  BY <1>4 DEF Workers, FirstStep
<1> QED BY <1>1, <1>2, <1>4, <1>8, <1>9, <1>10, <1>11, <1>12 DEF None

\* The other threads never come to have a slot.
LEMMA NoSlotsStep ==
    ASSUME PcType, WorkType, Fresh, NoSlots, NEW t \in Threads, ThreadStep(t)
    PROVE  NoSlots'
<1> USE MainAndWorkers
<1> SUFFICES ASSUME NEW u \in Threads \ Carriers
             PROVE  ~Has(pc'[u], GiveBacks) /\ job'[u].in = 0 /\ job'[u].out = 0
  BY DEF NoSlots, GiveBacks
<1>0. /\ u \in {"main", "capture", "video", "encoded"} /\ u \in Threads
      /\ pc[u] \in Seq(Steps) /\ job[u] \in Jobs
      /\ ~Has(pc[u], GiveBacks) /\ job[u].in = 0 /\ job[u].out = 0
  BY PipelineThreads DEF Workers, Carriers, PcType, WorkType, NoSlots, GiveBacks
<1>1. CASE u # t
  <2>1. job'[u] = job[u]  BY <1>0, <1>1, JobsKept
  <2>2. pc'[u] = pc[u] \/ (t = "main" /\ Spawns)  BY <1>0, <1>1, OthersWait
  <2>3. ~Has(pc'[u], GiveBacks)
    <3>1. CASE pc'[u] = pc[u]  BY <1>0, <3>1
    <3>2. CASE t = "main" /\ Spawns
      <4>1. u \in Workers  BY <1>1, <3>2
      <4>2. pc'[u] = <<>> \/ pc'[u] = <<FirstStep[u]>>  BY <3>2, <4>1, SpawnEffect
      <4> QED BY <4>1, <4>2, GiveBackLists
    <3> QED BY <2>2, <3>1, <3>2
  <2> QED BY <1>0, <2>1, <2>3
<1>2. CASE u = t
  <2>1. ~Has(pc'[u], GiveBacks)
    <3>0. Moves(u)  BY <1>2, ThreadMoves
    <3>1. CASE Proceeds(u)
      <4>1. pc'[u] = Tail(pc[u]) /\ pc[u] # <<>>  BY <1>0, <3>1 DEF Proceeds, PcType
      <4> QED BY <1>0, <4>1, TailHas
    <3>2. CASE Restarts(u)  BY <1>0, <3>2, GiveBackLists DEF Restarts, PcType
    <3>3. CASE u = "capture" /\ DrainFails
      <4>1. pc'[u] = SignalFailure \o Tail(pc[u]) /\ pc[u] # <<>>
        BY <1>0, <3>3 DEF DrainFails, PcType, Draining, At
      <4>2. Tail(pc[u]) \in Seq(Steps) /\ ~Has(Tail(pc[u]), GiveBacks)
        BY <1>0, <4>1, TailHas, TailSteps
      <4>3. ~Has(SignalFailure, GiveBacks) /\ SignalFailure \in Seq(Steps)
        BY Lists, GiveBackLists
      <4>4. ~Has(SignalFailure \o Tail(pc[u]), GiveBacks)  BY <4>2, <4>3, ConcatHas
      <4> QED BY <4>1, <4>4
    <3>4. CASE \E q \in Queues : DrainsLease(u, q)
      <4>1. pc'[u] = <<"dispose">> \o pc[u]  BY <1>0, <3>4 DEF DrainsLease, PcType
      <4>2. <<"dispose">> \in Seq(Steps)  BY DEF Steps
      <4>3. ~Has(<<"dispose">>, GiveBacks)  BY GiveBackLists
      <4>4. ~Has(<<"dispose">> \o pc[u], GiveBacks)  BY <1>0, <4>2, <4>3, ConcatHas
      <4> QED BY <4>1, <4>4
    <3>5. CASE u = "main" /\ Spawns  BY <3>5, SpawnEffect, GiveBackLists
    <3>6. {"captured", "video"} \subseteq Queues  BY DEF Queues
    <3> QED BY <1>0, <3>0, <3>1, <3>2, <3>3, <3>4, <3>5, <3>6 DEF Moves
  <2>2. job'[u].in = 0 /\ job'[u].out = 0
    <3> DEFINE none == job'[u].in = 0 /\ job'[u].out = 0
    <3>0. /\ job' = job => none
          /\ job' = [job EXCEPT ![u] = NoJob] => none
          /\ \A n : job' = [job EXCEPT ![u].frame = n] => none
      <4>1. job' = [job EXCEPT ![u] = NoJob] => job'[u] = NoJob  BY DEF WorkType
      <4>2. ASSUME NEW n, job' = [job EXCEPT ![u].frame = n] PROVE none
        <5>1. job'[u] = [job[u] EXCEPT !.frame = n]  BY <4>2 DEF WorkType
        <5> QED BY <1>0, <5>1 DEF Jobs
      <4>3. NoJob.in = 0 /\ NoJob.out = 0  BY DEF NoJob
      <4> QED BY <1>0, <4>1, <4>2, <4>3
    <3> HIDE DEF none
    <3> SUFFICES none  BY DEF none
    <3>1. CASE CallStep(u)
      <4>1. pc[u] # <<>> => Head(pc[u]) \notin GiveBacks  BY <1>0, TailSteps DEF Has
      <4> QED BY <1>0, <3>0, <3>1, <4>1 DEF CallStep, SetFatal, SetStop, SetVideoFailed,
              CloseBroker, RequestCameraStop, StopQueue, NotifyCapture, Dispose, ReturnInput,
              ReturnOutput, At, work, pipelineVars, GiveBacks
    <3>2. CASE u = "main" /\ Supervise
      BY <3>0, <3>2 DEF Supervise, StartCamera, Spawn, Join, StopCamera, work
    <3>3. CASE u = "capture" /\ CaptureLoop
      BY <3>0, <3>3 DEF CaptureLoop, CaptureCheck, DrainPop, DrainRequeued,
         DrainRequeueFailed, DrainEmpty, CaptureStopped, PollWake, PollTimeout, PollThrows,
         PollFrame, PollDropped, PublishFrame, PublishRefused, RequeueDirect, AfterDirect,
         PushCaptured, PushVideo, work, pipelineVars
    <3>4. CASE u = "video" /\ VideoLoop
      BY <3>0, <3>4 DEF VideoLoop, TakeVideoFrame, Encode, PushEncoded, DrainLeases
    <3>5. CASE u = "encoded" /\ EncodedPacketLoop
      BY <3>0, <3>5 DEF EncodedPacketLoop, TakePacket, WritePacket
    <3> QED BY <1>0, <1>2, <3>1, <3>2, <3>3, <3>4, <3>5 DEF ThreadStep
  <2> QED BY <2>1, <2>2
<1> QED BY <1>1, <1>2

\* Free slots have numbers, which 0 is not.
Numbered ==
    \A q \in {"freeIn", "freeOut"} : \A i \in DOMAIN queue[q].items : queue[q].items[i] # 0

\* Free slots that are accounted for have numbers.
LEMMA AccountedNumbered ==
    ASSUME Accounted(InputAt, InSlots, "freeIn"), Accounted(OutputAt, OutSlots, "freeOut")
    PROVE  Numbered
<1>1. /\ "freeIn" \in DOMAIN InputAt /\ InputAt["freeIn"] = queue["freeIn"].items
      /\ "freeOut" \in DOMAIN OutputAt /\ OutputAt["freeOut"] = queue["freeOut"].items
  BY DEF InputAt, OutputAt, SlotsAt
<1>2. 0 \notin InSlots /\ 0 \notin OutSlots  BY DEF InSlots, OutSlots
<1> QED BY <1>1, <1>2 DEF Accounted, Numbered

\* What changes in the hands of the thread that takes the step.
LEMMA JobChange ==
    ASSUME WorkType, NEW t \in Threads
    PROVE  /\ job' = job => job'[t] = job[t]
           /\ \A j : job' = [job EXCEPT ![t] = j] => job'[t] = j
           /\ \A n : job' = [job EXCEPT ![t].in = n] =>
                  job'[t].in = n /\ job'[t].out = job[t].out
           /\ \A n : job' = [job EXCEPT ![t].out = n] =>
                  job'[t].out = n /\ job'[t].in = job[t].in
           /\ \A n : job' = [job EXCEPT ![t].frame = n] =>
                  job'[t].out = job[t].out /\ job'[t].in = job[t].in
           /\ NoJob.in = 0 /\ NoJob.out = 0
<1>1. /\ \A n : job' = [job EXCEPT ![t].in = n] => job'[t] = [job[t] EXCEPT !.in = n]
      /\ \A n : job' = [job EXCEPT ![t].out = n] => job'[t] = [job[t] EXCEPT !.out = n]
      /\ \A n : job' = [job EXCEPT ![t].frame = n] => job'[t] = [job[t] EXCEPT !.frame = n]
      /\ \A j : job' = [job EXCEPT ![t] = j] => job'[t] = j
      /\ job[t] \in Jobs
  BY DEF WorkType
<1>3. NoJob.in = 0 /\ NoJob.out = 0  BY DEF NoJob
<1>4. job[t] \in Jobs  BY DEF WorkType
<1>5. ASSUME NEW n, job' = [job EXCEPT ![t].in = n]
      PROVE  job'[t].in = n /\ job'[t].out = job[t].out
  <2>1. job'[t] = [job[t] EXCEPT !.in = n]  BY <1>1, <1>5
  <2> QED BY <1>4, <2>1 DEF Jobs
<1>6. ASSUME NEW n, job' = [job EXCEPT ![t].out = n]
      PROVE  job'[t].out = n /\ job'[t].in = job[t].in
  <2>1. job'[t] = [job[t] EXCEPT !.out = n]  BY <1>1, <1>6
  <2> QED BY <1>4, <2>1 DEF Jobs
<1>7. ASSUME NEW n, job' = [job EXCEPT ![t].frame = n]
      PROVE  job'[t].out = job[t].out /\ job'[t].in = job[t].in
  <2>1. job'[t] = [job[t] EXCEPT !.frame = n]  BY <1>1, <1>7
  <2> QED BY <1>4, <2>1 DEF Jobs
<1>8. \A j : job' = [job EXCEPT ![t] = j] => job'[t] = j  BY <1>1
<1> QED BY <1>3, <1>5, <1>6, <1>7, <1>8

\* A stage that starts over does so from the end of its list.
LEMMA AtLast ==
    ASSUME PcType, NEW t \in Carriers, Tidy(pc[t]), NEW x \in LastSteps, At(t, x)
    PROVE  pc[t] = <<x>>
<1>1. pc[t] \in Seq(Steps) /\ pc[t] # <<>> /\ Head(pc[t]) = x
  BY MainAndWorkers DEF PcType, Carriers, At
<1> QED BY <1>1, TailLast DEF Tidy

\* The hands of a thread that makes a call.
LEMMA CallHands ==
    ASSUME PcType, WorkType, NEW t \in Carriers, CallStep(t), Tidy(pc[t]), HasSlots(t)
    PROVE  HasSlots(t)'
<1>0. t \in Threads /\ pc[t] \in Seq(Steps)  BY MainAndWorkers DEF PcType, Carriers
<1>1. CASE ReturnInput(t)
  <2>1. pc[t] # <<>> /\ Head(pc[t]) = "return_input" /\ pc'[t] = Tail(pc[t])
    <3>1. pc[t] # <<>> /\ Head(pc[t]) = "return_input" /\ t \notin notifying
      BY <1>1 DEF ReturnInput, At
    <3>2. pc'[t] = <<>> \o Tail(pc[t])  BY <1>0, <1>1 DEF ReturnInput, Proceed, PcType
    <3> QED BY <1>0, <3>1, <3>2, EmptyFirst, TailSteps
  <2>2. ~Has(Tail(pc[t]), InputSteps)  BY <1>0, <2>1, TailOnce DEF Tidy, InputSteps
  <2>3. Has(Tail(pc[t]), OutputSteps) <=> Has(pc[t], OutputSteps)
    <3>1. "return_input" \notin OutputSteps  BY DEF OutputSteps
    <3> QED BY <1>0, <2>1, <3>1, TailHas
  <2>4. job'[t].in = 0 /\ job'[t].out = job[t].out
    BY <1>0, <1>1, JobChange DEF ReturnInput
  <2> QED BY <2>1, <2>2, <2>3, <2>4 DEF HasSlots
<1>2. CASE ReturnOutput(t)
  <2>1. pc[t] # <<>> /\ Head(pc[t]) = "return_output" /\ pc'[t] = Tail(pc[t])
    <3>1. pc[t] # <<>> /\ Head(pc[t]) = "return_output" /\ t \notin notifying
      BY <1>2 DEF ReturnOutput, At
    <3>2. pc'[t] = <<>> \o Tail(pc[t])  BY <1>0, <1>2 DEF ReturnOutput, Proceed, PcType
    <3> QED BY <1>0, <3>1, <3>2, EmptyFirst, TailSteps
  <2>2. ~Has(Tail(pc[t]), OutputSteps)  BY <1>0, <2>1, TailOnce DEF Tidy, OutputSteps
  <2>3. Has(Tail(pc[t]), InputSteps) <=> Has(pc[t], InputSteps)
    <3>1. "return_output" \notin InputSteps  BY DEF InputSteps
    <3> QED BY <1>0, <2>1, <3>1, TailHas
  <2>4. job'[t].out = 0 /\ job'[t].in = job[t].in
    BY <1>0, <1>2, JobChange DEF ReturnOutput
  <2> QED BY <2>1, <2>2, <2>3, <2>4 DEF HasSlots
<1>3. CASE ~ReturnInput(t) /\ ~ReturnOutput(t)
  <2>1. job' = job
    BY <1>3 DEF CallStep, SetFatal, SetStop, SetVideoFailed, CloseBroker,
       RequestCameraStop, StopQueue, NotifyCapture, Dispose, work, pipelineVars
  <2>2. \/ pc'[t] = pc[t]
        \/ pc[t] # <<>> /\ pc'[t] = Tail(pc[t])
    BY <1>0, CallMoves DEF Proceeds, PcType
  <2>3. pc'[t] = pc[t] \/ Head(pc[t]) \notin InputSteps \cup OutputSteps
    <3>1. \A q \in Queues : StopStep[q] \notin InputSteps \cup OutputSteps
      BY DEF Queues, StopStep, InputSteps, OutputSteps
    <3>2. CASE \E q \in Queues : StopQueue(t, q)  BY <3>1, <3>2 DEF StopQueue, At
    <3>3. CASE NotifyCapture(t)  BY <3>3 DEF NotifyCapture, pipelineVars
    <3>4. CASE SetFatal(t) \/ SetStop(t) \/ SetVideoFailed(t) \/ CloseBroker(t)
               \/ RequestCameraStop(t) \/ Dispose(t)
      BY <3>4 DEF SetFatal, SetStop, SetVideoFailed, CloseBroker, RequestCameraStop,
         Dispose, At, InputSteps, OutputSteps
    <3> QED BY <1>3, <3>2, <3>3, <3>4 DEF CallStep
  <2>4. /\ Has(pc'[t], InputSteps) <=> Has(pc[t], InputSteps)
        /\ Has(pc'[t], OutputSteps) <=> Has(pc[t], OutputSteps)
    BY <1>0, <2>2, <2>3, TailHas
  <2> QED BY <2>1, <2>4 DEF HasSlots
<1> QED BY <1>1, <1>2, <1>3

\* The hands of the preprocess thread.
LEMMA PreprocessHands ==
    ASSUME PcType, WorkType, Numbered, QueueType, PreprocessLoop,
           Tidy(pc["preprocess"]), HasSlots("preprocess")
    PROVE  HasSlots("preprocess")'
<1> DEFINE t == "preprocess"
<1>0. t \in Threads /\ t \in Carriers /\ pc[t] \in Seq(Steps)
  BY MainAndWorkers DEF PcType, Carriers
<1>1. \A p : Loop(t, p) => pc'[t] = p  BY <1>0 DEF Loop, PcType
<1>2. /\ At(t, "slot") => pc[t] = <<"slot">>
      /\ At(t, "frame") => pc[t] = <<"frame">>
      /\ At(t, "process") => pc[t] = <<"process">>
      /\ At(t, "push_prepared") => pc[t] = <<"push_prepared">>
  BY <1>0, AtLast DEF LastSteps
<1>3. CASE TakeInputSlot
  <2>1. job[t].in = 0 /\ job[t].out = 0
    BY <1>2, <1>3, PassLists DEF TakeInputSlot, HasSlots
  <2>2. CASE CanPop("freeIn") /\ Loop(t, <<"frame">>)
             /\ job' = [job EXCEPT ![t] = [NoJob EXCEPT !.in = Front("freeIn")]]
    <3>1. job'[t].in = Front("freeIn") /\ job'[t].out = 0
      <4>1. job'[t] = [NoJob EXCEPT !.in = Front("freeIn")]  BY <1>0, <2>2, JobChange
      <4> QED BY <4>1 DEF NoJob
    <3>2. queue["freeIn"].items \in Seq(Nat) /\ queue["freeIn"].items # <<>>
      BY <2>2, QueueItems DEF QueueType, CanPop
    <3>3. Front("freeIn") # 0  BY <3>2 DEF Numbered, Front
    <3> QED BY <1>1, <2>2, <3>1, <3>3, PassLists DEF HasSlots
  <2>3. CASE Loop(t, PreprocessExit) /\ job' = job
    BY <1>1, <2>1, <2>3, PassLists DEF HasSlots
  <2> QED BY <1>3, <2>2, <2>3 DEF TakeInputSlot
<1>4. CASE TakeFrame
  <2>1. Has(pc[t], InputSteps) /\ ~Has(pc[t], OutputSteps)
    BY <1>2, <1>4, PassLists DEF TakeFrame
  <2>2. job'[t].in = job[t].in /\ job'[t].out = job[t].out
    BY <1>0, <1>4, JobChange DEF TakeFrame
  <2>3. pc'[t] = <<"dispose", "return_input", "slot">> \/ pc'[t] = <<"process">>
    BY <1>1, <1>4 DEF TakeFrame
  <2> QED BY <2>1, <2>2, <2>3, PassLists DEF HasSlots
<1>5. CASE NoMoreFrames
  <2>1. Has(pc[t], InputSteps) /\ ~Has(pc[t], OutputSteps)
    BY <1>2, <1>5, PassLists DEF NoMoreFrames
  <2>2. job' = job /\ pc'[t] = <<"return_input">> \o PreprocessExit
    BY <1>1, <1>5 DEF NoMoreFrames, work
  <2> QED BY <2>1, <2>2, PassLists DEF HasSlots
<1>6. CASE Preprocess
  <2>1. Has(pc[t], InputSteps) /\ ~Has(pc[t], OutputSteps)
    BY <1>2, <1>6, PassLists DEF Preprocess
  <2>2. \/ job' = job /\ pc'[t] \in {<<"push_prepared">>, <<"return_input", "slot">>}
        \/ job'[t] = NoJob /\ pc'[t] = SignalFailure \o PreprocessExit
    BY <1>0, <1>1, <1>6, JobChange DEF Preprocess
  <2>3. NoJob.in = 0 /\ NoJob.out = 0  BY DEF NoJob
  <2> QED BY <2>1, <2>2, <2>3, PassLists DEF HasSlots
<1>7. CASE PushPrepared
  <2>1. Has(pc[t], InputSteps) /\ ~Has(pc[t], OutputSteps)
    BY <1>2, <1>7, PassLists DEF PushPrepared
  <2>2. \/ job' = job /\ pc'[t] = <<"return_input">> \o PreprocessExit
        \/ job'[t] = NoJob /\ pc'[t] = <<"slot">>
    BY <1>0, <1>1, <1>7, JobChange DEF PushPrepared
  <2>3. NoJob.in = 0 /\ NoJob.out = 0  BY DEF NoJob
  <2> QED BY <2>1, <2>2, <2>3, PassLists DEF HasSlots
<1>8. CASE DrainLeases(t, "captured")
  <2>1. job' = job /\ pc[t] # <<>> /\ Head(pc[t]) \notin InputSteps \cup OutputSteps
    BY <1>8 DEF DrainLeases, DrainStep, At, InputSteps, OutputSteps
  <2>2. pc'[t] = Tail(pc[t]) \/ pc'[t] = <<"dispose">> \o pc[t]
    <3>1. pc'[t] = <<>> \o Tail(pc[t]) \/ pc'[t] = <<"dispose">> \o pc[t]
      BY <1>0, <1>8 DEF DrainLeases, Proceed, PcType
    <3> QED BY <1>0, <2>1, <3>1, EmptyFirst, TailSteps
  <2>3. /\ Has(Tail(pc[t]), InputSteps) <=> Has(pc[t], InputSteps)
        /\ Has(Tail(pc[t]), OutputSteps) <=> Has(pc[t], OutputSteps)
    BY <1>0, <2>1, TailHas
  <2>4. /\ Has(<<"dispose">> \o pc[t], InputSteps) <=> Has(pc[t], InputSteps)
        /\ Has(<<"dispose">> \o pc[t], OutputSteps) <=> Has(pc[t], OutputSteps)
    <3>1. ~Has(<<"dispose">>, InputSteps) /\ ~Has(<<"dispose">>, OutputSteps)
      BY PassLists
    <3>2. <<"dispose">> \in Seq(Steps)  BY DEF Steps
    <3> QED BY <1>0, <3>1, <3>2, ConcatHas
  <2> QED BY <2>1, <2>2, <2>3, <2>4 DEF HasSlots
<1> QED BY <1>3, <1>4, <1>5, <1>6, <1>7, <1>8 DEF PreprocessLoop

\* The hands of the inference and postprocess threads.
LEMMA InferenceHands ==
    ASSUME PcType, WorkType, Numbered, JobsFed, QueueType, NEW t \in {"npu", "postprocess"},
           \/ t = "npu" /\ (NpuLoop \/ PostprocessStep(t))
           \/ t = "postprocess" /\ (TakeCompleted \/ PostprocessStep(t)),
           Tidy(pc[t]), HasSlots(t)
    PROVE  HasSlots(t)'
<1>0. t \in Threads /\ t \in Carriers /\ pc[t] \in Seq(Steps)
  BY MainAndWorkers DEF PcType, Carriers
<1>1. \A p : Loop(t, p) => pc'[t] = p  BY <1>0 DEF Loop, PcType
<1>2. /\ At(t, "prepared") => pc[t] = <<"prepared">>
      /\ At(t, "output") => pc[t] = <<"output">>
      /\ At(t, "run") => pc[t] = <<"run">>
      /\ At(t, "push_completed") => pc[t] = <<"push_completed">>
      /\ At(t, "completed") => pc[t] = <<"completed">>
      /\ At(t, "post") => pc[t] = <<"post">>
      /\ At(t, "publish_result") => pc[t] = <<"publish_result">>
  BY <1>0, AtLast DEF LastSteps
<1>3. CASE t = "npu" /\ TakePrepared
  <2>1. ~Has(pc[t], InputSteps) /\ ~Has(pc[t], OutputSteps)
    BY <1>2, <1>3, PassLists DEF TakePrepared
  <2>2. CASE CanPop("prepared") /\ Loop(t, <<"output">>)
             /\ job' = [job EXCEPT ![t] = Front("prepared")]
    <3>1. job'[t] = Front("prepared")  BY <1>0, <2>2, JobChange
    <3>2. queue["prepared"].items \in Seq(Jobs) /\ queue["prepared"].items # <<>>
      BY <2>2, QueueItems DEF QueueType, CanPop
    <3>3. Front("prepared").in # 0 /\ Front("prepared").out = 0
      BY <3>2 DEF JobsFed, Front
    <3> QED BY <1>1, <2>2, <3>1, <3>3, PassLists DEF HasSlots
  <2>3. CASE Loop(t, NpuExit) /\ job' = job  BY <1>1, <2>1, <2>3, PassLists DEF HasSlots
  <2> QED BY <1>3, <2>2, <2>3 DEF TakePrepared
<1>4. CASE t = "npu" /\ TakeOutputSlot
  <2>1. Has(pc[t], InputSteps) /\ ~Has(pc[t], OutputSteps)
    BY <1>2, <1>4, PassLists DEF TakeOutputSlot
  <2>2. CASE CanPop("freeOut") /\ Loop(t, <<"run">>)
             /\ job' = [job EXCEPT ![t].out = Front("freeOut")]
    <3>1. job'[t].out = Front("freeOut") /\ job'[t].in = job[t].in
      BY <1>0, <2>2, JobChange
    <3>2. queue["freeOut"].items \in Seq(Nat) /\ queue["freeOut"].items # <<>>
      BY <2>2, QueueItems DEF QueueType, CanPop
    <3>3. Front("freeOut") # 0  BY <3>2 DEF Numbered, Front
    <3> QED BY <1>1, <2>1, <2>2, <3>1, <3>3, PassLists DEF HasSlots
  <2>3. CASE Loop(t, <<"return_input">> \o NpuExit) /\ job' = job
    BY <1>1, <2>1, <2>3, PassLists DEF HasSlots
  <2> QED BY <1>4, <2>2, <2>3 DEF TakeOutputSlot
<1>5. CASE t = "npu" /\ Run
  <2>1. Has(pc[t], InputSteps) /\ Has(pc[t], OutputSteps)
    BY <1>2, <1>5, PassLists DEF Run
  <2>2. \/ /\ job' = [job EXCEPT ![t].in = 0]
           /\ \/ Loop(t, <<"push_completed">>) \/ Loop(t, <<"post">>)
              \/ Loop(t, <<"return_output", "prepared">>)
        \/ job' = [job EXCEPT ![t] = NoJob] /\ Loop(t, SignalFailure \o NpuExit)
    BY <1>5 DEF Run
  <2>3. \/ /\ job'[t].in = 0 /\ job'[t].out = job[t].out
           /\ pc'[t] \in {<<"push_completed">>, <<"post">>, <<"return_output", "prepared">>}
        \/ job'[t] = NoJob /\ pc'[t] = SignalFailure \o NpuExit
    BY <1>0, <1>1, <2>2, JobChange
  <2>4. NoJob.in = 0 /\ NoJob.out = 0  BY DEF NoJob
  <2> QED BY <2>1, <2>3, <2>4, PassLists DEF HasSlots
<1>6. CASE t = "npu" /\ PushCompleted
  <2>1. ~Has(pc[t], InputSteps) /\ Has(pc[t], OutputSteps)
    BY <1>2, <1>6, PassLists DEF PushCompleted
  <2>2. \/ job' = job /\ pc'[t] = <<"return_output">> \o NpuExit
        \/ job'[t] = NoJob /\ pc'[t] = <<"prepared">>
    BY <1>0, <1>1, <1>6, JobChange DEF PushCompleted
  <2>3. NoJob.in = 0 /\ NoJob.out = 0  BY DEF NoJob
  <2> QED BY <2>1, <2>2, <2>3, PassLists DEF HasSlots
<1>7. CASE t = "postprocess" /\ TakeCompleted
  <2>1. ~Has(pc[t], InputSteps) /\ ~Has(pc[t], OutputSteps)
    BY <1>2, <1>7, PassLists DEF TakeCompleted
  <2>2. CASE CanPop("completed") /\ Loop(t, <<"post">>)
             /\ job' = [job EXCEPT ![t] = Front("completed")]
    <3>1. job'[t] = Front("completed")  BY <1>0, <2>2, JobChange
    <3>2. queue["completed"].items \in Seq(Jobs) /\ queue["completed"].items # <<>>
      BY <2>2, QueueItems DEF QueueType, CanPop
    <3>3. Front("completed").in = 0 /\ Front("completed").out # 0
      BY <3>2 DEF JobsFed, Front
    <3> QED BY <1>1, <2>2, <3>1, <3>3, PassLists DEF HasSlots
  <2>3. CASE Loop(t, <<>>) /\ job' = job  BY <1>1, <2>1, <2>3, PassLists DEF HasSlots
  <2> QED BY <1>7, <2>2, <2>3 DEF TakeCompleted
<1>8. CASE Postprocess(t)
  <2>1. ~Has(pc[t], InputSteps) /\ Has(pc[t], OutputSteps)
    BY <1>2, <1>8, PassLists DEF Postprocess
  <2>2. \/ Loop(t, <<"publish_result">>) /\ job' = [job EXCEPT ![t].out = 0]
        \/ Loop(t, <<NextRound(t)>>) /\ job' = [job EXCEPT ![t] = NoJob]
    BY <1>8 DEF Postprocess
  <2>3. \/ pc'[t] = <<"publish_result">> /\ job'[t].out = 0 /\ job'[t].in = job[t].in
        \/ pc'[t] \in {<<"prepared">>, <<"completed">>} /\ job'[t] = NoJob
    BY <1>0, <1>1, <2>2, JobChange DEF NextRound
  <2>4. NoJob.in = 0 /\ NoJob.out = 0  BY DEF NoJob
  <2> QED BY <2>1, <2>3, <2>4, PassLists DEF HasSlots
<1>9. CASE PublishResult(t)
  <2>1. pc'[t] \in {<<"prepared">>, <<"completed">>} /\ job'[t] = NoJob
    BY <1>0, <1>1, <1>9, JobChange DEF PublishResult, NextRound
  <2>2. NoJob.in = 0 /\ NoJob.out = 0  BY DEF NoJob
  <2> QED BY <2>1, <2>2, PassLists DEF HasSlots
<1> QED BY <1>3, <1>4, <1>5, <1>6, <1>7, <1>8, <1>9 DEF NpuLoop, PostprocessStep

\* Each stage has its slots where it will pass them on, and the queues hold fed jobs.
LEMMA SlotsInHandStep ==
    ASSUME PcType, WorkType, QueueType, Fresh, Numbered, JobsFed, SlotsInHand,
           NEW t \in Threads, ThreadStep(t)
    PROVE  SlotsInHand'
<1> USE MainAndWorkers
<1> SUFFICES ASSUME NEW u \in Carriers PROVE Tidy(pc'[u]) /\ HasSlots(u)'
  BY DEF SlotsInHand
<1>0. /\ u \in Threads /\ u \in Workers /\ pc[u] \in Seq(Steps)
      /\ Tidy(pc[u]) /\ HasSlots(u)
  BY DEF PcType, Carriers, SlotsInHand
<1>1. CASE u # t
  <2>1. job'[u] = job[u]  BY <1>0, <1>1, JobsKept
  <2>2. CASE pc'[u] = pc[u]  BY <1>0, <2>1, <2>2 DEF HasSlots
  <2>3. CASE t = "main" /\ Spawns
    <3>1. pc[u] = <<>> /\ (pc'[u] = <<>> \/ pc'[u] = <<FirstStep[u]>>)
      BY <1>0, <2>3, SpawnEffect, SpawnFresh
    <3>2. /\ ~Has(pc[u], InputSteps) /\ ~Has(pc[u], OutputSteps)
          /\ ~Has(pc'[u], InputSteps) /\ ~Has(pc'[u], OutputSteps)
      <4>1. FirstStep[u] \in {"slot", "prepared", "completed"}
        BY DEF Carriers, FirstStep
      <4> QED BY <3>1, <4>1, PassLists
    <3>3. Tidy(pc'[u])  BY <3>1, TidyLists
    <3> QED BY <1>0, <2>1, <3>2, <3>3 DEF HasSlots
  <2> QED BY <1>0, <1>1, <2>2, <2>3, OthersWait
<1>2. CASE u = t
  <2>1. Tidy(pc'[u])  BY <1>0, <1>2, ThreadMoves, TidyStep
  <2>2. HasSlots(u)'
    <3>1. CASE CallStep(t)  BY <1>0, <1>2, <3>1, CallHands
    <3>2. CASE t = "preprocess" /\ PreprocessLoop  BY <1>0, <1>2, <3>2, PreprocessHands
    <3>3. CASE \/ t = "npu" /\ (NpuLoop \/ PostprocessStep(t))
               \/ t = "postprocess" /\ (TakeCompleted \/ PostprocessStep(t))
      BY <1>0, <1>2, <3>3, InferenceHands
    <3> QED BY <1>2, <3>1, <3>2, <3>3 DEF ThreadStep, Carriers
  <2> QED BY <2>1, <2>2
<1> QED BY <1>1, <1>2

\* Two lists of numbers with the same elements are the same list.
LEMMA SameNumbers ==
    ASSUME NEW a \in Seq(Nat), NEW b \in Seq(Nat), Len(a) = Len(b),
           \A i \in 1..Len(a) : a[i] = b[i]
    PROVE  a = b
  OBVIOUS

\* The slots of the jobs in a stage queue, one by one.
LEMMA JobSlots ==
    ASSUME NEW s \in Seq(Jobs)
    PROVE  /\ InputsOf(s) \in Seq(Nat) /\ OutputsOf(s) \in Seq(Nat)
           /\ Len(InputsOf(s)) = Len(s) /\ Len(OutputsOf(s)) = Len(s)
           /\ \A i \in 1..Len(s) : InputsOf(s)[i] = s[i].in /\ OutputsOf(s)[i] = s[i].out
<1>1. \A i \in DOMAIN s : s[i].in \in Nat /\ s[i].out \in Nat
  <2> SUFFICES ASSUME NEW i \in DOMAIN s PROVE s[i].in \in Nat /\ s[i].out \in Nat
    OBVIOUS
  <2>1. s[i] \in Jobs  OBVIOUS
  <2> QED BY <2>1 DEF Jobs
<1>2. DOMAIN s = 1..Len(s) /\ Len(s) \in Nat  OBVIOUS
<1>3. InputsOf(s) \in [1..Len(s) -> Nat] /\ OutputsOf(s) \in [1..Len(s) -> Nat]
  BY <1>1, <1>2 DEF InputsOf, OutputsOf
<1>4. InputsOf(s) \in Seq(Nat) /\ OutputsOf(s) \in Seq(Nat)  BY <1>2, <1>3
<1>5. Len(InputsOf(s)) = Len(s) /\ Len(OutputsOf(s)) = Len(s)  BY <1>2, <1>3, <1>4
<1> QED BY <1>2, <1>4, <1>5 DEF InputsOf, OutputsOf

\* The slots of a stage queue lie in it as its jobs do.
LEMMA SlotsOfJobs ==
    ASSUME NEW s \in Seq(Jobs)
    PROVE  /\ InputsOf(s) \in Seq(Nat) /\ OutputsOf(s) \in Seq(Nat)
           /\ s # <<>> => /\ InputsOf(s) # <<>> /\ Head(InputsOf(s)) = Head(s).in
                          /\ InputsOf(Tail(s)) = Tail(InputsOf(s))
                          /\ OutputsOf(s) # <<>> /\ Head(OutputsOf(s)) = Head(s).out
                          /\ OutputsOf(Tail(s)) = Tail(OutputsOf(s))
           /\ \A j \in Jobs : /\ InputsOf(Append(s, j)) = Append(InputsOf(s), j.in)
                              /\ OutputsOf(Append(s, j)) = Append(OutputsOf(s), j.out)
<1> DEFINE ins == InputsOf(s)
           outs == OutputsOf(s)
<1>1. /\ ins \in Seq(Nat) /\ outs \in Seq(Nat) /\ Len(ins) = Len(s) /\ Len(outs) = Len(s)
      /\ \A i \in 1..Len(s) : ins[i] = s[i].in /\ outs[i] = s[i].out
  BY JobSlots
<1>2. ASSUME s # <<>>
      PROVE  /\ ins # <<>> /\ Head(ins) = Head(s).in /\ InputsOf(Tail(s)) = Tail(ins)
             /\ outs # <<>> /\ Head(outs) = Head(s).out /\ OutputsOf(Tail(s)) = Tail(outs)
  <2> DEFINE r == Tail(s)
  <2>1. /\ Len(s) > 0 /\ r \in Seq(Jobs) /\ Len(r) = Len(s) - 1 /\ Head(s) = s[1]
        /\ \A i \in 1..Len(r) : r[i] = s[i + 1] /\ i + 1 \in 1..Len(s)
    BY <1>2
  <2> HIDE DEF r, ins, outs
  <2>2. /\ ins # <<>> /\ Head(ins) = s[1].in /\ outs # <<>> /\ Head(outs) = s[1].out
    <3>1. 1 \in 1..Len(s) /\ ins # <<>> /\ outs # <<>>  BY <1>1, <2>1
    <3>2. Head(ins) = ins[1] /\ Head(outs) = outs[1]  BY <1>1, <3>1
    <3> QED BY <1>1, <3>1, <3>2
  <2>3. /\ InputsOf(r) \in Seq(Nat) /\ OutputsOf(r) \in Seq(Nat)
        /\ Len(InputsOf(r)) = Len(r) /\ Len(OutputsOf(r)) = Len(r)
        /\ \A i \in 1..Len(r) : InputsOf(r)[i] = r[i].in /\ OutputsOf(r)[i] = r[i].out
    BY <2>1, JobSlots
  <2>4. /\ Tail(ins) \in Seq(Nat) /\ Len(Tail(ins)) = Len(r)
        /\ Tail(outs) \in Seq(Nat) /\ Len(Tail(outs)) = Len(r)
        /\ \A i \in 1..Len(r) : Tail(ins)[i] = ins[i + 1] /\ Tail(outs)[i] = outs[i + 1]
    BY <1>1, <2>1, <2>2
  <2>5. \A i \in 1..Len(r) : /\ InputsOf(r)[i] = Tail(ins)[i]
                             /\ OutputsOf(r)[i] = Tail(outs)[i]
    BY <1>1, <2>1, <2>3, <2>4
  <2>6. InputsOf(r) = Tail(ins) /\ OutputsOf(r) = Tail(outs)
    BY <2>3, <2>4, <2>5, SameNumbers
  <2> QED BY <2>1, <2>2, <2>6 DEF r, ins, outs
<1>3. ASSUME NEW j \in Jobs
      PROVE  /\ InputsOf(Append(s, j)) = Append(ins, j.in)
             /\ OutputsOf(Append(s, j)) = Append(outs, j.out)
  <2> DEFINE r == Append(s, j)
             x == j.in
             y == j.out
             newIns == Append(ins, x)
             newOuts == Append(outs, y)
  <2>0. x \in Nat /\ y \in Nat /\ Len(s) \in Nat  BY DEF Jobs
  <2>1. /\ r \in Seq(Jobs) /\ Len(r) = Len(s) + 1 /\ r[Len(r)] = j
        /\ \A i \in 1..Len(s) : r[i] = s[i]
    OBVIOUS
  <2> HIDE DEF r, ins, outs, x, y
  <2>2. /\ newIns \in Seq(Nat) /\ Len(newIns) = Len(r) /\ newIns[Len(r)] = x
        /\ \A i \in 1..Len(s) : newIns[i] = ins[i]
    BY <1>1, <2>0, <2>1
  <2>3. /\ newOuts \in Seq(Nat) /\ Len(newOuts) = Len(r) /\ newOuts[Len(r)] = y
        /\ \A i \in 1..Len(s) : newOuts[i] = outs[i]
    BY <1>1, <2>0, <2>1
  <2>4. /\ InputsOf(r) \in Seq(Nat) /\ OutputsOf(r) \in Seq(Nat)
        /\ Len(InputsOf(r)) = Len(r) /\ Len(OutputsOf(r)) = Len(r)
        /\ \A i \in 1..Len(r) : InputsOf(r)[i] = r[i].in /\ OutputsOf(r)[i] = r[i].out
    BY <2>1, JobSlots
  <2> HIDE DEF newIns, newOuts
  <2>5. \A i \in 1..Len(r) : InputsOf(r)[i] = newIns[i] /\ OutputsOf(r)[i] = newOuts[i]
    <3> SUFFICES ASSUME NEW i \in 1..Len(r)
                 PROVE  InputsOf(r)[i] = newIns[i] /\ OutputsOf(r)[i] = newOuts[i]
      OBVIOUS
    <3>1. i \in 1..Len(s) \/ i = Len(r)  BY <2>0, <2>1
    <3>2. CASE i \in 1..Len(s)  BY <1>1, <2>1, <2>2, <2>3, <2>4, <3>2
    <3>3. CASE i = Len(r)  BY <2>1, <2>2, <2>3, <2>4, <3>3 DEF x, y
    <3> QED BY <3>1, <3>2, <3>3
  <2>6. InputsOf(r) = newIns /\ OutputsOf(r) = newOuts
    BY <2>2, <2>3, <2>4, <2>5, SameNumbers
  <2> QED BY <2>6 DEF r, newIns, newOuts, x, y
<1> QED BY <1>1, <1>2, <1>3

\* What the threads have, before and after.
LEMMA HeldChange ==
    ASSUME WorkType, NEW t \in Threads
    PROVE  /\ InputsHeld \in [Threads -> Nat] /\ OutputsHeld \in [Threads -> Nat]
           /\ InputsHeld[t] = job[t].in /\ OutputsHeld[t] = job[t].out
           /\ job' = job => InputsHeld' = InputsHeld /\ OutputsHeld' = OutputsHeld
           /\ \A n : job' = [job EXCEPT ![t].in = n] =>
                  InputsHeld' = [InputsHeld EXCEPT ![t] = n] /\ OutputsHeld' = OutputsHeld
           /\ \A n : job' = [job EXCEPT ![t].out = n] =>
                  OutputsHeld' = [OutputsHeld EXCEPT ![t] = n] /\ InputsHeld' = InputsHeld
           /\ \A n : job' = [job EXCEPT ![t].frame = n] =>
                  InputsHeld' = InputsHeld /\ OutputsHeld' = OutputsHeld
           /\ \A j : job' = [job EXCEPT ![t] = j] =>
                  /\ InputsHeld' = [InputsHeld EXCEPT ![t] = j.in]
                  /\ OutputsHeld' = [OutputsHeld EXCEPT ![t] = j.out]
           /\ job[t].in = 0 => [InputsHeld EXCEPT ![t] = 0] = InputsHeld
           /\ job[t].out = 0 => [OutputsHeld EXCEPT ![t] = 0] = OutputsHeld
<1>1. \A u \in Threads : job[u] \in Jobs /\ job[u].in \in Nat /\ job[u].out \in Nat
  BY DEF WorkType, Jobs
<1>2. /\ InputsHeld \in [Threads -> Nat] /\ OutputsHeld \in [Threads -> Nat]
      /\ InputsHeld[t] = job[t].in /\ OutputsHeld[t] = job[t].out
  BY <1>1 DEF InputsHeld, OutputsHeld
<1>3. job' = job => InputsHeld' = InputsHeld /\ OutputsHeld' = OutputsHeld
  BY DEF InputsHeld, OutputsHeld
<1>4. ASSUME \A u \in Threads \ {t} : job'[u] = job[u]
      PROVE  /\ InputsHeld' = [InputsHeld EXCEPT ![t] = job'[t].in]
             /\ OutputsHeld' = [OutputsHeld EXCEPT ![t] = job'[t].out]
  BY <1>4 DEF InputsHeld, OutputsHeld
<1>5. /\ [InputsHeld EXCEPT ![t] = job[t].in] = InputsHeld
      /\ [OutputsHeld EXCEPT ![t] = job[t].out] = OutputsHeld
  BY <1>2
<1>6. ASSUME NEW n,
             \/ job' = [job EXCEPT ![t].in = n] \/ job' = [job EXCEPT ![t].out = n]
             \/ job' = [job EXCEPT ![t].frame = n] \/ job' = [job EXCEPT ![t] = n]
      PROVE  \A u \in Threads \ {t} : job'[u] = job[u]
  BY <1>6 DEF WorkType
<1>7. ASSUME NEW n, job' = [job EXCEPT ![t].in = n]
      PROVE  InputsHeld' = [InputsHeld EXCEPT ![t] = n] /\ OutputsHeld' = OutputsHeld
  <2>1. job'[t].in = n /\ job'[t].out = job[t].out  BY <1>7, JobChange
  <2> QED BY <1>4, <1>5, <1>6, <1>7, <2>1
<1>8. ASSUME NEW n, job' = [job EXCEPT ![t].out = n]
      PROVE  OutputsHeld' = [OutputsHeld EXCEPT ![t] = n] /\ InputsHeld' = InputsHeld
  <2>1. job'[t].out = n /\ job'[t].in = job[t].in  BY <1>8, JobChange
  <2> QED BY <1>4, <1>5, <1>6, <1>8, <2>1
<1>9. ASSUME NEW n, job' = [job EXCEPT ![t].frame = n]
      PROVE  InputsHeld' = InputsHeld /\ OutputsHeld' = OutputsHeld
  <2>1. job'[t].out = job[t].out /\ job'[t].in = job[t].in  BY <1>9, JobChange
  <2> QED BY <1>4, <1>5, <1>6, <1>9, <2>1
<1>10. ASSUME NEW j, job' = [job EXCEPT ![t] = j]
       PROVE  /\ InputsHeld' = [InputsHeld EXCEPT ![t] = j.in]
              /\ OutputsHeld' = [OutputsHeld EXCEPT ![t] = j.out]
  <2>1. job'[t] = j  BY <1>10, JobChange
  <2> QED BY <1>4, <1>6, <1>10, <2>1
<1>11. /\ job[t].in = 0 => [InputsHeld EXCEPT ![t] = 0] = InputsHeld
       /\ job[t].out = 0 => [OutputsHeld EXCEPT ![t] = 0] = OutputsHeld
  BY <1>5
<1> QED BY <1>2, <1>3, <1>7, <1>8, <1>9, <1>10, <1>11

\* The jobs in the stage queues.
LEMMA JobsFedStep ==
    ASSUME PcType, WorkType, QueueType, JobsFed, SlotsInHand, NEW t \in Threads, ThreadStep(t)
    PROVE  JobsFed'
<1> USE MainAndWorkers
<1> DEFINE pre(s) == \A i \in DOMAIN s : s[i].in # 0 /\ s[i].out = 0
           com(s) == \A i \in DOMAIN s : s[i].in = 0 /\ s[i].out # 0
           pitems == queue["prepared"].items
           citems == queue["completed"].items
<1>1. /\ pitems \in Seq(Jobs) /\ citems \in Seq(Jobs) /\ pre(pitems) /\ com(citems)
      /\ {"prepared", "completed", "captured", "freeIn", "freeOut"} \subseteq Queues
  BY QueueItems DEF QueueType, JobsFed
<1>2. \A s \in Seq(Jobs) : s # <<>> => /\ pre(s) => pre(Tail(s))
                                       /\ com(s) => com(Tail(s))
  OBVIOUS
<1>3. \A s \in Seq(Jobs) : \A j \in Jobs : /\ pre(s) /\ j.in # 0 /\ j.out = 0 => pre(Append(s, j))
                                           /\ com(s) /\ j.in = 0 /\ j.out # 0 => com(Append(s, j))
  OBVIOUS
<1> SUFFICES pre(pitems') /\ com(citems')  BY DEF JobsFed
<1> HIDE DEF pre, com
<1>4. ASSUME NoFrameCarried PROVE pre(pitems') /\ com(citems')
  BY <1>1, <1>2, <1>4 DEF NoFrameCarried, Shortened
<1>5. CASE CallStep(t)  BY <1>4, <1>5, CallsCarryNothing
<1>6. CASE \/ t = "main" /\ Supervise
           \/ t = "video" /\ VideoLoop
           \/ t = "encoded" /\ EncodedPacketLoop
  BY <1>4, <1>6, OthersCarryNothing
<1>7. CASE t = "capture" /\ CaptureLoop
  <2>1. CASE \/ (\E b \in Buffers : PollFrame(b)) \/ PublishFrame \/ PushCaptured
    <3>1. pitems' = pitems /\ citems' = citems
      <4>1. queue' = queue \/ \E item : PushLatest("captured", item)
        BY <2>1 DEF PollFrame, PublishFrame, PushCaptured
      <4> QED BY <1>1, <4>1, QueuesApart
    <3> QED BY <1>1, <3>1
  <2> QED BY <1>4, <1>7, <2>1, CaptureCarriesNothing
<1>8. CASE \/ t = "preprocess" /\ PreprocessLoop
           \/ t = "npu" /\ (NpuLoop \/ PostprocessStep(t))
           \/ t = "postprocess" /\ (TakeCompleted \/ PostprocessStep(t))
  <2>1. CASE TakeFrame
    <3>1. pitems' = pitems /\ citems' = citems  BY <1>1, <2>1, QueuesApart DEF TakeFrame
    <3> QED BY <1>1, <3>1
  <2>2. CASE PushPrepared
    <3>0. Tidy(pc["preprocess"]) /\ HasSlots("preprocess") /\ "preprocess" \in Carriers /\ job["preprocess"] \in Jobs
      BY <2>2 DEF SlotsInHand, Carriers, WorkType
    <3>1. pc["preprocess"] = <<"push_prepared">>
      BY <2>2, <3>0, AtLast DEF PushPrepared, LastSteps
    <3>2. job["preprocess"].in # 0 /\ job["preprocess"].out = 0
      BY <3>0, <3>1, PassLists DEF HasSlots
    <3>3. citems' = citems  BY <1>1, <2>2, QueuesApart DEF PushPrepared
    <3>4. pitems' = pitems \/ pitems' = Append(pitems, job["preprocess"])
      BY <1>1, <2>2, <3>0, TryPushEffect, QueueItems DEF PushPrepared
    <3> QED BY <1>1, <1>3, <3>0, <3>2, <3>3, <3>4
  <2>3. CASE TakePrepared
    <3>1. citems' = citems  BY <1>1, <2>3, QueuesApart DEF TakePrepared
    <3>2. pitems' = pitems \/ (pitems # <<>> /\ pitems' = Tail(pitems))
      BY <1>1, <2>3, PopEffect DEF TakePrepared, CanPop
    <3> QED BY <1>1, <1>2, <3>1, <3>2
  <2>4. CASE PushCompleted
    <3>0. Tidy(pc["npu"]) /\ HasSlots("npu") /\ "npu" \in Carriers /\ job["npu"] \in Jobs
      BY <2>4 DEF SlotsInHand, Carriers, WorkType
    <3>1. pc["npu"] = <<"push_completed">>
      BY <2>4, <3>0, AtLast DEF PushCompleted, LastSteps
    <3>2. job["npu"].in = 0 /\ job["npu"].out # 0  BY <3>0, <3>1, PassLists DEF HasSlots
    <3>3. pitems' = pitems  BY <1>1, <2>4, QueuesApart DEF PushCompleted
    <3>4. citems' = citems \/ citems' = Append(citems, job["npu"])
      BY <1>1, <2>4, <3>0, TryPushEffect, QueueItems DEF PushCompleted
    <3> QED BY <1>1, <1>3, <3>0, <3>2, <3>3, <3>4
  <2>5. CASE TakeCompleted
    <3>1. pitems' = pitems  BY <1>1, <2>5, QueuesApart DEF TakeCompleted
    <3>2. citems' = citems \/ (citems # <<>> /\ citems' = Tail(citems))
      BY <1>1, <2>5, PopEffect DEF TakeCompleted, CanPop
    <3> QED BY <1>1, <1>2, <3>1, <3>2
  <2>6. CASE PublishResult(t)  BY <1>1, <2>6 DEF PublishResult
  <2> QED BY <1>4, <1>8, <2>1, <2>2, <2>3, <2>4, <2>5, <2>6, StagesCarryNothing
<1> QED BY <1>5, <1>6, <1>7, <1>8 DEF ThreadStep

\* What a step does with the slots, and with an excuse.
InputFlow(t) ==
    GoesRound(queue["freeIn"].items, InputsOf(queue["prepared"].items), InputsHeld,
              queue'["freeIn"].items, InputsOf(queue'["prepared"].items), InputsHeld', t)
InputLost(t) ==
    Lost(queue["freeIn"].items, InputsOf(queue["prepared"].items), InputsHeld,
         queue'["freeIn"].items, InputsOf(queue'["prepared"].items), InputsHeld', t)
OutputFlow(t) ==
    GoesRound(queue["freeOut"].items, OutputsOf(queue["completed"].items), OutputsHeld,
              queue'["freeOut"].items, OutputsOf(queue'["completed"].items), OutputsHeld', t)
OutputLost(t) ==
    Lost(queue["freeOut"].items, OutputsOf(queue["completed"].items), OutputsHeld,
         queue'["freeOut"].items, OutputsOf(queue'["completed"].items), OutputsHeld', t)
InputsGo(t) == InputFlow(t) \/ (InputLost(t) /\ Excused("freeIn")')
OutputsGo(t) == OutputFlow(t) \/ (OutputLost(t) /\ Excused("freeOut")')

InputsKept ==
    /\ queue'["freeIn"].items = queue["freeIn"].items
    /\ queue'["prepared"].items = queue["prepared"].items
    /\ InputsHeld' = InputsHeld
OutputsKept ==
    /\ queue'["freeOut"].items = queue["freeOut"].items
    /\ queue'["completed"].items = queue["completed"].items
    /\ OutputsHeld' = OutputsHeld
\* A step that leaves the slots where they are lets them go round.
LEMMA KeptGo ==
    ASSUME NEW t
    PROVE  (InputsKept => InputsGo(t)) /\ (OutputsKept => OutputsGo(t))
  BY DEF InputsKept, OutputsKept, InputsGo, OutputsGo, InputFlow, OutputFlow, GoesRound

\* While a thread has a slot there is room for it among the free ones.
LEMMA RoomForSlots ==
    ASSUME QueueType, WorkType, NEW t \in Threads,
           Accounted(InputAt, InSlots, "freeIn"), Accounted(OutputAt, OutSlots, "freeOut")
    PROVE  /\ job[t].in # 0 => ~Full("freeIn")
           /\ job[t].out # 0 => ~Full("freeOut")
<1> USE MainAndWorkers
<1>1. /\ queue["freeIn"].items \in Seq(Nat) /\ queue["freeOut"].items \in Seq(Nat)
      /\ queue["prepared"].items \in Seq(Jobs) /\ queue["completed"].items \in Seq(Jobs)
  BY QueueItems DEF QueueType
<1>2. /\ InputsOf(queue["prepared"].items) \in Seq(Nat)
      /\ OutputsOf(queue["completed"].items) \in Seq(Nat)
  BY <1>1, SlotsOfJobs
<1>3. \A n \in Nat : SlotHeld(n) \in Seq(Nat)  BY DEF SlotHeld
<1>4. InputsHeld \in [Threads -> Nat] /\ OutputsHeld \in [Threads -> Nat]  BY HeldChange
<1>5. Capacity["freeIn"] \in Nat /\ Capacity["freeOut"] \in Nat
  BY CapacityPositive DEF Queues
<1>6. ASSUME job[t].in # 0 PROVE ~Full("freeIn")
  <2> DEFINE N == Threads \cup {"freeIn", "prepared"}
             n == Capacity["freeIn"]
             P == InputAt
  <2>1. P \in [N -> Seq(Nat)]  BY <1>1, <1>2, <1>3, <1>4 DEF InputAt, SlotsAt
  <2>2. Single(P) /\ \A c \in N : \A i \in DOMAIN P[c] : P[c][i] \in 1..n
    BY <2>1 DEF Accounted, InSlots
  <2>3. "freeIn" \in N /\ t \in N /\ t # "freeIn" /\ t # "prepared"
    BY PipelineThreads DEF Workers
  <2>4. P["freeIn"] = queue["freeIn"].items /\ P[t] = SlotHeld(job[t].in)
    BY <2>3 DEF InputAt, SlotsAt, InputsHeld
  <2>5. P[t] # <<>>  BY <1>6, <2>4 DEF SlotHeld
  <2>6. n \in Nat  BY <1>5
  <2> HIDE DEF N, n, P
  <2> DEFINE k == Len(P["freeIn"])
  <2>7. k < n  BY <2>1, <2>2, <2>3, <2>5, <2>6, RoomElsewhere
  <2>8. k \in Nat  BY <2>1, <2>3
  <2> HIDE DEF k
  <2>9. k # n  BY <2>6, <2>7, <2>8
  <2>10. Len(queue["freeIn"].items) = k  BY <2>4 DEF k
  <2> QED BY <2>9, <2>10 DEF Full, n
<1>7. ASSUME job[t].out # 0 PROVE ~Full("freeOut")
  <2> DEFINE N == Threads \cup {"freeOut", "completed"}
             n == Capacity["freeOut"]
             P == OutputAt
  <2>1. P \in [N -> Seq(Nat)]  BY <1>1, <1>2, <1>3, <1>4 DEF OutputAt, SlotsAt
  <2>2. Single(P) /\ \A c \in N : \A i \in DOMAIN P[c] : P[c][i] \in 1..n
    BY <2>1 DEF Accounted, OutSlots
  <2>3. "freeOut" \in N /\ t \in N /\ t # "freeOut" /\ t # "completed"
    BY PipelineThreads DEF Workers
  <2>4. P["freeOut"] = queue["freeOut"].items /\ P[t] = SlotHeld(job[t].out)
    BY <2>3 DEF OutputAt, SlotsAt, OutputsHeld
  <2>5. P[t] # <<>>  BY <1>7, <2>4 DEF SlotHeld
  <2>6. n \in Nat  BY <1>5
  <2> HIDE DEF N, n, P
  <2> DEFINE k == Len(P["freeOut"])
  <2>7. k < n  BY <2>1, <2>2, <2>3, <2>5, <2>6, RoomElsewhere
  <2>8. k \in Nat  BY <2>1, <2>3
  <2> HIDE DEF k
  <2>9. k # n  BY <2>6, <2>7, <2>8
  <2>10. Len(queue["freeOut"].items) = k  BY <2>4 DEF k
  <2> QED BY <2>9, <2>10 DEF Full, n
<1> QED BY <1>6, <1>7

\* So a slot given back becomes a free one, unless the queue is stopped.
LEMMA SlotReturned ==
    ASSUME QueueType, WorkType, NEW t \in Threads,
           Accounted(InputAt, InSlots, "freeIn"), Accounted(OutputAt, OutSlots, "freeOut")
    PROVE  /\ job[t].in # 0 /\ TryPush("freeIn", job[t].in)
                /\ InputsHeld' = [InputsHeld EXCEPT ![t] = 0] => InputsGo(t)
           /\ job[t].out # 0 /\ TryPush("freeOut", job[t].out)
                /\ OutputsHeld' = [OutputsHeld EXCEPT ![t] = 0] => OutputsGo(t)
<1> USE MainAndWorkers
<1>0. /\ job[t].in \in Nat /\ job[t].out \in Nat
      /\ InputsHeld[t] = job[t].in /\ OutputsHeld[t] = job[t].out
  BY HeldChange DEF WorkType, Jobs
<1>1. ASSUME job[t].in # 0, TryPush("freeIn", job[t].in),
             InputsHeld' = [InputsHeld EXCEPT ![t] = 0]
      PROVE  InputsGo(t)
  <2>1. queue'["prepared"].items = queue["prepared"].items
    BY <1>1, QueuesApart DEF Queues
  <2>2. ~Full("freeIn")  BY <1>1, RoomForSlots
  <2>3. CASE queue["freeIn"].stopped
    <3>1. queue' = queue  BY <1>1, <2>3 DEF TryPush
    <3> QED BY <1>0, <1>1, <2>3, <3>1 DEF InputsGo, InputLost, Lost, Excused
  <2>4. CASE ~queue["freeIn"].stopped
    <3>1. queue'["freeIn"].items = Append(queue["freeIn"].items, job[t].in)
      BY <1>0, <1>1, <2>2, <2>4, TryPushEffect, QueueItems DEF Queues
    <3> QED BY <1>0, <1>1, <2>1, <3>1 DEF InputsGo, InputFlow, GoesRound, GivenBack
  <2> QED BY <2>3, <2>4
<1>2. ASSUME job[t].out # 0, TryPush("freeOut", job[t].out),
             OutputsHeld' = [OutputsHeld EXCEPT ![t] = 0]
      PROVE  OutputsGo(t)
  <2>1. queue'["completed"].items = queue["completed"].items
    BY <1>2, QueuesApart DEF Queues
  <2>2. ~Full("freeOut")  BY <1>2, RoomForSlots
  <2>3. CASE queue["freeOut"].stopped
    <3>1. queue' = queue  BY <1>2, <2>3 DEF TryPush
    <3> QED BY <1>0, <1>2, <2>3, <3>1 DEF OutputsGo, OutputLost, Lost, Excused
  <2>4. CASE ~queue["freeOut"].stopped
    <3>1. queue'["freeOut"].items = Append(queue["freeOut"].items, job[t].out)
      BY <1>0, <1>2, <2>2, <2>4, TryPushEffect, QueueItems DEF Queues
    <3> QED BY <1>0, <1>2, <2>1, <3>1 DEF OutputsGo, OutputFlow, GoesRound, GivenBack
  <2> QED BY <2>3, <2>4
<1> QED BY <1>1, <1>2

\* Calls: only a slot is given back.
LEMMA CallSlots ==
    ASSUME PcType, QueueType, WorkType, SlotsInHand, NoSlots, NEW t \in Threads, CallStep(t),
           Accounted(InputAt, InSlots, "freeIn"), Accounted(OutputAt, OutSlots, "freeOut")
    PROVE  InputsGo(t) /\ OutputsGo(t)
<1> USE MainAndWorkers
<1>0. {"freeIn", "prepared", "freeOut", "completed"} \subseteq Queues  BY DEF Queues
<1>1. CASE ReturnInput(t)
  <2>1. pc[t] # <<>> /\ Head(pc[t]) = "return_input" /\ pc[t] \in Seq(Steps)
    BY <1>1 DEF ReturnInput, At, PcType
  <2>2. Has(pc[t], {"return_input", "return_output"}) /\ Has(pc[t], InputSteps)
    BY <2>1 DEF Has, InputSteps
  <2>3. job[t].in # 0  BY <2>2 DEF SlotsInHand, NoSlots, HasSlots
  <2>4. InputsHeld' = [InputsHeld EXCEPT ![t] = 0] /\ OutputsHeld' = OutputsHeld
    BY <1>1, HeldChange DEF ReturnInput
  <2>5. OutputsKept  BY <1>0, <1>1, <2>4, QueuesApart DEF OutputsKept, ReturnInput
  <2> QED BY <1>1, <2>3, <2>4, <2>5, SlotReturned, KeptGo DEF ReturnInput
<1>2. CASE ReturnOutput(t)
  <2>1. pc[t] # <<>> /\ Head(pc[t]) = "return_output" /\ pc[t] \in Seq(Steps)
    BY <1>2 DEF ReturnOutput, At, PcType
  <2>2. Has(pc[t], {"return_input", "return_output"}) /\ Has(pc[t], OutputSteps)
    BY <2>1 DEF Has, OutputSteps
  <2>3. job[t].out # 0  BY <2>2 DEF SlotsInHand, NoSlots, HasSlots
  <2>4. OutputsHeld' = [OutputsHeld EXCEPT ![t] = 0] /\ InputsHeld' = InputsHeld
    BY <1>2, HeldChange DEF ReturnOutput
  <2>5. InputsKept  BY <1>0, <1>2, <2>4, QueuesApart DEF InputsKept, ReturnOutput
  <2> QED BY <1>2, <2>3, <2>4, <2>5, SlotReturned, KeptGo DEF ReturnOutput
<1>3. CASE ~ReturnInput(t) /\ ~ReturnOutput(t)
  <2>1. job' = job /\ (queue' = queue \/ \E q \in Queues : StopQueue(t, q))
    BY <1>3 DEF CallStep, SetFatal, SetStop, SetVideoFailed, CloseBroker,
       RequestCameraStop, StopQueue, NotifyCapture, Dispose, work, pipelineVars
  <2>2. InputsHeld' = InputsHeld /\ OutputsHeld' = OutputsHeld  BY <2>1, HeldChange
  <2>3. \A q \in {"freeIn", "prepared", "freeOut", "completed"} :
            queue'[q].items = queue[q].items
    BY <1>0, <2>1, QueuesApart DEF StopQueue
  <2> QED BY <2>2, <2>3, KeptGo DEF InputsKept, OutputsKept
<1> QED BY <1>1, <1>2, <1>3

\* Main (but for StartCamera), the capture thread and the video branch touch no slot.
LEMMA OthersSlots ==
    ASSUME PcType, QueueType, WorkType, NoSlots, NEW t \in Threads,
           \/ t = "main" /\ Supervise /\ ~StartCamera
           \/ t = "capture" /\ CaptureLoop
           \/ t = "video" /\ VideoLoop
           \/ t = "encoded" /\ EncodedPacketLoop
    PROVE  InputsGo(t) /\ OutputsGo(t)
<1> USE MainAndWorkers
<1>0. /\ {"freeIn", "prepared", "freeOut", "completed"} \subseteq Queues \ {"captured", "video", "encoded"}
      /\ {"captured", "video", "encoded"} \subseteq Queues
  BY DEF Queues
<1>1. job[t].in = 0 /\ job[t].out = 0 /\ NoJob.in = 0 /\ NoJob.out = 0
  BY DEF NoSlots, Carriers, NoJob
<1>2. \/ job' = job \/ job' = [job EXCEPT ![t] = NoJob]
      \/ \E n : job' = [job EXCEPT ![t].frame = n]
  <2>1. CASE t = "main" /\ Supervise /\ ~StartCamera
    BY <2>1 DEF Supervise, Spawn, Join, StopCamera, work
  <2>2. CASE t = "capture" /\ CaptureLoop
    BY <2>2 DEF CaptureLoop, CaptureCheck, DrainPop, DrainRequeued,
       DrainRequeueFailed, DrainEmpty, CaptureStopped, PollWake, PollTimeout, PollThrows,
       PollFrame, PollDropped, PublishFrame, PublishRefused, RequeueDirect, AfterDirect,
       PushCaptured, PushVideo, work, pipelineVars
  <2>3. CASE t = "video" /\ VideoLoop
    BY <2>3 DEF VideoLoop, TakeVideoFrame, Encode, PushEncoded, DrainLeases
  <2>4. CASE t = "encoded" /\ EncodedPacketLoop
    BY <2>4 DEF EncodedPacketLoop, TakePacket, WritePacket
  <2> QED BY <2>1, <2>2, <2>3, <2>4
<1>3. \/ queue' = queue
      \/ \E r \in {"captured", "video", "encoded"} :
             Pop(r) \/ \E item : TryPush(r, item) \/ PushLatest(r, item)
  <2>1. CASE t = "main" /\ Supervise /\ ~StartCamera
    BY <2>1 DEF Supervise, Spawn, Join, StopCamera
  <2>2. CASE t = "capture" /\ CaptureLoop
    BY <2>2 DEF CaptureLoop, CaptureCheck, DrainPop, DrainRequeued,
       DrainRequeueFailed, DrainEmpty, CaptureStopped, PollWake, PollTimeout, PollThrows,
       PollFrame, PollDropped, PublishFrame, PublishRefused, RequeueDirect, AfterDirect,
       PushCaptured, PushVideo, pipelineVars
  <2>3. CASE t = "video" /\ VideoLoop
    BY <2>3 DEF VideoLoop, TakeVideoFrame, Encode, PushEncoded, DrainLeases
  <2>4. CASE t = "encoded" /\ EncodedPacketLoop
    BY <2>4 DEF EncodedPacketLoop, TakePacket, WritePacket
  <2> QED BY <2>1, <2>2, <2>3, <2>4
<1>4. InputsHeld' = InputsHeld /\ OutputsHeld' = OutputsHeld
  <2>1. CASE job' = job  BY <2>1, HeldChange
  <2>2. CASE job' = [job EXCEPT ![t] = NoJob]
    <3>1. /\ InputsHeld' = [InputsHeld EXCEPT ![t] = 0]
          /\ OutputsHeld' = [OutputsHeld EXCEPT ![t] = 0]
      <4>1. /\ InputsHeld' = [InputsHeld EXCEPT ![t] = NoJob.in]
            /\ OutputsHeld' = [OutputsHeld EXCEPT ![t] = NoJob.out]
        BY <2>2, HeldChange
      <4> QED BY <1>1, <4>1
    <3> QED BY <1>1, <3>1, HeldChange
  <2>3. CASE \E n : job' = [job EXCEPT ![t].frame = n]  BY <2>3, HeldChange
  <2> QED BY <1>2, <2>1, <2>2, <2>3
<1>5. \A q \in {"freeIn", "prepared", "freeOut", "completed"} :
          queue'[q].items = queue[q].items
  <2> SUFFICES ASSUME NEW q \in {"freeIn", "prepared", "freeOut", "completed"}
               PROVE  queue'[q].items = queue[q].items
    OBVIOUS
  <2>1. q \in Queues /\ \A r \in {"captured", "video", "encoded"} : r \in Queues \ {q}
    BY <1>0
  <2> QED BY <1>3, <2>1, QueuesApart
<1> QED BY <1>4, <1>5, KeptGo DEF InputsKept, OutputsKept

\* A thread that puts nothing in the place of its job lets go of the slots it has.
LEMMA JobDropped ==
    ASSUME WorkType, NEW t \in Threads, job' = [job EXCEPT ![t] = NoJob]
    PROVE  /\ InputsHeld' = [InputsHeld EXCEPT ![t] = 0]
           /\ OutputsHeld' = [OutputsHeld EXCEPT ![t] = 0]
           /\ job[t].in = 0 => InputsHeld' = InputsHeld
           /\ job[t].out = 0 => OutputsHeld' = OutputsHeld
<1>1. /\ InputsHeld' = [InputsHeld EXCEPT ![t] = NoJob.in]
      /\ OutputsHeld' = [OutputsHeld EXCEPT ![t] = NoJob.out]
  BY HeldChange
<1>2. NoJob.in = 0 /\ NoJob.out = 0  BY DEF NoJob
<1>3. /\ job[t].in = 0 => [InputsHeld EXCEPT ![t] = 0] = InputsHeld
      /\ job[t].out = 0 => [OutputsHeld EXCEPT ![t] = 0] = OutputsHeld
  BY HeldChange
<1> QED BY <1>1, <1>2, <1>3

\* The preprocess thread takes a free input slot and passes it on.
LEMMA PreprocessSlots ==
    ASSUME PcType, QueueType, WorkType, Numbered, SlotsInHand, PreprocessLoop
    PROVE  InputsGo("preprocess") /\ OutputsGo("preprocess")
<1> USE MainAndWorkers
<1> DEFINE t == "preprocess"
<1>0. /\ t \in Threads /\ t \in Carriers /\ pc[t] \in Seq(Steps) /\ Tidy(pc[t]) /\ HasSlots(t)
      /\ job[t] \in Jobs
      /\ {"freeIn", "prepared", "freeOut", "completed", "captured"} \subseteq Queues
  BY MainAndWorkers DEF PcType, Carriers, SlotsInHand, WorkType, Queues
<1>1. InputsHeld[t] = job[t].in /\ OutputsHeld[t] = job[t].out  BY <1>0, HeldChange
<1>2. /\ At(t, "slot") => pc[t] = <<"slot">>
      /\ At(t, "frame") => pc[t] = <<"frame">>
      /\ At(t, "process") => pc[t] = <<"process">>
      /\ At(t, "push_prepared") => pc[t] = <<"push_prepared">>
  BY <1>0, AtLast DEF LastSteps
<1>3. /\ At(t, "slot") => job[t].in = 0 /\ job[t].out = 0
      /\ At(t, "process") \/ At(t, "push_prepared") => job[t].in # 0 /\ job[t].out = 0
  BY <1>0, <1>2, PassLists DEF HasSlots
<1>4. CASE TakeInputSlot
  <2>1. CASE CanPop("freeIn") /\ Pop("freeIn")
             /\ job' = [job EXCEPT ![t] = [NoJob EXCEPT !.in = Front("freeIn")]]
    <3>1. queue["freeIn"].items \in Seq(Nat) /\ queue["freeIn"].items # <<>>
      BY <1>0, <2>1, QueueItems DEF QueueType, CanPop
    <3>2. Front("freeIn") # 0 /\ Front("freeIn") = Head(queue["freeIn"].items)
      BY <3>1 DEF Numbered, Front
    <3>3. /\ queue'["freeIn"].items = Tail(queue["freeIn"].items)
          /\ queue'["prepared"].items = queue["prepared"].items
          /\ queue'["freeOut"].items = queue["freeOut"].items
          /\ queue'["completed"].items = queue["completed"].items
      BY <1>0, <2>1, PopEffect, QueuesApart
    <3>4. /\ InputsHeld' = [InputsHeld EXCEPT ![t] = Front("freeIn")]
          /\ OutputsHeld' = [OutputsHeld EXCEPT ![t] = 0]
      <4> DEFINE j == [NoJob EXCEPT !.in = Front("freeIn")]
      <4>1. j.in = Front("freeIn") /\ j.out = 0  BY DEF NoJob
      <4>2. job' = [job EXCEPT ![t] = j]  BY <2>1
      <4> HIDE DEF j
      <4>3. \A k : job' = [job EXCEPT ![t] = k] =>
                /\ InputsHeld' = [InputsHeld EXCEPT ![t] = k.in]
                /\ OutputsHeld' = [OutputsHeld EXCEPT ![t] = k.out]
        BY <1>0, HeldChange
      <4> QED BY <4>1, <4>2, <4>3
    <3>5. InputFlow(t)
      <4>1. At(t, "slot")  BY <1>4 DEF TakeInputSlot
      <4> QED BY <1>1, <1>3, <3>1, <3>2, <3>3, <3>4, <4>1 DEF InputFlow, GoesRound, TakenFree
    <3>6. OutputsKept
      <4>1. job[t].out = 0  BY <1>3, <1>4 DEF TakeInputSlot
      <4>2. [OutputsHeld EXCEPT ![t] = 0] = OutputsHeld  BY <1>0, <4>1, HeldChange
      <4> QED BY <3>3, <3>4, <4>2 DEF OutputsKept
    <3> QED BY <3>5, <3>6, KeptGo DEF InputsGo
  <2>2. CASE queue' = queue /\ job' = job
    <3>1. InputsKept /\ OutputsKept
      BY <1>0, <2>2, HeldChange DEF InputsKept, OutputsKept
    <3> QED BY <3>1, KeptGo
  <2> QED BY <1>4, <2>1, <2>2 DEF TakeInputSlot
<1>5. CASE TakeFrame \/ NoMoreFrames \/ DrainLeases(t, "captured")
  <2>1. InputsHeld' = InputsHeld /\ OutputsHeld' = OutputsHeld
    BY <1>0, <1>5, HeldChange DEF TakeFrame, NoMoreFrames, DrainLeases, work
  <2>2. \A q \in {"freeIn", "prepared", "freeOut", "completed"} :
            queue'[q].items = queue[q].items
    <3>1. queue' = queue \/ Pop("captured")
      BY <1>5 DEF TakeFrame, NoMoreFrames, DrainLeases
    <3>2. \A q \in {"freeIn", "prepared", "freeOut", "completed"} : "captured" \in Queues \ {q}
      BY <1>0
    <3> QED BY <1>0, <3>1, <3>2, QueuesApart
  <2> QED BY <2>1, <2>2, KeptGo DEF InputsKept, OutputsKept
<1>6. CASE Preprocess
  <2>1. queue' = queue  BY <1>6 DEF Preprocess
  <2>2. CASE job' = job
    <3>1. InputsKept /\ OutputsKept
      BY <1>0, <2>1, <2>2, HeldChange DEF InputsKept, OutputsKept
    <3> QED BY <3>1, KeptGo
  <2>3. CASE Happens("preprocessThrows") /\ job' = [job EXCEPT ![t] = NoJob]
    <3>1. job[t].in # 0 /\ job[t].out = 0  BY <1>3, <1>6 DEF Preprocess
    <3>2. InputsHeld' = [InputsHeld EXCEPT ![t] = 0] /\ OutputsHeld' = OutputsHeld
      BY <1>0, <2>3, <3>1, JobDropped
    <3>3. Excused("freeIn")'  BY <2>3 DEF Excused, Happens
    <3>4. InputLost(t)  BY <1>1, <2>1, <3>1, <3>2 DEF InputLost, Lost
    <3>5. OutputsKept  BY <2>1, <3>2 DEF OutputsKept
    <3> QED BY <3>3, <3>4, <3>5, KeptGo DEF InputsGo
  <2> QED BY <1>6, <2>2, <2>3 DEF Preprocess
<1>7. CASE PushPrepared
  <2>1. job[t].in # 0 /\ job[t].out = 0  BY <1>3, <1>7 DEF PushPrepared
  <2>2. CASE queue["prepared"].stopped
    <3>1. queue' = queue /\ job' = job  BY <1>7, <2>2 DEF PushPrepared, TryPush
    <3>2. InputsKept /\ OutputsKept
      BY <1>0, <3>1, HeldChange DEF InputsKept, OutputsKept
    <3> QED BY <3>2, KeptGo
  <2>3. CASE ~queue["prepared"].stopped
    <3>1. job' = [job EXCEPT ![t] = NoJob] /\ ~Full("prepared") /\ TryPush("prepared", job[t])
      BY <1>7, <2>3 DEF PushPrepared, CanPush
    <3>2. InputsHeld' = [InputsHeld EXCEPT ![t] = 0] /\ OutputsHeld' = OutputsHeld
      BY <1>0, <2>1, <3>1, JobDropped
    <3>3. queue'["prepared"].items = Append(queue["prepared"].items, job[t])
      BY <1>0, <2>3, <3>1, TryPushEffect, QueueItems
    <3>4. /\ queue'["freeIn"].items = queue["freeIn"].items
          /\ queue'["freeOut"].items = queue["freeOut"].items
          /\ queue'["completed"].items = queue["completed"].items
      BY <1>0, <3>1, QueuesApart
    <3>5. InputsOf(queue'["prepared"].items) = Append(InputsOf(queue["prepared"].items), job[t].in)
      <4>1. queue["prepared"].items \in Seq(Jobs)  BY <1>0, QueueItems DEF QueueType
      <4> QED BY <1>0, <3>3, <4>1, SlotsOfJobs
    <3>6. InputFlow(t)
      BY <1>1, <2>1, <3>2, <3>4, <3>5 DEF InputFlow, GoesRound, PassedOn
    <3>7. OutputsKept  BY <3>2, <3>4 DEF OutputsKept
    <3> QED BY <3>6, <3>7, KeptGo DEF InputsGo
  <2> QED BY <2>2, <2>3
<1> QED BY <1>4, <1>5, <1>6, <1>7 DEF PreprocessLoop

\* The NPU thread takes the slot of a prepared frame over and gives it back; it takes an
\* output slot and passes it on.
LEMMA NpuSlots ==
    ASSUME PcType, QueueType, WorkType, Numbered, JobsFed, SlotsInHand, NpuLoop,
           Accounted(InputAt, InSlots, "freeIn"), Accounted(OutputAt, OutSlots, "freeOut")
    PROVE  InputsGo("npu") /\ OutputsGo("npu")
<1> USE MainAndWorkers
<1> DEFINE t == "npu"
<1>0. /\ t \in Threads /\ t \in Carriers /\ pc[t] \in Seq(Steps) /\ Tidy(pc[t]) /\ HasSlots(t)
      /\ job[t] \in Jobs
      /\ {"freeIn", "prepared", "freeOut", "completed"} \subseteq Queues
  BY MainAndWorkers DEF PcType, Carriers, SlotsInHand, WorkType, Queues
<1>1. InputsHeld[t] = job[t].in /\ OutputsHeld[t] = job[t].out  BY <1>0, HeldChange
<1>2. /\ At(t, "prepared") => pc[t] = <<"prepared">>
      /\ At(t, "output") => pc[t] = <<"output">>
      /\ At(t, "run") => pc[t] = <<"run">>
      /\ At(t, "push_completed") => pc[t] = <<"push_completed">>
  BY <1>0, AtLast DEF LastSteps
<1>3. /\ At(t, "prepared") => job[t].in = 0 /\ job[t].out = 0
      /\ At(t, "output") => job[t].in # 0 /\ job[t].out = 0
      /\ At(t, "run") => job[t].in # 0 /\ job[t].out # 0
      /\ At(t, "push_completed") => job[t].in = 0 /\ job[t].out # 0
  BY <1>0, <1>2, PassLists DEF HasSlots
<1>4. CASE queue' = queue /\ job' = job
  <2>1. InputsKept /\ OutputsKept  BY <1>0, <1>4, HeldChange DEF InputsKept, OutputsKept
  <2> QED BY <2>1, KeptGo
<1>5. CASE TakePrepared
  <2>1. CASE CanPop("prepared") /\ Pop("prepared") /\ job' = [job EXCEPT ![t] = Front("prepared")]
    <3> DEFINE s == queue["prepared"].items
    <3>1. s \in Seq(Jobs) /\ s # <<>> /\ Front("prepared") = Head(s)
      BY <1>0, <2>1, QueueItems DEF QueueType, CanPop, Front
    <3>2. Head(s).in # 0 /\ Head(s).out = 0  BY <3>1 DEF JobsFed
    <3>3. /\ queue'["prepared"].items = Tail(s)
          /\ queue'["freeIn"].items = queue["freeIn"].items
          /\ queue'["freeOut"].items = queue["freeOut"].items
          /\ queue'["completed"].items = queue["completed"].items
      BY <1>0, <2>1, PopEffect, QueuesApart
    <3>4. /\ InputsHeld' = [InputsHeld EXCEPT ![t] = Head(s).in]
          /\ OutputsHeld' = [OutputsHeld EXCEPT ![t] = Head(s).out]
      BY <1>0, <2>1, <3>1, HeldChange
    <3>5. /\ InputsOf(s) # <<>> /\ Head(InputsOf(s)) = Head(s).in
          /\ InputsOf(queue'["prepared"].items) = Tail(InputsOf(s))
      BY <3>1, <3>3, SlotsOfJobs
    <3>6. job[t].in = 0 /\ job[t].out = 0  BY <1>3, <1>5 DEF TakePrepared
    <3> HIDE DEF s
    <3>7. InputFlow(t)
      BY <1>1, <3>2, <3>3, <3>4, <3>5, <3>6 DEF InputFlow, GoesRound, TakenOver, s
    <3>8. OutputsKept
      <4>1. [OutputsHeld EXCEPT ![t] = 0] = OutputsHeld  BY <1>0, <3>6, HeldChange
      <4> QED BY <3>2, <3>3, <3>4, <4>1 DEF OutputsKept
    <3> QED BY <3>7, <3>8, KeptGo DEF InputsGo
  <2> QED BY <1>4, <1>5, <2>1 DEF TakePrepared
<1>6. CASE TakeOutputSlot
  <2>1. CASE CanPop("freeOut") /\ Pop("freeOut") /\ job' = [job EXCEPT ![t].out = Front("freeOut")]
    <3>1. queue["freeOut"].items \in Seq(Nat) /\ queue["freeOut"].items # <<>>
      BY <1>0, <2>1, QueueItems DEF QueueType, CanPop
    <3>2. Front("freeOut") # 0 /\ Front("freeOut") = Head(queue["freeOut"].items)
      BY <3>1 DEF Numbered, Front
    <3>3. /\ queue'["freeOut"].items = Tail(queue["freeOut"].items)
          /\ queue'["completed"].items = queue["completed"].items
          /\ queue'["freeIn"].items = queue["freeIn"].items
          /\ queue'["prepared"].items = queue["prepared"].items
      BY <1>0, <2>1, PopEffect, QueuesApart
    <3>4. /\ OutputsHeld' = [OutputsHeld EXCEPT ![t] = Front("freeOut")]
          /\ InputsHeld' = InputsHeld
      BY <1>0, <2>1, HeldChange
    <3>5. OutputFlow(t)
      <4>1. job[t].out = 0  BY <1>3, <1>6 DEF TakeOutputSlot
      <4> QED BY <1>1, <3>1, <3>2, <3>3, <3>4, <4>1 DEF OutputFlow, GoesRound, TakenFree
    <3>6. InputsKept  BY <3>3, <3>4 DEF InputsKept
    <3> QED BY <3>5, <3>6, KeptGo DEF OutputsGo
  <2> QED BY <1>4, <1>6, <2>1 DEF TakeOutputSlot
<1>7. CASE Run
  <2>1. job[t].in # 0 /\ job[t].out # 0  BY <1>3, <1>7 DEF Run
  <2>2. CASE TryPush("freeIn", job[t].in) /\ job' = [job EXCEPT ![t].in = 0]
    <3>1. InputsHeld' = [InputsHeld EXCEPT ![t] = 0] /\ OutputsHeld' = OutputsHeld
      BY <1>0, <2>2, HeldChange
    <3>2. OutputsKept  BY <1>0, <2>2, <3>1, QueuesApart DEF OutputsKept
    <3> QED BY <1>0, <2>1, <2>2, <3>1, <3>2, SlotReturned, KeptGo
  <2>3. CASE Happens("runThrows") /\ job' = [job EXCEPT ![t] = NoJob] /\ queue' = queue
    <3>1. /\ InputsHeld' = [InputsHeld EXCEPT ![t] = 0]
          /\ OutputsHeld' = [OutputsHeld EXCEPT ![t] = 0]
      BY <1>0, <2>3, JobDropped
    <3>2. Excused("freeIn")' /\ Excused("freeOut")'  BY <2>3 DEF Excused, Happens
    <3>3. InputLost(t)  BY <1>1, <2>1, <2>3, <3>1 DEF InputLost, Lost
    <3>4. OutputLost(t)  BY <1>1, <2>1, <2>3, <3>1 DEF OutputLost, Lost
    <3> QED BY <3>2, <3>3, <3>4 DEF InputsGo, OutputsGo
  <2> QED BY <1>7, <2>2, <2>3 DEF Run
<1>8. CASE PushCompleted
  <2>1. job[t].in = 0 /\ job[t].out # 0  BY <1>3, <1>8 DEF PushCompleted
  <2>2. CASE queue["completed"].stopped
    <3>1. queue' = queue /\ job' = job  BY <1>8, <2>2 DEF PushCompleted, TryPush
    <3> QED BY <1>4, <3>1
  <2>3. CASE ~queue["completed"].stopped
    <3>1. job' = [job EXCEPT ![t] = NoJob] /\ ~Full("completed") /\ TryPush("completed", job[t])
      BY <1>8, <2>3 DEF PushCompleted, CanPush
    <3>2. OutputsHeld' = [OutputsHeld EXCEPT ![t] = 0] /\ InputsHeld' = InputsHeld
      BY <1>0, <2>1, <3>1, JobDropped
    <3>3. queue'["completed"].items = Append(queue["completed"].items, job[t])
      BY <1>0, <2>3, <3>1, TryPushEffect, QueueItems
    <3>4. /\ queue'["freeIn"].items = queue["freeIn"].items
          /\ queue'["freeOut"].items = queue["freeOut"].items
          /\ queue'["prepared"].items = queue["prepared"].items
      BY <1>0, <3>1, QueuesApart
    <3>5. OutputsOf(queue'["completed"].items) = Append(OutputsOf(queue["completed"].items), job[t].out)
      <4>1. queue["completed"].items \in Seq(Jobs)  BY <1>0, QueueItems DEF QueueType
      <4> QED BY <1>0, <3>3, <4>1, SlotsOfJobs
    <3>6. OutputFlow(t)
      BY <1>1, <2>1, <3>2, <3>4, <3>5 DEF OutputFlow, GoesRound, PassedOn
    <3>7. InputsKept  BY <3>2, <3>4 DEF InputsKept
    <3> QED BY <3>6, <3>7, KeptGo DEF OutputsGo
  <2> QED BY <2>2, <2>3
<1> QED BY <1>5, <1>6, <1>7, <1>8 DEF NpuLoop

\* The thread that postprocesses gives the output slot back.
LEMMA PostprocessSlots ==
    ASSUME PcType, QueueType, WorkType, Numbered, JobsFed, SlotsInHand,
           NEW t \in {"npu", "postprocess"},
           PostprocessStep(t) \/ (t = "postprocess" /\ TakeCompleted),
           Accounted(InputAt, InSlots, "freeIn"), Accounted(OutputAt, OutSlots, "freeOut")
    PROVE  InputsGo(t) /\ OutputsGo(t)
<1> USE MainAndWorkers
<1>0. /\ t \in Threads /\ t \in Carriers /\ pc[t] \in Seq(Steps) /\ Tidy(pc[t]) /\ HasSlots(t)
      /\ job[t] \in Jobs
      /\ {"freeIn", "prepared", "freeOut", "completed"} \subseteq Queues
  BY MainAndWorkers DEF PcType, Carriers, SlotsInHand, WorkType, Queues
<1>1. InputsHeld[t] = job[t].in /\ OutputsHeld[t] = job[t].out  BY <1>0, HeldChange
<1>2. /\ At(t, "completed") => pc[t] = <<"completed">>
      /\ At(t, "post") => pc[t] = <<"post">>
      /\ At(t, "publish_result") => pc[t] = <<"publish_result">>
  BY <1>0, AtLast DEF LastSteps
<1>3. /\ At(t, "completed") \/ At(t, "publish_result") => job[t].in = 0 /\ job[t].out = 0
      /\ At(t, "post") => job[t].in = 0 /\ job[t].out # 0
  BY <1>0, <1>2, PassLists DEF HasSlots
<1>4. CASE t = "postprocess" /\ TakeCompleted
  <2>1. CASE CanPop("completed") /\ Pop("completed") /\ job' = [job EXCEPT ![t] = Front("completed")]
    <3> DEFINE s == queue["completed"].items
    <3>1. s \in Seq(Jobs) /\ s # <<>> /\ Front("completed") = Head(s)
      BY <1>0, <2>1, QueueItems DEF QueueType, CanPop, Front
    <3>2. Head(s).in = 0 /\ Head(s).out # 0  BY <3>1 DEF JobsFed
    <3>3. /\ queue'["completed"].items = Tail(s)
          /\ queue'["freeIn"].items = queue["freeIn"].items
          /\ queue'["freeOut"].items = queue["freeOut"].items
          /\ queue'["prepared"].items = queue["prepared"].items
      BY <1>0, <2>1, PopEffect, QueuesApart
    <3>4. /\ InputsHeld' = [InputsHeld EXCEPT ![t] = Head(s).in]
          /\ OutputsHeld' = [OutputsHeld EXCEPT ![t] = Head(s).out]
      BY <1>0, <2>1, <3>1, HeldChange
    <3>5. /\ OutputsOf(s) # <<>> /\ Head(OutputsOf(s)) = Head(s).out
          /\ OutputsOf(queue'["completed"].items) = Tail(OutputsOf(s))
      BY <3>1, <3>3, SlotsOfJobs
    <3>6. job[t].in = 0 /\ job[t].out = 0  BY <1>3, <1>4 DEF TakeCompleted
    <3> HIDE DEF s
    <3>7. OutputFlow(t)
      BY <1>1, <3>2, <3>3, <3>4, <3>5, <3>6 DEF OutputFlow, GoesRound, TakenOver, s
    <3>8. InputsKept
      <4>1. [InputsHeld EXCEPT ![t] = 0] = InputsHeld  BY <1>0, <3>6, HeldChange
      <4> QED BY <3>2, <3>3, <3>4, <4>1 DEF InputsKept
    <3> QED BY <3>7, <3>8, KeptGo DEF OutputsGo
  <2>2. CASE queue' = queue /\ job' = job
    <3>1. InputsKept /\ OutputsKept
      BY <1>0, <2>2, HeldChange DEF InputsKept, OutputsKept
    <3> QED BY <3>1, KeptGo
  <2> QED BY <1>4, <2>1, <2>2 DEF TakeCompleted
<1>5. CASE Postprocess(t)
  <2>1. job[t].in = 0 /\ job[t].out # 0 /\ TryPush("freeOut", job[t].out)
    BY <1>3, <1>5 DEF Postprocess
  <2>2. OutputsHeld' = [OutputsHeld EXCEPT ![t] = 0] /\ InputsHeld' = InputsHeld
    <3>1. CASE job' = [job EXCEPT ![t].out = 0]  BY <1>0, <3>1, HeldChange
    <3>2. CASE job' = [job EXCEPT ![t] = NoJob]  BY <1>0, <2>1, <3>2, JobDropped
    <3> QED BY <1>5, <3>1, <3>2 DEF Postprocess
  <2>3. InputsKept  BY <1>0, <2>1, <2>2, QueuesApart DEF InputsKept
  <2> QED BY <1>0, <2>1, <2>2, <2>3, SlotReturned, KeptGo
<1>6. CASE PublishResult(t)
  <2>1. job[t].in = 0 /\ job[t].out = 0  BY <1>3, <1>6 DEF PublishResult
  <2>2. queue' = queue /\ job' = [job EXCEPT ![t] = NoJob]  BY <1>6 DEF PublishResult
  <2>3. InputsHeld' = InputsHeld /\ OutputsHeld' = OutputsHeld
    BY <1>0, <2>1, <2>2, JobDropped
  <2> QED BY <2>2, <2>3, KeptGo DEF InputsKept, OutputsKept
<1> QED BY <1>4, <1>5, <1>6 DEF PostprocessStep

\* Every step but StartCamera lets the slots go round.
LEMMA SlotsGo ==
    ASSUME PcType, QueueType, WorkType, JobsFed, SlotsInHand, NoSlots,
           Accounted(InputAt, InSlots, "freeIn"), Accounted(OutputAt, OutSlots, "freeOut"),
           NEW t \in Threads, ThreadStep(t), ~(t = "main" /\ StartCamera)
    PROVE  InputsGo(t) /\ OutputsGo(t)
<1>0. Numbered  BY AccountedNumbered
<1>1. CASE CallStep(t)  BY <1>1, CallSlots
<1>2. CASE \/ t = "main" /\ Supervise
           \/ t = "capture" /\ CaptureLoop
           \/ t = "video" /\ VideoLoop
           \/ t = "encoded" /\ EncodedPacketLoop
  BY <1>2, OthersSlots
<1>3. CASE t = "preprocess" /\ PreprocessLoop  BY <1>0, <1>3, PreprocessSlots
<1>4. CASE t = "npu" /\ NpuLoop  BY <1>0, <1>4, NpuSlots
<1>5. CASE \/ t = "npu" /\ PostprocessStep(t)
           \/ t = "postprocess" /\ (TakeCompleted \/ PostprocessStep(t))
  BY <1>0, <1>5, PostprocessSlots
<1> QED BY <1>1, <1>2, <1>3, <1>4, <1>5 DEF ThreadStep

\* An excuse lasts, until StartCamera.
LEMMA ExcusedStep ==
    ASSUME PcType, QueueType, Fresh, NEW t \in Threads, ThreadStep(t),
           ~(t = "main" /\ StartCamera), NEW free \in {"freeIn", "freeOut"}, Excused(free)
    PROVE  Excused(free)'
<1>0. free \in Queues  BY DEF Queues
<1>1. CASE pc["main"] = <<"start">>
  <2>1. Has(pc["main"], {"start", "spawn"})  BY <1>1 DEF Has
  <2>2. t = "main" /\ Spawns  BY <2>1, MainStarts
  <2>3. At("main", "spawn")  BY <2>2, SpawnEffect
  <2> QED BY <1>1, <2>3 DEF At
<1>2. CASE queue[free].stopped
  <2>1. queue'[free].stopped = queue[free].stopped \/ StopQueue(t, free)
    BY <1>0, StopsStep
  <2>2. StopQueue(t, free) => queue'[free].stopped
    BY <1>0, StopQueueEffect DEF StopQueue
  <2> QED BY <1>2, <2>1, <2>2 DEF Excused
<1>3. CASE faults \cap {"preprocessThrows", "runThrows"} # {}
  BY <1>3, FaultsStep DEF Excused
<1> QED BY <1>1, <1>2, <1>3 DEF Excused

\* So the slots stay accounted for.
LEMMA AccountedStep ==
    ASSUME PcType, QueueType, WorkType, Fresh, JobsFed, SlotsInHand, NoSlots,
           QueueType', WorkType',
           Accounted(InputAt, InSlots, "freeIn"), Accounted(OutputAt, OutSlots, "freeOut"),
           NEW t \in Threads, ThreadStep(t), ~(t = "main" /\ StartCamera)
    PROVE  Accounted(InputAt, InSlots, "freeIn")' /\ Accounted(OutputAt, OutSlots, "freeOut")'
<1>0. /\ {"freeIn", "freeOut", "prepared", "completed"} \cap Threads = {}
      /\ {"freeIn", "freeOut", "prepared", "completed"} \subseteq Queues
  BY PipelineThreads DEF Workers, Queues
<1>1. /\ queue["freeIn"].items \in Seq(Nat) /\ queue["freeOut"].items \in Seq(Nat)
      /\ InputsOf(queue["prepared"].items) \in Seq(Nat)
      /\ OutputsOf(queue["completed"].items) \in Seq(Nat)
      /\ InputsHeld \in [Threads -> Nat] /\ OutputsHeld \in [Threads -> Nat]
  <2>1. /\ queue["prepared"].items \in Seq(Jobs) /\ queue["completed"].items \in Seq(Jobs)
        /\ queue["freeIn"].items \in Seq(Nat) /\ queue["freeOut"].items \in Seq(Nat)
    BY <1>0, QueueItems DEF QueueType
  <2> QED BY <2>1, SlotsOfJobs, HeldChange
<1>2. /\ queue'["freeIn"].items \in Seq(Nat) /\ queue'["freeOut"].items \in Seq(Nat)
      /\ InputsOf(queue'["prepared"].items) \in Seq(Nat)
      /\ OutputsOf(queue'["completed"].items) \in Seq(Nat)
      /\ InputsHeld' \in [Threads -> Nat] /\ OutputsHeld' \in [Threads -> Nat]
  <2>1. /\ queue'["prepared"].items \in Seq(Jobs) /\ queue'["completed"].items \in Seq(Jobs)
        /\ queue'["freeIn"].items \in Seq(Nat) /\ queue'["freeOut"].items \in Seq(Nat)
    BY <1>0, QueueItems DEF QueueType
  <2>2. \A u \in Threads : job'[u].in \in Nat /\ job'[u].out \in Nat
    BY DEF WorkType, Jobs
  <2>3. InputsHeld' \in [Threads -> Nat] /\ OutputsHeld' \in [Threads -> Nat]
    BY <2>2 DEF InputsHeld, OutputsHeld
  <2> QED BY <2>1, <2>3, SlotsOfJobs
<1>3. InputsGo(t) /\ OutputsGo(t)  BY SlotsGo
<1>4. Accounted(InputAt, InSlots, "freeIn")'
  <2> DEFINE P == InputAt
             Q == InputAt'
  <2>1. /\ Single(Q) /\ \A x : Lies(Q, x) => Lies(P, x)
        /\ InputFlow(t) => \A x : Lies(P, x) => Lies(Q, x)
    <3> DEFINE I == queue["freeIn"].items
               S == InputsOf(queue["prepared"].items)
               H == InputsHeld
               J == queue'["freeIn"].items
               R == InputsOf(queue'["prepared"].items)
               K == InputsHeld'
    <3>1. /\ I \in Seq(Nat) /\ S \in Seq(Nat) /\ H \in [Threads -> Nat]
          /\ J \in Seq(Nat) /\ R \in Seq(Nat) /\ K \in [Threads -> Nat]
          /\ "freeIn" # "prepared" /\ "freeIn" \notin Threads /\ "prepared" \notin Threads
      BY <1>0, <1>1, <1>2
    <3>2. P = SlotsAt("freeIn", "prepared", I, S, H) /\ Q = SlotsAt("freeIn", "prepared", J, R, K)
      BY DEF InputAt
    <3>3. GoesRound(I, S, H, J, R, K, t) \/ Lost(I, S, H, J, R, K, t)
      BY <1>3 DEF InputsGo, InputFlow, InputLost
    <3>4. InputFlow(t) <=> GoesRound(I, S, H, J, R, K, t)  BY DEF InputFlow
    <3>5. Single(P)  BY DEF Accounted
    <3> HIDE DEF I, S, H, J, R, K, P, Q
    <3>6. /\ Single(SlotsAt("freeIn", "prepared", J, R, K))
          /\ \A x : Lies(SlotsAt("freeIn", "prepared", J, R, K), x) => Lies(SlotsAt("freeIn", "prepared", I, S, H), x)
          /\ GoesRound(I, S, H, J, R, K, t) =>
                 \A x : Lies(SlotsAt("freeIn", "prepared", I, S, H), x) => Lies(SlotsAt("freeIn", "prepared", J, R, K), x)
      BY <3>1, <3>2, <3>3, <3>5, SlotsGoRound
    <3> QED BY <3>2, <3>4, <3>6
  <2>2. InputFlow(t) \/ Excused("freeIn")'  BY <1>3 DEF InputsGo
  <2>3. Excused("freeIn") => Excused("freeIn")'  BY ExcusedStep
  <2>4. /\ \A x : Lies(P, x) => x \in InSlots
        /\ Excused("freeIn") \/ \A x \in InSlots : Lies(P, x)
    BY DEF Accounted, Lies
  <2>5. InSlots' = InSlots  BY DEF InSlots
  <2>6. \A p \in DOMAIN Q : \A i \in DOMAIN Q[p] : Lies(Q, Q[p][i])  BY DEF Lies
  <2> HIDE DEF P, Q
  <2>7. \A p \in DOMAIN Q : \A i \in DOMAIN Q[p] : Q[p][i] \in InSlots
    BY <2>1, <2>4, <2>6
  <2>8. Excused("freeIn")' \/ \A x \in InSlots : Lies(Q, x)  BY <2>1, <2>2, <2>3, <2>4
  <2> QED BY <2>1, <2>5, <2>7, <2>8 DEF Accounted, Q
<1>5. Accounted(OutputAt, OutSlots, "freeOut")'
  <2> DEFINE P == OutputAt
             Q == OutputAt'
  <2>1. /\ Single(Q) /\ \A x : Lies(Q, x) => Lies(P, x)
        /\ OutputFlow(t) => \A x : Lies(P, x) => Lies(Q, x)
    <3> DEFINE I == queue["freeOut"].items
               S == OutputsOf(queue["completed"].items)
               H == OutputsHeld
               J == queue'["freeOut"].items
               R == OutputsOf(queue'["completed"].items)
               K == OutputsHeld'
    <3>1. /\ I \in Seq(Nat) /\ S \in Seq(Nat) /\ H \in [Threads -> Nat]
          /\ J \in Seq(Nat) /\ R \in Seq(Nat) /\ K \in [Threads -> Nat]
          /\ "freeOut" # "completed" /\ "freeOut" \notin Threads /\ "completed" \notin Threads
      BY <1>0, <1>1, <1>2
    <3>2. P = SlotsAt("freeOut", "completed", I, S, H) /\ Q = SlotsAt("freeOut", "completed", J, R, K)
      BY DEF OutputAt
    <3>3. GoesRound(I, S, H, J, R, K, t) \/ Lost(I, S, H, J, R, K, t)
      BY <1>3 DEF OutputsGo, OutputFlow, OutputLost
    <3>4. OutputFlow(t) <=> GoesRound(I, S, H, J, R, K, t)  BY DEF OutputFlow
    <3>5. Single(P)  BY DEF Accounted
    <3> HIDE DEF I, S, H, J, R, K, P, Q
    <3>6. /\ Single(SlotsAt("freeOut", "completed", J, R, K))
          /\ \A x : Lies(SlotsAt("freeOut", "completed", J, R, K), x) => Lies(SlotsAt("freeOut", "completed", I, S, H), x)
          /\ GoesRound(I, S, H, J, R, K, t) =>
                 \A x : Lies(SlotsAt("freeOut", "completed", I, S, H), x) => Lies(SlotsAt("freeOut", "completed", J, R, K), x)
      BY <3>1, <3>2, <3>3, <3>5, SlotsGoRound
    <3> QED BY <3>2, <3>4, <3>6
  <2>2. OutputFlow(t) \/ Excused("freeOut")'  BY <1>3 DEF OutputsGo
  <2>3. Excused("freeOut") => Excused("freeOut")'  BY ExcusedStep
  <2>4. /\ \A x : Lies(P, x) => x \in OutSlots
        /\ Excused("freeOut") \/ \A x \in OutSlots : Lies(P, x)
    BY DEF Accounted, Lies
  <2>5. OutSlots' = OutSlots  BY DEF OutSlots
  <2>6. \A p \in DOMAIN Q : \A i \in DOMAIN Q[p] : Lies(Q, Q[p][i])  BY DEF Lies
  <2> HIDE DEF P, Q
  <2>7. \A p \in DOMAIN Q : \A i \in DOMAIN Q[p] : Q[p][i] \in OutSlots
    BY <2>1, <2>4, <2>6
  <2>8. Excused("freeOut")' \/ \A x \in OutSlots : Lies(Q, x)  BY <2>1, <2>2, <2>3, <2>4
  <2> QED BY <2>1, <2>5, <2>7, <2>8 DEF Accounted, Q
<1> QED BY <1>4, <1>5

\* What StartCamera queues are the slots, each of them once.
LEMMA SlotsFilled ==
    ASSUME NEW n \in Nat, NEW f, NEW w, f # w, f \notin Threads, w \notin Threads,
           NEW H \in [Threads -> Nat], \A t \in Threads : H[t] = 0
    PROVE  LET Q == SlotsAt(f, w, SlotList(n), <<>>, H)
           IN  /\ Single(Q) /\ \A p \in DOMAIN Q : \A i \in DOMAIN Q[p] : Q[p][i] \in 1..n
               /\ \A x \in 1..n : Lies(Q, x)
<1> DEFINE Q == SlotsAt(f, w, SlotList(n), <<>>, H)
<1>1. /\ DOMAIN Q = Threads \cup {f, w} /\ DOMAIN Q[f] = 1..n
      /\ \A i \in 1..n : Q[f][i] = i
      /\ \A p \in DOMAIN Q : p # f => DOMAIN Q[p] = {}
  BY DEF SlotsAt, SlotList, SlotHeld
<1> HIDE DEF Q
<1>2. Single(Q) /\ \A p \in DOMAIN Q : \A i \in DOMAIN Q[p] : Q[p][i] \in 1..n
  BY <1>1 DEF Single
<1>3. \A x \in 1..n : Lies(Q, x)  BY <1>1 DEF Lies
<1> QED BY <1>2, <1>3 DEF Q

\* StartCamera puts every slot on its free queue.
LEMMA AccountedStart ==
    ASSUME PcType, QueueType, WorkType, Fresh, SlotsInHand, NoSlots, BeforeStart, StartCamera
    PROVE  Accounted(InputAt, InSlots, "freeIn")' /\ Accounted(OutputAt, OutSlots, "freeOut")'
<1> USE MainAndWorkers
<1>0. /\ {"freeIn", "freeOut", "prepared", "completed"} \cap Threads = {}
      /\ {"freeIn", "freeOut", "prepared", "completed"} \subseteq Queues
  BY PipelineThreads DEF Workers, Queues
<1>1. pc["main"] = <<"start">> /\ \A t \in Workers : pc[t] = <<>>
  <2>1. pc["main"] # <<>> /\ Head(pc["main"]) = "start" /\ pc["main"] \in Seq(Steps)
    BY DEF StartCamera, At, PcType
  <2>2. Has(pc["main"], {"start", "spawn"})  BY <2>1 DEF Has
  <2> QED BY <2>1, <2>2 DEF Fresh
<1>2. \A q \in Queues : queue[q].items = <<>>  BY <1>1 DEF BeforeStart
<1>3. \A t \in Threads : job[t].in = 0 /\ job[t].out = 0
  <2>1. \A t \in Carriers : job[t].in = 0 /\ job[t].out = 0
    <3>1. \A t \in Carriers : pc[t] = <<>>  BY <1>1 DEF Carriers, Workers
    <3> QED BY <3>1, PassLists DEF SlotsInHand, HasSlots
  <2> QED BY <2>1 DEF NoSlots
<1>4. job' = job /\ StartQueues  BY DEF StartCamera, work
<1>5. /\ queue'["freeIn"].items = SlotList(Capacity["freeIn"])
      /\ queue'["freeOut"].items = SlotList(Capacity["freeOut"])
      /\ InputsOf(queue'["prepared"].items) = <<>>
      /\ OutputsOf(queue'["completed"].items) = <<>>
  <2>1. queue'["prepared"] = queue["prepared"] /\ queue'["completed"] = queue["completed"]
    BY <1>0, <1>4, StartEffect
  <2>2. queue'["prepared"].items = <<>> /\ queue'["completed"].items = <<>>
    BY <1>0, <1>2, <2>1
  <2>3. InputsOf(<<>>) = <<>> /\ OutputsOf(<<>>) = <<>>  BY DEF InputsOf, OutputsOf
  <2> QED BY <1>4, <2>2, <2>3, StartEffect
<1>6. /\ InputsHeld' \in [Threads -> Nat] /\ \A t \in Threads : InputsHeld'[t] = 0
      /\ OutputsHeld' \in [Threads -> Nat] /\ \A t \in Threads : OutputsHeld'[t] = 0
  BY <1>3, <1>4 DEF InputsHeld, OutputsHeld
<1>7. Capacity["freeIn"] \in Nat /\ Capacity["freeOut"] \in Nat
  BY CapacityPositive DEF Queues
<1>8. /\ Single(InputAt') /\ \A p \in DOMAIN InputAt' : \A i \in DOMAIN InputAt'[p] :
                                 InputAt'[p][i] \in InSlots
      /\ \A x \in InSlots : Lies(InputAt', x)
  BY <1>0, <1>5, <1>6, <1>7, SlotsFilled DEF InputAt, InSlots
<1>9. /\ Single(OutputAt') /\ \A p \in DOMAIN OutputAt' : \A i \in DOMAIN OutputAt'[p] :
                                  OutputAt'[p][i] \in OutSlots
      /\ \A x \in OutSlots : Lies(OutputAt', x)
  BY <1>0, <1>5, <1>6, <1>7, SlotsFilled DEF OutputAt, OutSlots
<1>10. InSlots' = InSlots /\ OutSlots' = OutSlots  BY DEF InSlots, OutSlots
<1> QED BY <1>8, <1>9, <1>10 DEF Accounted

\* The lists in which no lease is released.
LEMMA ReleaseLists ==
    /\ \A p \in {CaptureExit, SignalFailure, PreprocessExit, NpuExit, SignalVideoFailure,
                 StopSteps, SignalFailure \o CaptureExit, SignalFailure \o PreprocessExit,
                 SignalFailure \o NpuExit, SignalFailure \o StopSteps,
                 SignalVideoFailure \o <<"drain_video">>, <<"return_input">> \o PreprocessExit,
                 <<"return_input">> \o NpuExit, <<"return_output">> \o NpuExit} :
           ~Has(p, ReleaseSteps)
    /\ \A p \in {<<>>, <<"spawn">>, <<"run">>, <<"drain", "capture">>, <<"drain", "check">>,
                 <<"poll">>, <<"publish">>, <<"check">>, <<"requeue_direct">>,
                 <<"after_direct">>, <<"push_captured">>, <<"push_video">>} :
           ~Has(p, ReleaseSteps)
    /\ \A p \in {<<"slot">>, <<"frame">>, <<"push_prepared">>, <<"return_input", "slot">>,
                 <<"prepared">>, <<"output">>, <<"push_completed">>, <<"post">>,
                 <<"publish_result">>, <<"completed">>, <<"return_output", "prepared">>} :
           ~Has(p, ReleaseSteps)
    /\ ~Has(<<"run">>, ReleaseSteps)
    /\ \A p \in {<<"video">>, <<"push_encoded">>, <<"drain_video">>, <<"packet">>, <<"write">>} :
           ~Has(p, ReleaseSteps)
    /\ \A t \in Workers : ~Has(<<FirstStep[t]>>, ReleaseSteps)
<1> USE Lists
<1> DEFINE None(p) == ~Has(p, ReleaseSteps)
<1>1. None(CaptureExit) /\ None(SignalFailure) /\ None(PreprocessExit)
          /\ None(SignalVideoFailure) /\ None(StopSteps)
  BY DEF Has, CaptureExit, SignalFailure, PreprocessExit, SignalVideoFailure, StopSteps,
     ReleaseSteps
<1>2. None(NpuExit)  BY DEF Has, NpuExit, ReleaseSteps
<1>3. /\ <<"return_input">> \in Seq(Steps) /\ <<"return_output">> \in Seq(Steps)
      /\ <<"drain_video">> \in Seq(Steps)
  BY DEF Steps
<1>4. None(<<"return_input">>) /\ None(<<"return_output">>) /\ None(<<"drain_video">>)
  BY DEF Has, ReleaseSteps
<1>5. \A t \in Workers : None(<<FirstStep[t]>>)
  <2>1. \A t \in Workers : FirstStep[t] \notin ReleaseSteps
    BY DEF Workers, FirstStep, ReleaseSteps
  <2> QED BY <2>1, ShortLists
<1>6. /\ None(<<>>) /\ \A x : x \notin ReleaseSteps => None(<<x>>)
      /\ \A x, y : x \notin ReleaseSteps /\ y \notin ReleaseSteps => None(<<x, y>>)
  BY ShortLists
<1>7. \A a, b \in Seq(Steps) : None(a) /\ None(b) => None(a \o b)  BY ConcatHas
<1> HIDE DEF None
<1>8. /\ None(SignalFailure \o CaptureExit) /\ None(SignalFailure \o PreprocessExit)
      /\ None(SignalFailure \o NpuExit) /\ None(SignalFailure \o StopSteps)
      /\ None(SignalVideoFailure \o <<"drain_video">>)
      /\ None(<<"return_input">> \o PreprocessExit)
      /\ None(<<"return_input">> \o NpuExit) /\ None(<<"return_output">> \o NpuExit)
  BY <1>1, <1>2, <1>3, <1>4, <1>7
<1>9. /\ \A x \in {"spawn", "run", "poll", "publish", "check", "requeue_direct", "after_direct",
                   "push_captured", "push_video", "slot", "frame", "push_prepared",
                   "prepared", "output", "push_completed", "post", "publish_result",
                   "completed", "video", "push_encoded", "drain_video", "packet", "write"} :
            x \notin ReleaseSteps
      /\ \A x \in {"drain", "capture", "check", "return_input", "return_output", "slot",
                   "prepared"} : x \notin ReleaseSteps
  BY DEF ReleaseSteps
<1>10. /\ \A x \in {"spawn", "run", "poll", "publish", "check", "requeue_direct",
                     "after_direct", "push_captured", "push_video", "slot", "frame",
                     "push_prepared", "prepared", "output", "push_completed", "post",
                     "publish_result", "completed", "video", "push_encoded",
                     "drain_video", "packet", "write"} : None(<<x>>)
       /\ None(<<"drain", "capture">>) /\ None(<<"drain", "check">>)
       /\ None(<<"return_input", "slot">>) /\ None(<<"return_output", "prepared">>)
  BY <1>6, <1>9
<1>11. \A p \in {<<>>, <<"spawn">>, <<"run">>, <<"drain", "capture">>, <<"drain", "check">>,
                 <<"poll">>, <<"publish">>, <<"check">>, <<"requeue_direct">>,
                 <<"after_direct">>, <<"push_captured">>, <<"push_video">>} : None(p)
  BY <1>6, <1>10
<1>12. \A p \in {<<"slot">>, <<"frame">>, <<"push_prepared">>, <<"return_input", "slot">>,
                 <<"prepared">>, <<"output">>, <<"push_completed">>, <<"post">>,
                 <<"publish_result">>, <<"completed">>, <<"return_output", "prepared">>} : None(p)
  BY <1>10
<1>13. \A p \in {<<"video">>, <<"push_encoded">>, <<"drain_video">>, <<"packet">>, <<"write">>} :
          None(p)
  BY <1>10
<1> QED BY <1>1, <1>2, <1>5, <1>8, <1>10, <1>11, <1>12, <1>13 DEF None

\* What a thread that releases has in hand, by the step it is about to do.
LEMMA ReleaseHead ==
    ASSUME PcType, NEW t \in Threads, Releases(t), pc[t] # <<>>
    PROVE  /\ ~Has(Tail(pc[t]), ReleaseSteps)
           /\ Head(pc[t]) \notin ReleaseSteps =>
                  ~Has(pc[t], ReleaseSteps) /\ disposing[t] = <<>>
           /\ Head(pc[t]) \in ReleaseSteps => disposing[t] # <<>>
           /\ Head(pc[t]) \in {"process", "encode"} => Len(disposing[t]) = 1
<1>0. pc[t] \in Seq(Steps) /\ First(pc[t], ReleaseSteps)  BY DEF PcType, Releases
<1>1. ~Has(Tail(pc[t]), ReleaseSteps)  BY <1>0, TailFirst
<1>2. Head(pc[t]) \notin ReleaseSteps => ~Has(pc[t], ReleaseSteps)
  BY <1>0, <1>1, TailHas
<1>3. \A S : Head(pc[t]) \in S => Has(pc[t], S)
  <2> SUFFICES ASSUME NEW S, Head(pc[t]) \in S PROVE Has(pc[t], S)  OBVIOUS
  <2>1. 1 \in DOMAIN pc[t] /\ pc[t][1] = Head(pc[t])  BY <1>0, TailSteps
  <2> QED BY <2>1 DEF Has
<1> QED BY <1>1, <1>2, <1>3 DEF Releases

\* A thread that has nothing left in hand, or goes on as it was.
LEMMA ReleasesKept ==
    ASSUME NEW t
    PROVE  /\ ~Has(pc'[t], ReleaseSteps) /\ disposing'[t] = <<>> => Releases(t)'
           /\ Releases(t) /\ pc'[t] = pc[t] /\ disposing'[t] = disposing[t] => Releases(t)'
<1>1. ASSUME ~Has(pc'[t], ReleaseSteps), disposing'[t] = <<>> PROVE Releases(t)'
  <2>1. First(pc'[t], ReleaseSteps)  BY <1>1 DEF First, Has
  <2>2. ~Has(pc'[t], {"process", "encode"})  BY <1>1 DEF Has, ReleaseSteps
  <2> QED BY <1>1, <2>1, <2>2 DEF Releases
<1>2. ASSUME Releases(t), pc'[t] = pc[t], disposing'[t] = disposing[t] PROVE Releases(t)'
  BY <1>2 DEF Releases
<1> QED BY <1>1, <1>2

\* A thread that takes leases in hand to release them first.
LEMMA ReleasesTaken ==
    ASSUME NEW t, NEW s \in Seq(Steps), ~Has(s, ReleaseSteps), disposing'[t] # <<>>
    PROVE  /\ pc'[t] = <<"dispose">> \o s => Releases(t)'
           /\ pc'[t] \in {<<"process">>, <<"encode">>} /\ Len(disposing'[t]) = 1 => Releases(t)'
<1>0. "dispose" \in Steps /\ <<"dispose">> \in Seq(Steps)  BY DEF Steps
<1>1. ASSUME pc'[t] = <<"dispose">> \o s PROVE Releases(t)'
  <2>1. First(<<"dispose">> \o s, ReleaseSteps)  BY <1>0, PutFirst
  <2>2. Has(<<"dispose">>, ReleaseSteps) /\ ~Has(<<"dispose">>, {"process", "encode"})
    BY DEF Has, ReleaseSteps
  <2>3. Has(<<"dispose">> \o s, ReleaseSteps)  BY <1>0, <2>2, ConcatHas
  <2>4. ~Has(s, {"process", "encode"})  BY DEF Has, ReleaseSteps
  <2>5. ~Has(<<"dispose">> \o s, {"process", "encode"})  BY <1>0, <2>2, <2>4, ConcatHas
  <2> QED BY <1>1, <2>1, <2>3, <2>5 DEF Releases
<1>2. ASSUME pc'[t] \in {<<"process">>, <<"encode">>}, Len(disposing'[t]) = 1 PROVE Releases(t)'
  <2>1. First(pc'[t], ReleaseSteps)  BY <1>2, ShortLists
  <2>2. Has(pc'[t], ReleaseSteps)  BY <1>2 DEF Has, ReleaseSteps
  <2> QED BY <1>2, <2>1, <2>2 DEF Releases
<1> QED BY <1>1, <1>2

\* What is left of a list without its head.
LEMMA TailLeft ==
    ASSUME NEW S, NEW s \in Seq(S), s # <<>>
    PROVE  (Len(s) = 1 => Tail(s) = <<>>) /\ (Len(s) # 1 => Tail(s) # <<>>)
<1>1. Tail(s) \in Seq(S) /\ Len(Tail(s)) = Len(s) - 1 /\ Len(s) \in Nat \ {0}  OBVIOUS
<1> DEFINE r == Tail(s)
<1> HIDE DEF r
<1>2. r \in Seq(S) /\ Len(r) = Len(s) - 1 /\ Len(s) \in Nat \ {0}  BY <1>1 DEF r
<1>3. Len(s) = 1 => r = <<>>  BY <1>2
<1>4. Len(s) # 1 => r # <<>>  BY <1>2
<1> QED BY <1>3, <1>4 DEF r

\* Calls.
LEMMA CallReleases ==
    ASSUME PcType, WorkType, NEW t \in Threads, CallStep(t), Releases(t)
    PROVE  Releases(t)'
<1>0. pc[t] \in Seq(Steps) /\ disposing[t] \in Seq(Leases)  BY DEF PcType, WorkType
<1>1. CASE Dispose(t)
  <2>1. pc[t] # <<>> /\ Head(pc[t]) = "dispose"  BY <1>1 DEF Dispose, At
  <2>2. disposing[t] # <<>> /\ ~Has(Tail(pc[t]), ReleaseSteps)
    BY <2>1, ReleaseHead DEF ReleaseSteps
  <2>3. disposing'[t] = Tail(disposing[t])  BY <1>0, <1>1 DEF Dispose, WorkType
  <2>4. CASE Len(disposing[t]) = 1
    <3>1. disposing'[t] = <<>>  BY <1>0, <2>2, <2>3, <2>4, TailLeft
    <3>2. pc'[t] = <<>> \o Tail(pc[t])  BY <1>0, <1>1, <2>4 DEF Dispose, Proceed, PcType
    <3>3. pc'[t] = Tail(pc[t])  BY <1>0, <2>1, <3>2, EmptyFirst, TailSteps
    <3> QED BY <2>2, <3>1, <3>3, ReleasesKept
  <2>5. CASE Len(disposing[t]) # 1
    <3>1. disposing'[t] # <<>>  BY <1>0, <2>2, <2>3, <2>5, TailLeft
    <3>2. pc' = pc  BY <1>1, <2>5 DEF Dispose
    <3>3. ~Has(pc[t], {"process", "encode"}) /\ Has(pc[t], ReleaseSteps)
      <4>1. ~Has(Tail(pc[t]), {"process", "encode"})  BY <2>2 DEF Has, ReleaseSteps
      <4>2. Has(pc[t], {"process", "encode"}) => Has(Tail(pc[t]), {"process", "encode"})
        BY <1>0, <2>1, TailHas
      <4>3. Has(pc[t], ReleaseSteps)  BY <2>2 DEF Releases
      <4> QED BY <4>1, <4>2, <4>3
    <3> QED BY <3>1, <3>2, <3>3 DEF Releases
  <2> QED BY <2>4, <2>5
<1>2. CASE ~Dispose(t)
  <2>1. disposing' = disposing
    BY <1>2 DEF CallStep, SetFatal, SetStop, SetVideoFailed, CloseBroker, RequestCameraStop,
       StopQueue, NotifyCapture, ReturnInput, ReturnOutput, work, pipelineVars
  <2>2. CASE pc' = pc  BY <2>1, <2>2, ReleasesKept
  <2>3. CASE Proceeds(t)
    <3>1. pc[t] # <<>> /\ pc'[t] = Tail(pc[t])  BY <2>3 DEF Proceeds, PcType
    <3>2. Head(pc[t]) \notin ReleaseSteps \/ pc' = pc
      <4>1. \A q \in Queues : StopStep[q] \notin ReleaseSteps
        BY DEF Queues, StopStep, ReleaseSteps
      <4> QED BY <1>2, <4>1 DEF CallStep, SetFatal, SetStop, SetVideoFailed, CloseBroker,
              RequestCameraStop, StopQueue, NotifyCapture, ReturnInput, ReturnOutput,
              pipelineVars, At, ReleaseSteps
    <3>3. CASE Head(pc[t]) \notin ReleaseSteps
      BY <2>1, <3>1, <3>3, ReleaseHead, ReleasesKept
    <3>4. CASE pc' = pc  BY <2>1, <3>4, ReleasesKept
    <3> QED BY <3>2, <3>3, <3>4
  <2> QED BY <2>2, <2>3, CallMoves
<1> QED BY <1>1, <1>2

\* Steps that go on with a list in which nothing is released.
LEMMA QuietReleases ==
    ASSUME PcType, WorkType, NEW t \in Threads, Releases(t), pc[t] # <<>>,
           Head(pc[t]) \notin ReleaseSteps, disposing' = disposing,
           \/ pc'[t] = pc[t] \/ pc'[t] = <<>> \o Tail(pc[t])
           \/ pc'[t] = SignalFailure \o Tail(pc[t])
           \/ ~Has(pc'[t], ReleaseSteps)
    PROVE  Releases(t)'
<1>0. pc[t] \in Seq(Steps) /\ Tail(pc[t]) \in Seq(Steps)  BY TailSteps DEF PcType
<1>1. disposing[t] = <<>> /\ ~Has(pc[t], ReleaseSteps) /\ ~Has(Tail(pc[t]), ReleaseSteps)
  BY ReleaseHead
<1>2. ~Has(<<>> \o Tail(pc[t]), ReleaseSteps)  BY <1>0, <1>1, EmptyFirst
<1>3. ~Has(SignalFailure \o Tail(pc[t]), ReleaseSteps)
  <2>1. ~Has(SignalFailure, ReleaseSteps) /\ SignalFailure \in Seq(Steps)
    BY ReleaseLists, Lists
  <2> QED BY <1>0, <1>1, <2>1, ConcatHas
<1>4. ~Has(pc'[t], ReleaseSteps)  BY <1>1, <1>2, <1>3
<1> QED BY <1>1, <1>4, ReleasesKept

\* Leases to release now, before going on with steps that release none.
LEMMA DisposingReleases ==
    ASSUME PcType, WorkType, NEW t \in Threads, NEW leases, NEW s \in Seq(Steps),
           ~Has(s, ReleaseSteps), Disposing(t, leases, s)
    PROVE  Releases(t)'
<1>1. /\ disposing'[t] = leases
      /\ pc'[t] = IF leases = <<>> THEN s ELSE <<"dispose">> \o s
  BY DEF Disposing, Loop, PcType, WorkType
<1>2. CASE leases = <<>>  BY <1>1, <1>2, ReleasesKept
<1>3. CASE leases # <<>>  BY <1>1, <1>3, ReleasesTaken
<1> QED BY <1>2, <1>3

\* The capture loop: leases to release only with a step that releases them.
LEMMA CaptureReleases ==
    ASSUME PcType, WorkType, Releases("capture"), CaptureLoop
    PROVE  Releases("capture")'
<1>0. "capture" \in Threads  BY MainAndWorkers
<1>1. CASE PushCaptured
  <2> DEFINE s == IF queue["captured"].stopped THEN CaptureExit
                  ELSE IF EnableVideo THEN <<"push_video">> ELSE <<"check">>
  <2>1. \E leases : Disposing("capture", leases, s)  BY <1>1 DEF PushCaptured
  <2>2. s \in Seq(Steps)
    <3>1. <<"push_video">> \in Seq(Steps) /\ <<"check">> \in Seq(Steps)  BY DEF Steps
    <3> QED BY <3>1, Lists
  <2>3. ~Has(s, ReleaseSteps)  BY ReleaseLists
  <2> HIDE DEF s
  <2>4. PICK leases : Disposing("capture", leases, s)  BY <2>1
  <2> QED BY <1>0, <2>2, <2>3, <2>4, DisposingReleases
<1>2. CASE PushVideo
  <2>1. \E leases : Disposing("capture", leases, <<"check">>)  BY <1>2 DEF PushVideo
  <2>2. <<"check">> \in Seq(Steps) /\ ~Has(<<"check">>, ReleaseSteps)
    BY ReleaseLists DEF Steps
  <2>4. PICK leases : Disposing("capture", leases, <<"check">>)  BY <2>1
  <2> QED BY <1>0, <2>2, <2>4, DisposingReleases
<1>3. CASE CaptureCheck
  <2>1. pc["capture"] # <<>> /\ Head(pc["capture"]) \notin ReleaseSteps
    BY <1>3 DEF CaptureCheck, At, ReleaseSteps
  <2>2. disposing' = disposing  BY <1>3 DEF CaptureCheck, work
  <2>3. pc'["capture"] \in {CaptureExit, <<"drain", "capture">>}
    BY <1>0, <1>3 DEF CaptureCheck, Loop, PcType
  <2>4. ~Has(pc'["capture"], ReleaseSteps)  BY <2>3, ReleaseLists
  <2> QED BY <1>0, <2>1, <2>2, <2>4, QuietReleases
<1>4. CASE DrainPop \/ DrainRequeued
  <2>1. pc'["capture"] = pc["capture"] /\ disposing' = disposing
    BY <1>4 DEF DrainPop, DrainRequeued, pipelineVars, work
  <2> QED BY <2>1, ReleasesKept
<1>5. CASE DrainRequeueFailed
  <2>1. pc["capture"] # <<>> /\ Head(pc["capture"]) \notin ReleaseSteps
    BY <1>5 DEF DrainRequeueFailed, Draining, At, ReleaseSteps
  <2>2. disposing' = disposing  BY <1>5 DEF DrainRequeueFailed, work
  <2>3. pc'["capture"] \in {pc["capture"], SignalFailure \o Tail(pc["capture"])}
    BY <1>0, <1>5 DEF DrainRequeueFailed, Proceed, PcType
  <2> QED BY <1>0, <2>1, <2>2, <2>3, QuietReleases
<1>6. CASE DrainEmpty
  <2>1. pc["capture"] # <<>> /\ Head(pc["capture"]) \notin ReleaseSteps
    BY <1>6 DEF DrainEmpty, At, ReleaseSteps
  <2>2. disposing' = disposing  BY <1>6 DEF DrainEmpty, work
  <2>3. pc'["capture"] = <<>> \o Tail(pc["capture"])
    BY <1>0, <1>6 DEF DrainEmpty, Proceed, PcType
  <2> QED BY <1>0, <2>1, <2>2, <2>3, QuietReleases
<1>7. CASE CaptureStopped \/ PollWake \/ PollTimeout \/ PollThrows
  <2>1. pc["capture"] # <<>> /\ Head(pc["capture"]) \notin ReleaseSteps
    BY <1>7 DEF CaptureStopped, PollWake, PollTimeout, PollThrows, At, ReleaseSteps
  <2>2. disposing' = disposing
    BY <1>7 DEF CaptureStopped, PollWake, PollTimeout, PollThrows, work
  <2>3. pc'["capture"] \in {CaptureExit, <<"poll">>, <<"drain", "check">>, <<"check">>,
                            SignalFailure \o CaptureExit}
    BY <1>0, <1>7 DEF CaptureStopped, PollWake, PollTimeout, PollThrows, Loop, PcType
  <2>4. ~Has(pc'["capture"], ReleaseSteps)  BY <2>3, ReleaseLists
  <2> QED BY <1>0, <2>1, <2>2, <2>4, QuietReleases
<1>8. ASSUME NEW b \in Buffers, PollFrame(b) \/ \E ok \in BOOLEAN : PollDropped(b, ok)
      PROVE  Releases("capture")'
  <2>1. pc["capture"] # <<>> /\ Head(pc["capture"]) \notin ReleaseSteps
    BY <1>8 DEF PollFrame, PollDropped, At, ReleaseSteps
  <2>2. disposing' = disposing  BY <1>8 DEF PollFrame, PollDropped, work
  <2>3. pc'["capture"] \in {<<"publish">>, <<"check">>}
    BY <1>0, <1>8 DEF PollFrame, PollDropped, Loop, PcType
  <2>4. ~Has(pc'["capture"], ReleaseSteps)  BY <2>3, ReleaseLists
  <2> QED BY <1>0, <2>1, <2>2, <2>4, QuietReleases
<1>9. CASE PublishFrame \/ PublishRefused \/ RequeueDirect \/ AfterDirect
  <2>1. pc["capture"] # <<>> /\ Head(pc["capture"]) \notin ReleaseSteps
    BY <1>9 DEF PublishFrame, PublishRefused, RequeueDirect, AfterDirect, At, ReleaseSteps
  <2>2. disposing' = disposing
    BY <1>9 DEF PublishFrame, PublishRefused, RequeueDirect, AfterDirect, work
  <2>3. pc'["capture"] \in {<<"push_captured">>, <<"requeue_direct">>, <<"after_direct">>,
                            CaptureExit, <<"check">>}
    BY <1>0, <1>9 DEF PublishFrame, PublishRefused, RequeueDirect, AfterDirect, Loop, PcType
  <2>4. ~Has(pc'["capture"], ReleaseSteps)  BY <2>3, ReleaseLists
  <2> QED BY <1>0, <2>1, <2>2, <2>4, QuietReleases
<1> QED BY <1>1, <1>2, <1>3, <1>4, <1>5, <1>6, <1>7, <1>8, <1>9 DEF CaptureLoop

\* What is left in a stopped queue is taken in hand to be released.
LEMMA DrainReleases ==
    ASSUME PcType, WorkType, NEW t \in Threads, NEW q \in {"captured", "video"},
           Releases(t), DrainLeases(t, q)
    PROVE  Releases(t)'
<1>0. pc[t] \in Seq(Steps)  BY DEF PcType
<1>1. pc[t] # <<>> /\ Head(pc[t]) \notin ReleaseSteps
  BY DEF DrainLeases, At, DrainStep, ReleaseSteps
<1>2. CASE CanPop(q)
  <2>1. disposing'[t] = <<Front(q)>> /\ pc'[t] = <<"dispose">> \o pc[t]
    BY <1>2 DEF DrainLeases, WorkType, PcType
  <2>2. ~Has(pc[t], ReleaseSteps)  BY <1>1, ReleaseHead
  <2>3. disposing'[t] # <<>>  BY <2>1
  <2> QED BY <1>0, <2>1, <2>2, <2>3, ReleasesTaken
<1>3. CASE ~CanPop(q)
  <2>1. disposing' = disposing  BY <1>3 DEF DrainLeases
  <2>2. pc'[t] = <<>> \o Tail(pc[t])  BY <1>3 DEF DrainLeases, Proceed, PcType
  <2> QED BY <1>1, <2>1, <2>2, QuietReleases
<1> QED BY <1>2, <1>3

\* So in the preprocess loop.
LEMMA PreprocessReleases ==
    ASSUME PcType, WorkType, Releases("preprocess"), PreprocessLoop
    PROVE  Releases("preprocess")'
<1>0. "preprocess" \in Threads  BY MainAndWorkers
<1>1. CASE TakeInputSlot \/ NoMoreFrames \/ PushPrepared
  <2>1. pc["preprocess"] # <<>> /\ Head(pc["preprocess"]) \notin ReleaseSteps
    BY <1>1 DEF TakeInputSlot, NoMoreFrames, PushPrepared, At, ReleaseSteps
  <2>2. disposing' = disposing
    BY <1>1 DEF TakeInputSlot, NoMoreFrames, PushPrepared, work
  <2>3. pc'["preprocess"] \in {<<"frame">>, PreprocessExit, <<"slot">>,
                               <<"return_input">> \o PreprocessExit}
    BY <1>0, <1>1 DEF TakeInputSlot, NoMoreFrames, PushPrepared, Loop, PcType
  <2>4. ~Has(pc'["preprocess"], ReleaseSteps)  BY <2>3, ReleaseLists
  <2> QED BY <1>0, <2>1, <2>2, <2>4, QuietReleases
<1>2. CASE TakeFrame
  <2>1. disposing'["preprocess"] = <<Front("captured")>>
    BY <1>0, <1>2 DEF TakeFrame, WorkType
  <2>2. pc'["preprocess"] \in {<<"dispose", "return_input", "slot">>, <<"process">>}
    BY <1>0, <1>2 DEF TakeFrame, Loop, PcType
  <2>3. /\ <<"return_input", "slot">> \in Seq(Steps)
        /\ ~Has(<<"return_input", "slot">>, ReleaseSteps)
    BY ReleaseLists DEF Steps
  <2>4. <<"dispose", "return_input", "slot">> = <<"dispose">> \o <<"return_input", "slot">>
    OBVIOUS
  <2>5. disposing'["preprocess"] # <<>> /\ Len(disposing'["preprocess"]) = 1  BY <2>1
  <2>6. \/ pc'["preprocess"] = <<"dispose">> \o <<"return_input", "slot">>
        \/ pc'["preprocess"] = <<"process">>
    BY <2>2, <2>4
  <2> HIDE DEF Releases
  <2> QED BY <1>0, <2>3, <2>5, <2>6, ReleasesTaken
<1>3. CASE Preprocess
  <2>1. disposing'["preprocess"] = <<>>  BY <1>0, <1>3 DEF Preprocess, WorkType
  <2>2. pc'["preprocess"] \in {<<"push_prepared">>, <<"return_input", "slot">>,
                               SignalFailure \o PreprocessExit}
    BY <1>0, <1>3 DEF Preprocess, Loop, PcType
  <2>3. ~Has(pc'["preprocess"], ReleaseSteps)  BY <2>2, ReleaseLists
  <2> QED BY <2>1, <2>3, ReleasesKept
<1>4. CASE DrainLeases("preprocess", "captured")  BY <1>0, <1>4, DrainReleases
<1> QED BY <1>1, <1>2, <1>3, <1>4 DEF PreprocessLoop

\* So in the loops of the npu and postprocess stages.
LEMMA StageReleases ==
    ASSUME PcType, WorkType, NEW t \in {"npu", "postprocess"}, Releases(t),
           \/ t = "npu" /\ NpuLoop
           \/ t = "postprocess" /\ TakeCompleted
           \/ PostprocessStep(t)
    PROVE  Releases(t)'
<1>0. t \in Threads  BY MainAndWorkers
<1>1. CASE t = "npu" /\ NpuLoop
  <2>1. pc[t] # <<>> /\ Head(pc[t]) \notin ReleaseSteps
    BY <1>1 DEF NpuLoop, TakePrepared, TakeOutputSlot, Run, PushCompleted, At, ReleaseSteps
  <2>2. disposing' = disposing
    BY <1>1 DEF NpuLoop, TakePrepared, TakeOutputSlot, Run, PushCompleted
  <2>3. pc'[t] \in {<<"output">>, NpuExit, <<"run">>, <<"return_input">> \o NpuExit,
                    <<"push_completed">>, <<"post">>, <<"return_output", "prepared">>,
                    SignalFailure \o NpuExit, <<"return_output">> \o NpuExit, <<"prepared">>}
    BY <1>0, <1>1 DEF NpuLoop, TakePrepared, TakeOutputSlot, Run, PushCompleted, Loop, PcType
  <2>4. ~Has(pc'[t], ReleaseSteps)  BY <2>3, ReleaseLists
  <2> QED BY <1>0, <2>1, <2>2, <2>4, QuietReleases
<1>2. CASE t = "postprocess" /\ TakeCompleted
  <2>1. pc[t] # <<>> /\ Head(pc[t]) \notin ReleaseSteps
    BY <1>2 DEF TakeCompleted, At, ReleaseSteps
  <2>2. disposing' = disposing  BY <1>2 DEF TakeCompleted
  <2>3. pc'[t] \in {<<"post">>, <<>>}  BY <1>0, <1>2 DEF TakeCompleted, Loop, PcType
  <2>4. ~Has(pc'[t], ReleaseSteps)  BY <2>3, ReleaseLists
  <2> QED BY <1>0, <2>1, <2>2, <2>4, QuietReleases
<1>3. CASE PostprocessStep(t)
  <2>1. pc[t] # <<>> /\ Head(pc[t]) \notin ReleaseSteps
    BY <1>3 DEF PostprocessStep, Postprocess, PublishResult, At, ReleaseSteps
  <2>2. disposing' = disposing  BY <1>3 DEF PostprocessStep, Postprocess, PublishResult
  <2>3. pc'[t] \in {<<"publish_result">>, <<"prepared">>, <<"completed">>}
    BY <1>0, <1>3 DEF PostprocessStep, Postprocess, PublishResult, NextRound, Loop, PcType
  <2>4. ~Has(pc'[t], ReleaseSteps)  BY <2>3, ReleaseLists
  <2> QED BY <1>0, <2>1, <2>2, <2>4, QuietReleases
<1> QED BY <1>1, <1>2, <1>3

\* So in the video loop.
LEMMA VideoReleases ==
    ASSUME PcType, WorkType, Releases("video"), VideoLoop
    PROVE  Releases("video")'
<1>0. "video" \in Threads  BY MainAndWorkers
<1>1. CASE TakeVideoFrame
  <2>1. CASE Drained("video") /\ UNCHANGED disposing /\ Loop("video", <<"drain_video">>)
    <3>1. pc["video"] # <<>> /\ Head(pc["video"]) \notin ReleaseSteps
      BY <1>1 DEF TakeVideoFrame, At, ReleaseSteps
    <3>2. pc'["video"] = <<"drain_video">>  BY <1>0, <2>1 DEF Loop, PcType
    <3>3. ~Has(pc'["video"], ReleaseSteps)  BY <3>2, ReleaseLists
    <3>4. disposing' = disposing  BY <2>1
    <3> QED BY <1>0, <3>1, <3>3, <3>4, QuietReleases
  <2>2. CASE /\ disposing' = [disposing EXCEPT !["video"] = <<Front("video")>>]
             /\ Loop("video", <<"dispose", "video">>) \/ Loop("video", <<"encode">>)
    <3>1. disposing'["video"] = <<Front("video")>>  BY <1>0, <2>2 DEF WorkType
    <3>2. pc'["video"] = <<"dispose", "video">> \/ pc'["video"] = <<"encode">>
      BY <1>0, <2>2 DEF Loop, PcType
    <3>3. <<"video">> \in Seq(Steps) /\ ~Has(<<"video">>, ReleaseSteps)
      BY ReleaseLists DEF Steps
    <3>4. <<"dispose", "video">> = <<"dispose">> \o <<"video">>  OBVIOUS
    <3>5. disposing'["video"] # <<>> /\ Len(disposing'["video"]) = 1  BY <3>1
    <3>6. pc'["video"] = <<"dispose">> \o <<"video">> \/ pc'["video"] = <<"encode">>
      BY <3>2, <3>4
    <3> QED BY <1>0, <3>3, <3>5, <3>6, ReleasesTaken
  <2> QED BY <1>1, <2>1, <2>2 DEF TakeVideoFrame
<1>2. CASE Encode
  <2>1. disposing'["video"] = <<>>  BY <1>0, <1>2 DEF Encode, WorkType
  <2>2. pc'["video"] \in {<<"push_encoded">>, SignalVideoFailure \o <<"drain_video">>}
    BY <1>0, <1>2 DEF Encode, Loop, PcType
  <2>3. ~Has(pc'["video"], ReleaseSteps)  BY <2>2, ReleaseLists
  <2> QED BY <2>1, <2>3, ReleasesKept
<1>3. CASE PushEncoded
  <2>1. pc["video"] # <<>> /\ Head(pc["video"]) \notin ReleaseSteps
    BY <1>3 DEF PushEncoded, At, ReleaseSteps
  <2>2. disposing' = disposing  BY <1>3 DEF PushEncoded
  <2>3. pc'["video"] = <<"video">>  BY <1>0, <1>3 DEF PushEncoded, Loop, PcType
  <2>4. ~Has(pc'["video"], ReleaseSteps)  BY <2>3, ReleaseLists
  <2> QED BY <1>0, <2>1, <2>2, <2>4, QuietReleases
<1>4. CASE DrainLeases("video", "video")  BY <1>0, <1>4, DrainReleases
<1> QED BY <1>1, <1>2, <1>3, <1>4 DEF VideoLoop

\* So in the loop of the encoded packets, which releases none.
LEMMA PacketReleases ==
    ASSUME PcType, WorkType, Releases("encoded"), EncodedPacketLoop
    PROVE  Releases("encoded")'
<1>0. "encoded" \in Threads  BY MainAndWorkers
<1>1. pc["encoded"] # <<>> /\ Head(pc["encoded"]) \notin ReleaseSteps
  BY DEF EncodedPacketLoop, TakePacket, WritePacket, At, ReleaseSteps
<1>2. disposing' = disposing  BY DEF EncodedPacketLoop, TakePacket, WritePacket
<1>3. pc'["encoded"] \in {<<"write">>, <<>>, SignalVideoFailure, <<"packet">>}
  BY <1>0 DEF EncodedPacketLoop, TakePacket, WritePacket, Loop, PcType
<1>4. ~Has(pc'["encoded"], ReleaseSteps)  BY <1>3, ReleaseLists
<1> QED BY <1>0, <1>1, <1>2, <1>4, QuietReleases

\* So in the supervising thread.
LEMMA SuperviseReleases ==
    ASSUME PcType, WorkType, Releases("main"), Supervise
    PROVE  Releases("main")'
<1>0. "main" \in Threads  BY MainAndWorkers
<1>1. pc["main"] # <<>> /\ Head(pc["main"]) \notin ReleaseSteps
  BY DEF Supervise, StartCamera, Spawn, Join, StopCamera, At, ReleaseSteps
<1>2. disposing' = disposing
  BY DEF Supervise, StartCamera, Spawn, Join, StopCamera, work
<1>3. CASE StartCamera
  <2>1. pc'["main"] \in {<<"spawn">>, SignalFailure}
    BY <1>0, <1>3 DEF StartCamera, Loop, PcType
  <2>2. ~Has(pc'["main"], ReleaseSteps)  BY <2>1, ReleaseLists
  <2> QED BY <1>0, <1>1, <1>2, <2>2, QuietReleases
<1>4. CASE Spawns
  <2>1. pc'["main"] \in {<<"run">>, SignalFailure \o StopSteps}  BY <1>4, SpawnEffect
  <2>2. ~Has(pc'["main"], ReleaseSteps)  BY <2>1, ReleaseLists
  <2> QED BY <1>0, <1>1, <1>2, <2>2, QuietReleases
<1>5. CASE Join \/ StopCamera
  <2>1. pc'["main"] = <<>> \o Tail(pc["main"])
    BY <1>0, <1>5 DEF Join, StopCamera, Proceed, PcType
  <2> QED BY <1>0, <1>1, <1>2, <2>1, QuietReleases
<1> QED BY <1>3, <1>4, <1>5 DEF Supervise, Spawns

\* A thread that the step is not of goes on as it was; one that is created releases nothing.
LEMMA OthersReleases ==
    ASSUME PcType, WorkType, Fresh, NEW t \in Threads, ThreadStep(t), NEW u \in Threads,
           u # t, Releases(u)
    PROVE  Releases(u)'
<1>1. disposing'[u] = disposing[u]  BY DisposingOwn
<1>2. CASE pc'[u] = pc[u]  BY <1>1, <1>2, ReleasesKept
<1>3. CASE t = "main" /\ Spawns
  <2>1. u \in Workers  BY <1>3, MainAndWorkers
  <2>2. pc[u] = <<>>  BY <1>3, <2>1, SpawnFresh
  <2>3. disposing[u] = <<>>  BY <2>2 DEF Releases, Has
  <2>4. pc'[u] = <<>> \/ pc'[u] = <<FirstStep[u]>>  BY <1>3, <2>1, SpawnEffect
  <2>5. ~Has(pc'[u], ReleaseSteps)  BY <2>1, <2>4, ReleaseLists
  <2> QED BY <1>1, <2>3, <2>5, ReleasesKept
<1> QED BY <1>2, <1>3, OthersWait

\* No step leaves leases to release without a step that releases them.
LEMMA ReleasesStep ==
    ASSUME PcType, WorkType, Fresh, Releasing, NEW t \in Threads, ThreadStep(t)
    PROVE  Releasing'
<1>1. Releases(t)'
  <2>0. Releases(t)  BY DEF Releasing
  <2>1. CASE CallStep(t)  BY <2>0, <2>1, CallReleases
  <2>2. CASE t = "main" /\ Supervise  BY <2>0, <2>2, SuperviseReleases
  <2>3. CASE t = "capture" /\ CaptureLoop  BY <2>0, <2>3, CaptureReleases
  <2>4. CASE t = "preprocess" /\ PreprocessLoop  BY <2>0, <2>4, PreprocessReleases
  <2>5. CASE t = "npu" /\ (NpuLoop \/ PostprocessStep(t))  BY <2>0, <2>5, StageReleases
  <2>6. CASE t = "postprocess" /\ (TakeCompleted \/ PostprocessStep(t))
    BY <2>0, <2>6, StageReleases
  <2>7. CASE t = "video" /\ VideoLoop  BY <2>0, <2>7, VideoReleases
  <2>8. CASE t = "encoded" /\ EncodedPacketLoop  BY <2>0, <2>8, PacketReleases
  <2> QED BY <2>1, <2>2, <2>3, <2>4, <2>5, <2>6, <2>7, <2>8 DEF ThreadStep
<1>2. ASSUME NEW u \in Threads, u # t PROVE Releases(u)'
  BY <1>2, OthersReleases DEF Releasing
<1>3. ASSUME NEW u \in Threads PROVE Releases(u)'  BY <1>1, <1>2
<1> QED BY <1>3 DEF Releasing

\* Only the capture thread changes what it dispatches.
LEMMA DispatchOwn ==
    ASSUME NEW t \in Threads, t # "capture", ThreadStep(t)
    PROVE  dispatch' = dispatch
<1> USE DEF pipelineVars, work
<1>1. CASE CallStep(t)
  BY <1>1 DEF CallStep, SetFatal, SetStop, SetVideoFailed, CloseBroker,
     RequestCameraStop, StopQueue, NotifyCapture, Dispose, ReturnInput, ReturnOutput
<1>2. CASE t = "main" /\ Supervise
  BY <1>2 DEF Supervise, StartCamera, Spawn, Join, StopCamera
<1>3. CASE t = "preprocess" /\ PreprocessLoop
  BY <1>3 DEF PreprocessLoop, TakeInputSlot, TakeFrame, NoMoreFrames, Preprocess,
     PushPrepared, DrainLeases
<1>4. CASE (t = "npu" \/ t = "postprocess") /\ PostprocessStep(t)
  BY <1>4 DEF PostprocessStep, Postprocess, PublishResult
<1>5. CASE \/ t = "npu" /\ NpuLoop
           \/ t = "postprocess" /\ TakeCompleted
  BY <1>5 DEF NpuLoop, TakePrepared, TakeOutputSlot, Run, PushCompleted, TakeCompleted
<1>6. CASE t = "video" /\ VideoLoop
  BY <1>6 DEF VideoLoop, TakeVideoFrame, Encode, PushEncoded, DrainLeases
<1>7. CASE t = "encoded" /\ EncodedPacketLoop
  BY <1>7 DEF EncodedPacketLoop, TakePacket, WritePacket
<1> QED BY <1>1, <1>2, <1>3, <1>4, <1>5, <1>6, <1>7 DEF ThreadStep

\* The leases of the frame being dispatched, by the step the capture thread is at.
Dispatched ==
    IF dispatch = <<>> THEN <<>>
    ELSE IF pc["capture"] # <<"push_captured">> THEN <<Lease(dispatch[1], "video")>>
    ELSE IF EnableVideo THEN <<Lease(dispatch[1], "inference"), Lease(dispatch[1], "video")>>
    ELSE <<Lease(dispatch[1], "inference")>>

\* A list of two is two lists of one.
LEMMA TwoLists == ASSUME NEW a, NEW b PROVE <<a, b>> = <<a>> \o <<b>>
<1> DEFINE S == {a, b}
           c == <<a>> \o <<b>>
<1>1. <<a>> \in Seq(S) /\ <<b>> \in Seq(S) /\ <<a, b>> \in Seq(S)  OBVIOUS
<1>2. c \in Seq(S) /\ Len(c) = 2 /\ c[1] = a /\ c[2] = b  BY <1>1
<1>3. Len(<<a, b>>) = 2 /\ <<a, b>>[1] = a /\ <<a, b>>[2] = b  OBVIOUS
<1> DEFINE d == <<a, b>>
<1> HIDE DEF c, d
<1>4. d \in Seq(S) /\ Len(d) = 2 /\ d[1] = a /\ d[2] = b  BY <1>1, <1>3 DEF d
<1>5. Len(c) = Len(d) /\ \A i \in 1..Len(c) : c[i] = d[i]  BY <1>2, <1>4
<1>6. c = d  BY <1>2, <1>4, <1>5, SeqEqual
<1> QED BY <1>6 DEF c, d

\* The leases being dispatched, from the step the capture thread is at.
LEMMA DispatchedAre ==
    /\ Dispatching => DispatchedLeases = Dispatched
    /\ Dispatching' => DispatchedLeases' = Dispatched'
<1>0. \A a, b : /\ <<a, b>> = <<a>> \o <<b>> /\ <<a>> = <<a>> \o <<>>
               /\ <<a>> = <<>> \o <<a>> /\ <<>> # <<a>>
  <2>1. \A a, b : <<a, b>> = <<a>> \o <<b>>  BY TwoLists
  <2>2. \A a : <<a>> = <<a>> \o <<>>  OBVIOUS
  <2>3. \A a : <<a>> = <<>> \o <<a>>  OBVIOUS
  <2> QED BY <2>1, <2>2, <2>3
<1>1. ASSUME Dispatching PROVE DispatchedLeases = Dispatched
  <2>1. CASE dispatch = <<>>  BY <2>1 DEF DispatchedLeases, Dispatched
  <2>2. CASE pc["capture"] = <<"push_captured">> /\ "capture" \notin notifying
    <3>1. At("capture", "push_captured")  BY <2>2 DEF At
    <3> QED BY <1>0, <2>2, <3>1 DEF DispatchedLeases, Dispatched
  <2>3. CASE EnableVideo /\ pc["capture"] \in {<<"push_video">>, <<"dispose", "push_video">>}
    <3>1. ~At("capture", "push_captured") /\ pc["capture"] # <<"push_captured">>
      BY <2>3 DEF At
    <3> QED BY <1>0, <2>3, <3>1 DEF DispatchedLeases, Dispatched
  <2> QED BY <1>1, <2>1, <2>2, <2>3 DEF Dispatching
<1>2. ASSUME Dispatching' PROVE DispatchedLeases' = Dispatched'
  <2>1. CASE dispatch' = <<>>  BY <2>1 DEF DispatchedLeases, Dispatched
  <2>2. CASE pc'["capture"] = <<"push_captured">> /\ "capture" \notin notifying'
    <3>1. At("capture", "push_captured")'  BY <2>2 DEF At
    <3> QED BY <1>0, <2>2, <3>1 DEF DispatchedLeases, Dispatched
  <2>3. CASE EnableVideo /\ pc'["capture"] \in {<<"push_video">>, <<"dispose", "push_video">>}
    <3>1. ~At("capture", "push_captured")' /\ pc'["capture"] # <<"push_captured">>
      BY <2>3 DEF At
    <3> QED BY <1>0, <2>3, <3>1 DEF DispatchedLeases, Dispatched
  <2> QED BY <1>2, <2>1, <2>2, <2>3 DEF Dispatching
<1> QED BY <1>1, <1>2

\* The steps at which there is a frame to hand on.
LEMMA DispatchingHead ==
    ASSUME Dispatching, pc["capture"] = <<>> \/
               Head(pc["capture"]) \notin {"push_captured", "push_video", "dispose"}
    PROVE  dispatch = <<>>
BY DEF Dispatching

\* The steps that are not of the dispatch leave it as it is.
LEMMA DispatchedKept ==
    ASSUME PcType, WorkType, Fresh, Dispatching, NEW t \in Threads, ThreadStep(t),
           ~(t = "capture" /\ (PublishFrame \/ PushCaptured \/ PushVideo))
    PROVE  Dispatching' /\ DispatchedLeases' = DispatchedLeases /\ dispatch' = dispatch
<1> USE MainAndWorkers
<1> DEFINE s == pc["capture"]
<1> SUFFICES /\ dispatch' = dispatch
             /\ dispatch # <<>> =>
                    /\ Dispatching'
                    /\ s' = <<"push_captured">> <=> s = <<"push_captured">>
  <2>1. ASSUME dispatch = <<>>, dispatch' = dispatch
        PROVE  Dispatching' /\ Dispatched' = Dispatched
    BY <2>1 DEF Dispatching, Dispatched
  <2>2. ASSUME dispatch # <<>>, dispatch' = dispatch, Dispatching',
               s' = <<"push_captured">> <=> s = <<"push_captured">>
        PROVE  Dispatching' /\ Dispatched' = Dispatched
    BY <2>2 DEF Dispatched
  <2> QED BY <2>1, <2>2, DispatchedAre
<1>1. CASE t # "capture"
  <2>1. dispatch' = dispatch  BY <1>1, DispatchOwn
  <2>2. ASSUME dispatch # <<>>
        PROVE  Dispatching' /\ (s' = <<"push_captured">> <=> s = <<"push_captured">>)
    <3>1. s # <<>>
      <4>1. \A a, b : <<a>> # <<>> /\ <<a, b>> # <<>>  OBVIOUS
      <4> QED BY <2>2, <4>1 DEF Dispatching
    <3>2. s' = s  BY <1>1, <3>1, OthersWait, SpawnFresh
    <3>3. "capture" \notin notifying => "capture" \notin notifying'
      BY <1>1, NotifiersStep
    <3> QED BY <2>1, <2>2, <3>2, <3>3 DEF Dispatching
  <2> QED BY <2>1, <2>2
<1>2. CASE t = "capture" /\ CallStep(t)
  <2>1. dispatch' = dispatch
    BY <1>2 DEF CallStep, SetFatal, SetStop, SetVideoFailed, CloseBroker, pipelineVars,
        RequestCameraStop, StopQueue, NotifyCapture, Dispose, ReturnInput, ReturnOutput, work
  <2>2. ASSUME dispatch # <<>>
        PROVE  Dispatching' /\ (s' = <<"push_captured">> <=> s = <<"push_captured">>)
    <3>1. s # <<"push_captured">> \/ "capture" \in notifying
      BY <1>2, CallHeads DEF CallSteps
    <3>2. EnableVideo /\ s \in {<<"push_video">>, <<"dispose", "push_video">>}
      BY <2>2, <3>1 DEF Dispatching
    <3>3. s' = s \/ (Head(s) \in CallSteps /\ s' = Tail(s))
      BY <1>2, CallHeads, CallMoves DEF Proceeds, PcType
    <3>4. CASE s' = s  BY <2>1, <3>1, <3>2, <3>4 DEF Dispatching
    <3>5. CASE Head(s) \in CallSteps /\ s' = Tail(s)
      <4>1. s = <<"dispose", "push_video">>  BY <3>2, <3>5 DEF CallSteps
      <4>2. s' = <<"push_video">>  BY <3>5, <4>1
      <4>3. s' # <<"push_captured">> /\ s # <<"push_captured">>  BY <4>1, <4>2
      <4> QED BY <2>1, <3>2, <4>2, <4>3 DEF Dispatching
    <3> QED BY <3>3, <3>4, <3>5
  <2> QED BY <2>1, <2>2
<1>3. CASE t = "capture" /\ CaptureLoop
  <2>1. Head(s) \notin {"push_captured", "push_video", "dispose"}
    <3>1. CASE \/ CaptureCheck \/ CaptureStopped \/ PollWake \/ PollTimeout \/ PollThrows
               \/ (\E b \in Buffers : PollFrame(b))
               \/ (\E b \in Buffers, ok \in BOOLEAN : PollDropped(b, ok))
      BY <3>1 DEF CaptureCheck, CaptureStopped, PollWake, PollTimeout, PollThrows,
         PollFrame, PollDropped, At
    <3>2. CASE PublishRefused \/ RequeueDirect \/ AfterDirect
      BY <3>2 DEF PublishRefused, RequeueDirect, AfterDirect, At
    <3>3. CASE DrainPop \/ DrainRequeued \/ DrainRequeueFailed \/ DrainEmpty
      BY <3>3 DEF DrainPop, DrainRequeued, DrainRequeueFailed, DrainEmpty, Draining, At
    <3> QED BY <1>3, <3>1, <3>2, <3>3 DEF CaptureLoop
  <2>2. dispatch' = dispatch
    <3>1. CASE \/ CaptureCheck \/ CaptureStopped \/ PollWake \/ PollTimeout \/ PollThrows
               \/ (\E b \in Buffers : PollFrame(b))
               \/ (\E b \in Buffers, ok \in BOOLEAN : PollDropped(b, ok))
      BY <3>1 DEF CaptureCheck, CaptureStopped, PollWake, PollTimeout, PollThrows,
         PollFrame, PollDropped, work
    <3>2. CASE PublishRefused \/ RequeueDirect \/ AfterDirect
      BY <3>2 DEF PublishRefused, RequeueDirect, AfterDirect, work
    <3>3. CASE DrainPop \/ DrainRequeued \/ DrainRequeueFailed \/ DrainEmpty
      BY <3>3 DEF DrainPop, DrainRequeued, DrainRequeueFailed, DrainEmpty, pipelineVars, work
    <3> QED BY <1>3, <3>1, <3>2, <3>3 DEF CaptureLoop
  <2> QED BY <2>1, <2>2, DispatchingHead
<1> QED BY <1>1, <1>2, <1>3 DEF ThreadStep

\* The steps of the dispatch.
LEMMA DispatchMoves ==
    ASSUME PcType, WorkType, DispatchAt, Dispatching,
           PublishFrame \/ PushCaptured \/ PushVideo
    PROVE  /\ Dispatching'
           /\ PublishFrame => dispatch = <<>>
           /\ PushCaptured => dispatch # <<>> /\ pc["capture"] = <<"push_captured">>
           /\ PushCaptured /\ dispatch' # <<>> =>
                  dispatch' = dispatch /\ pc'["capture"] # <<"push_captured">>
           /\ PushVideo => dispatch # <<>> /\ pc["capture"] # <<"push_captured">>
<1> DEFINE s == pc["capture"]
<1>0. "capture" \in Threads /\ s \in Seq(Steps)  BY MainAndWorkers DEF PcType
<1>1. CASE PublishFrame
  <2>1. s # <<>> /\ Head(s) = "publish" /\ "capture" \notin notifying
    BY <1>1 DEF PublishFrame, At
  <2>2. s' = <<"push_captured">> /\ notifying' = notifying
    BY <1>0, <1>1 DEF PublishFrame, PublishAccepted, Loop, PcType
  <2>3. dispatch = <<>>  BY <2>1, DispatchingHead
  <2>4. Dispatching'  BY <2>1, <2>2 DEF Dispatching
  <2>5. ~PushCaptured /\ ~PushVideo  BY <2>1 DEF PushCaptured, PushVideo, At
  <2> QED BY <2>3, <2>4, <2>5
<1>2. CASE PushCaptured
  <2>1. s # <<>> /\ Head(s) = "push_captured"  BY <1>2 DEF PushCaptured, At
  <2>2. dispatch # <<>>
    <3>1. Has(s, {"push_captured", "push_video"})  BY <1>0, <2>1, TailSteps DEF Has
    <3> QED BY <3>1 DEF DispatchAt
  <2>3. s = <<"push_captured">>  BY <2>1, <2>2 DEF Dispatching
  <2>4. \/ dispatch' = <<>>
        \/ /\ EnableVideo /\ dispatch' = dispatch
           /\ s' = <<"push_video">> \/ s' = <<"dispose">> \o <<"push_video">>
    BY <1>0, <1>2 DEF PushCaptured, Disposing, Loop, PcType
  <2>5. <<"dispose">> \o <<"push_video">> = <<"dispose", "push_video">>
    <3>1. <<"dispose", "push_video">> = <<"dispose">> \o <<"push_video">>  OBVIOUS
    <3> QED BY <3>1
  <2>6. <<"push_video">> # <<"push_captured">> /\ <<"dispose", "push_video">> # <<"push_captured">>
    OBVIOUS
  <2>7. dispatch' # <<>> => dispatch' = dispatch /\ s' # <<"push_captured">>
    BY <2>4, <2>5, <2>6
  <2>8. Dispatching'  BY <2>4, <2>5 DEF Dispatching
  <2>9. ~PublishFrame /\ ~PushVideo  BY <2>1 DEF PublishFrame, PushVideo, At
  <2> QED BY <2>2, <2>3, <2>9, <2>7, <2>8
<1>3. CASE PushVideo
  <2>1. s # <<>> /\ Head(s) = "push_video" /\ dispatch' = <<>>
    BY <1>3 DEF PushVideo, At
  <2>2. dispatch # <<>>
    <3>1. Has(s, {"push_captured", "push_video"})  BY <1>0, <2>1, TailSteps DEF Has
    <3> QED BY <3>1 DEF DispatchAt
  <2>3. s # <<"push_captured">>  BY <2>1
  <2>4. Dispatching'  BY <2>1 DEF Dispatching
  <2>5. ~PublishFrame /\ ~PushCaptured  BY <2>1 DEF PublishFrame, PushCaptured, At
  <2> QED BY <2>2, <2>3, <2>4, <2>5
<1> QED BY <1>1, <1>2, <1>3

\* What lies in the places is just what there is, each once.
Placed(P, L) == Single(P) /\ \A x : Lies(P, x) <=> x \in L

\* What there is stays placed when one thing moves to another place,
LEMMA PlacedMoved ==
    ASSUME NEW N, NEW V, NEW P \in [N -> Seq(V)], NEW Q \in [N -> Seq(V)], NEW L,
           NEW a \in N, NEW b \in N, a # b, Moved(P, Q, a, b), Placed(P, L)
    PROVE  Placed(Q, L)
BY PlaceMoved DEF Placed

\* when a thing that ceases to be is taken from its place,
LEMMA PlacedDropped ==
    ASSUME NEW N, NEW V, NEW P \in [N -> Seq(V)], NEW Q \in [N -> Seq(V)], NEW L,
           NEW a \in N, Dropped(P, Q, a), Placed(P, L)
    PROVE  Placed(Q, L \ {Head(P[a])})
<1>1. Single(P) /\ \A x : Lies(P, x) <=> x \in L  BY DEF Placed
<1>2. Single(Q) /\ \A x : Lies(Q, x) <=> Lies(P, x) /\ x # Head(P[a])
  BY <1>1, PlaceDropped
<1>3. \A x : Lies(Q, x) <=> x \in L \ {Head(P[a])}  BY <1>1, <1>2
<1> QED BY <1>2, <1>3 DEF Placed

\* when a new thing is put in a place,
LEMMA PlacedGained ==
    ASSUME NEW N, NEW V, NEW P \in [N -> Seq(V)], NEW Q \in [N -> Seq(V)], NEW L,
           NEW a \in N, NEW x \in V, Gained(P, Q, a, x), Placed(P, L), x \notin L
    PROVE  Placed(Q, L \cup {x})
<1>0. Single(P) /\ ~Lies(P, x)  BY DEF Placed
<1>1. \A y : Lies(P, y) <=> y \in L  BY DEF Placed
<1>2. Single(Q) /\ \A y : Lies(Q, y) <=> Lies(P, y) \/ y = x
  <2>1. ~Lies(P, x) /\ Single(P) /\ Gained(P, Q, a, x)  BY <1>0
  <2>2. Single(Q)  BY <2>1, PlaceGained
  <2>3. ASSUME NEW y PROVE Lies(Q, y) <=> Lies(P, y) \/ y = x
    <3>1. ASSUME Lies(Q, y), y # x PROVE Lies(P, y)  BY <2>1, <3>1, PlaceGained
    <3>2. ASSUME Lies(P, y) PROVE Lies(Q, y)  BY <2>1, <3>2, PlaceGained
    <3>3. Lies(Q, x)  BY <2>1, PlaceGained
    <3> QED BY <3>1, <3>2, <3>3 DEF Lies
  <2> QED BY <2>2, <2>3
<1>3. \A y : Lies(Q, y) <=> y \in L \cup {x}  BY <1>1, <1>2
<1> QED BY <1>2, <1>3 DEF Placed

\* A push hands the head of place d to queue q; what the queue does not keep, its head or
\* the item it refuses, goes to place c.
Handed(P, Q, d, q, c) ==
    /\ P[d] # <<>> /\ P[c] = <<>> /\ Q[d] = Tail(P[d])
    /\ \/ Q[q] = Append(P[q], Head(P[d])) /\ Q[c] = <<>>
       \/ P[q] # <<>> /\ Q[q] = Append(Tail(P[q]), Head(P[d])) /\ Q[c] = <<Head(P[q])>>
       \/ Q[q] = P[q] /\ Q[c] = <<Head(P[d])>>
    /\ \A a \in DOMAIN P \ {d, q, c} : Q[a] = P[a]

\* when a place hands over all it has,
LEMMA PlacedHanded ==
    ASSUME NEW N, NEW V, NEW P \in [N -> Seq(V)], NEW Q \in [N -> Seq(V)], NEW L,
           NEW d \in N, NEW q \in N, NEW c \in N, d # q, d # c, q # c,
           Handed(P, Q, d, q, c), Placed(P, L)
    PROVE  Placed(Q, L)
<1>0. /\ P[d] # <<>> /\ P[c] = <<>> /\ Q[d] = Tail(P[d]) /\ DOMAIN P = N
      /\ \A a \in N \ {d, q, c} : Q[a] = P[a]
  BY DEF Handed
<1>1. CASE Q[q] = Append(P[q], Head(P[d])) /\ Q[c] = <<>>
  <2>1. \A a \in DOMAIN P \ {d, q} : Q[a] = P[a]  BY <1>0, <1>1
  <2>2. Moved(P, Q, d, q)  BY <1>0, <1>1, <2>1 DEF Moved
  <2> QED BY <2>2, PlacedMoved
<1>2. CASE P[q] # <<>> /\ Q[q] = Append(Tail(P[q]), Head(P[d])) /\ Q[c] = <<Head(P[q])>>
  <2> DEFINE R == [P EXCEPT ![q] = Tail(P[q]), ![c] = <<Head(P[q])>>]
  <2>1. P[q] \in Seq(V) /\ Tail(P[q]) \in Seq(V) /\ Head(P[q]) \in V
        /\ <<Head(P[q])>> \in Seq(V)
    BY <1>2
  <2>2. R \in [N -> Seq(V)]  BY <2>1
  <2>3. R[q] = Tail(P[q]) /\ R[c] = <<Head(P[q])>> /\ \A a \in N \ {q, c} : R[a] = P[a]
    OBVIOUS
  <2>4. DOMAIN R = N /\ R[d] = P[d]  BY <2>3
  <2> HIDE DEF R
  <2>5. <<Head(P[q])>> = Append(P[c], Head(P[q]))  BY <1>0, <2>1
  <2>6. Moved(P, R, q, c)  BY <1>0, <1>2, <2>3, <2>5 DEF Moved
  <2>7. Placed(R, L)  BY <2>2, <2>6, PlacedMoved
  <2>8. \A a \in DOMAIN R \ {d, q} : Q[a] = R[a]  BY <1>0, <1>2, <2>3, <2>4
  <2>9. Moved(R, Q, d, q)  BY <1>0, <1>2, <2>3, <2>4, <2>8 DEF Moved
  <2> QED BY <2>2, <2>7, <2>9, PlacedMoved
<1>3. CASE Q[q] = P[q] /\ Q[c] = <<Head(P[d])>>
  <2>1. \A a \in DOMAIN P \ {d, c} : Q[a] = P[a]  BY <1>0, <1>3
  <2>2. P[d] \in Seq(V) /\ Head(P[d]) \in V  BY <1>0
  <2>3. <<Head(P[d])>> = Append(P[c], Head(P[d]))  BY <1>0, <2>2
  <2>4. Moved(P, Q, d, c)  BY <1>0, <1>3, <2>1, <2>3 DEF Moved
  <2> QED BY <2>4, PlacedMoved
<1> QED BY <1>1, <1>2, <1>3 DEF Handed

\* Lists of one and of two.
LEMMA TwoItems ==
    ASSUME NEW V, NEW x \in V, NEW y \in V
    PROVE  /\ <<x, y>> # <<>> /\ Tail(<<x, y>>) = <<y>> /\ Head(<<x, y>>) = x
           /\ <<y>> # <<>> /\ Tail(<<y>>) = <<>> /\ Head(<<y>>) = y
           /\ Append(<<>>, x) = <<x>> /\ Append(<<x>>, y) = <<x, y>>
<1>1. <<x, y>> # <<>> /\ <<y>> # <<>> /\ Head(<<y>>) = y /\ Head(<<x, y>>) = x  OBVIOUS
<1>2. Tail(<<y>>) = <<>>  OBVIOUS
<1>3. Tail(<<x, y>>) = <<y>>  OBVIOUS
<1>4. Append(<<>>, x) = <<x>>  OBVIOUS
<1>5. Append(<<x>>, y) = <<x, y>>
  <2> DEFINE c == Append(<<x>>, y)
             d == <<x, y>>
  <2>1. c \in Seq(V) /\ Len(c) = 2 /\ c[1] = x /\ c[2] = y  OBVIOUS
  <2>2. d \in Seq(V) /\ Len(d) = 2 /\ d[1] = x /\ d[2] = y  OBVIOUS
  <2> HIDE DEF c, d
  <2>3. Len(c) = Len(d) /\ \A i \in 1..Len(c) : c[i] = d[i]  BY <2>1, <2>2
  <2>4. c = d  BY <2>1, <2>2, <2>3, SeqEqual
  <2> QED BY <2>4 DEF c, d
<1> QED BY <1>1, <1>2, <1>3, <1>4, <1>5

\* A place with two is emptied into one with none; a place with none gets two.
MovedBoth(P, Q, d, c, x, y) ==
    /\ P[d] = <<x, y>> /\ P[c] = <<>> /\ Q[d] = <<>> /\ Q[c] = <<x, y>>
    /\ \A a \in DOMAIN P \ {d, c} : Q[a] = P[a]
GainedBoth(P, Q, a, x, y) ==
    /\ P[a] = <<>> /\ Q[a] = <<x, y>> /\ x # y
    /\ \A c \in DOMAIN P \ {a} : Q[c] = P[c]

\* when two new things are put in one place,
LEMMA PlacedBoth ==
    ASSUME NEW N, NEW V, NEW P \in [N -> Seq(V)], NEW Q \in [N -> Seq(V)], NEW L,
           NEW d \in N, NEW c \in N, d # c, NEW x \in V, NEW y \in V,
           MovedBoth(P, Q, d, c, x, y), Placed(P, L)
    PROVE  Placed(Q, L)
<1>0. /\ P[d] = <<x, y>> /\ P[c] = <<>> /\ Q[d] = <<>> /\ Q[c] = <<x, y>>
      /\ \A a \in N \ {d, c} : Q[a] = P[a]
  BY DEF MovedBoth
<1> DEFINE R == [P EXCEPT ![d] = <<y>>, ![c] = <<x>>]
<1>1. <<x>> \in Seq(V) /\ <<y>> \in Seq(V)  OBVIOUS
<1>2. R \in [N -> Seq(V)]  BY <1>1
<1>3. R[d] = <<y>> /\ R[c] = <<x>> /\ \A a \in N \ {d, c} : R[a] = P[a]  OBVIOUS
<1>4. DOMAIN R = N /\ DOMAIN P = N  OBVIOUS
<1> HIDE DEF R
<1>5. <<x, y>> # <<>> /\ Tail(<<x, y>>) = <<y>> /\ Head(<<x, y>>) = x /\ Append(<<>>, x) = <<x>>
  BY TwoItems
<1>6. <<y>> # <<>> /\ Tail(<<y>>) = <<>> /\ Head(<<y>>) = y /\ Append(<<x>>, y) = <<x, y>>
  BY TwoItems
<1>7. Moved(P, R, d, c)  BY <1>0, <1>3, <1>4, <1>5 DEF Moved
<1>8. Moved(R, Q, d, c)  BY <1>0, <1>3, <1>4, <1>6 DEF Moved
<1>9. Placed(R, L)  BY <1>2, <1>7, PlacedMoved
<1> QED BY <1>2, <1>8, <1>9, PlacedMoved

\* and when they are put in two.
LEMMA PlacedPair ==
    ASSUME NEW N, NEW V, NEW P \in [N -> Seq(V)], NEW Q \in [N -> Seq(V)], NEW L,
           NEW a \in N, NEW x \in V, NEW y \in V, x \notin L, y \notin L,
           GainedBoth(P, Q, a, x, y), Placed(P, L)
    PROVE  Placed(Q, L \cup {x, y})
<1>0. P[a] = <<>> /\ Q[a] = <<x, y>> /\ x # y /\ \A c \in N \ {a} : Q[c] = P[c]
  BY DEF GainedBoth
<1> DEFINE R == [P EXCEPT ![a] = <<x>>]
<1>1. <<x>> \in Seq(V)  OBVIOUS
<1>2. R \in [N -> Seq(V)]  BY <1>1
<1>3. R[a] = <<x>> /\ (\A c \in N \ {a} : R[c] = P[c]) /\ DOMAIN R = N /\ DOMAIN P = N
  OBVIOUS
<1> HIDE DEF R
<1>4. Append(<<>>, x) = <<x>> /\ Append(<<x>>, y) = <<x, y>>  BY TwoItems
<1>5. Gained(P, R, a, x) /\ Gained(R, Q, a, y)  BY <1>0, <1>3, <1>4 DEF Gained
<1>6. Placed(R, L \cup {x})  BY <1>0, <1>2, <1>5, PlacedGained
<1>7. Placed(Q, (L \cup {x}) \cup {y})  BY <1>0, <1>2, <1>5, <1>6, PlacedGained
<1>8. (L \cup {x}) \cup {y} = L \cup {x, y}  OBVIOUS
<1> QED BY <1>7, <1>8

LeasePlaces == Threads \cup {"captured", "videoQueue", "dispatched"}

\* The places are apart, each has leases, and what lies where.
LEMMA LeaseAtIs ==
    /\ "captured" \notin Threads /\ "videoQueue" \notin Threads /\ "dispatched" \notin Threads
    /\ QueueType /\ WorkType =>
           /\ LeaseAt["captured"] = queue["captured"].items
           /\ LeaseAt["videoQueue"] = queue["video"].items
           /\ LeaseAt["dispatched"] = DispatchedLeases
           /\ \A t \in Threads : LeaseAt[t] = disposing[t]
    /\ (QueueType /\ WorkType)' =>
           /\ LeaseAt'["captured"] = queue'["captured"].items
           /\ LeaseAt'["videoQueue"] = queue'["video"].items
           /\ LeaseAt'["dispatched"] = DispatchedLeases'
           /\ \A t \in Threads : LeaseAt'[t] = disposing'[t]
<1>1. "captured" \notin Threads /\ "videoQueue" \notin Threads /\ "dispatched" \notin Threads
  BY PipelineThreads DEF Workers
<1> QED BY <1>1 DEF LeaseAt

\* What is being dispatched is a list of leases,
LEMMA DispatchedTypes ==
    /\ WorkType => DispatchedLeases \in Seq(Leases)
    /\ WorkType' => DispatchedLeases' \in Seq(Leases)
<1> DEFINE i(d) == Lease(d[1], "inference")
           v(d) == Lease(d[1], "video")
<1>1. ASSUME NEW d \in Seq(Requests), d # <<>>
      PROVE  i(d) \in Leases /\ v(d) \in Leases
  <2>1. d[1] \in Requests  BY <1>1
  <2> QED BY <2>1, LeaseTypes
<1> HIDE DEF i, v
<1>2. \A a, b \in Seq(Leases) : a \o b \in Seq(Leases)  OBVIOUS
<1>3. <<>> \in Seq(Leases) /\ \A l \in Leases : <<l>> \in Seq(Leases)  OBVIOUS
<1>4. ASSUME WorkType, dispatch # <<>> PROVE DispatchedLeases \in Seq(Leases)
  <2>1. i(dispatch) \in Leases /\ v(dispatch) \in Leases  BY <1>1, <1>4 DEF WorkType
  <2> DEFINE a == IF At("capture", "push_captured") THEN <<i(dispatch)>> ELSE <<>>
             b == IF EnableVideo THEN <<v(dispatch)>> ELSE <<>>
  <2>2. a \in Seq(Leases) /\ b \in Seq(Leases)  BY <1>3, <2>1
  <2>3. DispatchedLeases = a \o b  BY <1>4 DEF DispatchedLeases, i, v
  <2> HIDE DEF a, b
  <2> QED BY <1>2, <2>2, <2>3
<1>5. ASSUME WorkType', dispatch' # <<>> PROVE DispatchedLeases' \in Seq(Leases)
  <2>1. i(dispatch') \in Leases /\ v(dispatch') \in Leases  BY <1>1, <1>5 DEF WorkType
  <2> DEFINE a == IF At("capture", "push_captured")' THEN <<i(dispatch')>> ELSE <<>>
             b == IF EnableVideo THEN <<v(dispatch')>> ELSE <<>>
  <2>2. a \in Seq(Leases) /\ b \in Seq(Leases)  BY <1>3, <2>1
  <2>3. DispatchedLeases' = a \o b  BY <1>5 DEF DispatchedLeases, i, v
  <2> HIDE DEF a, b
  <2> QED BY <1>2, <2>2, <2>3
<1>6. /\ dispatch = <<>> => DispatchedLeases \in Seq(Leases)
      /\ dispatch' = <<>> => DispatchedLeases' \in Seq(Leases)
  BY <1>3 DEF DispatchedLeases
<1> QED BY <1>4, <1>5, <1>6

\* and so is what lies in every place.
LEMMA LeaseAtTypes ==
    /\ QueueType /\ WorkType => LeaseAt \in [LeasePlaces -> Seq(Leases)]
    /\ (QueueType /\ WorkType)' => LeaseAt' \in [LeasePlaces -> Seq(Leases)]
<1>0. "captured" \in Queues /\ "video" \in Queues  BY DEF Queues
<1>1. ASSUME QueueType, WorkType PROVE LeaseAt \in [LeasePlaces -> Seq(Leases)]
  <2>1. queue["captured"].items \in Seq(Leases) /\ queue["video"].items \in Seq(Leases)
    BY <1>0, <1>1, QueueItems DEF QueueType
  <2>2. DispatchedLeases \in Seq(Leases) /\ \A t \in Threads : disposing[t] \in Seq(Leases)
    BY <1>1, DispatchedTypes DEF WorkType
  <2> QED BY <2>1, <2>2 DEF LeaseAt, LeasePlaces
<1>2. ASSUME (QueueType /\ WorkType)' PROVE LeaseAt' \in [LeasePlaces -> Seq(Leases)]
  <2>1. queue'["captured"].items \in Seq(Leases) /\ queue'["video"].items \in Seq(Leases)
    BY <1>0, <1>2, QueueItems DEF QueueType
  <2>2. DispatchedLeases' \in Seq(Leases) /\ \A t \in Threads : disposing'[t] \in Seq(Leases)
    BY <1>2, DispatchedTypes DEF WorkType
  <2> QED BY <2>1, <2>2 DEF LeaseAt, LeasePlaces
<1> QED BY <1>1, <1>2

\* The two ways to say that every lease has one place.
LEMMA LeasesPlacedIs ==
    /\ LeasesPlaced <=> Placed(LeaseAt, live)
    /\ LeasesPlaced' <=> Placed(LeaseAt', live')
<1>1. ASSUME NEW P, NEW L
      PROVE  Placed(P, L) <=> /\ Single(P)
                              /\ \A p \in DOMAIN P : \A i \in DOMAIN P[p] : P[p][i] \in L
                              /\ \A l \in L : Lies(P, l)
  BY DEF Placed, Lies
<1>2. LeasesPlaced <=> Placed(LeaseAt, live)  BY <1>1 DEF LeasesPlaced
<1>3. LeasesPlaced' <=> Placed(LeaseAt', live')  BY <1>1 DEF LeasesPlaced
<1> QED BY <1>2, <1>3

\* No lease moves.
SameLeases ==
    /\ live' = live /\ disposing' = disposing
    /\ queue'["captured"].items = queue["captured"].items
    /\ queue'["video"].items = queue["video"].items
LeaseTypesOK == QueueType /\ WorkType /\ QueueType' /\ WorkType'

\* Leases that do not move stay placed.
LEMMA LeasesStay ==
    ASSUME LeaseTypesOK, LeasesPlaced, SameLeases, DispatchedLeases' = DispatchedLeases
    PROVE  LeasesPlaced'
<1>1. \A p \in LeasePlaces : LeaseAt'[p] = LeaseAt[p]
  BY LeaseAtIs DEF LeaseTypesOK, SameLeases, LeasePlaces
<1>2. LeaseAt \in [LeasePlaces -> Seq(Leases)] /\ LeaseAt' \in [LeasePlaces -> Seq(Leases)]
  BY LeaseAtTypes DEF LeaseTypesOK
<1>3. LeaseAt' = LeaseAt  BY <1>1, <1>2
<1>4. live' = live  BY DEF SameLeases
<1> QED BY <1>3, <1>4, LeasesPlacedIs

\* The first of the leases in hand is released.
LEMMA LeaseReleased ==
    ASSUME LeaseTypesOK, LeasesPlaced, NEW t \in Threads, disposing[t] # <<>>,
           disposing' = [disposing EXCEPT ![t] = Tail(disposing[t])],
           live' = live \ {Head(disposing[t])}, queue' = queue,
           DispatchedLeases' = DispatchedLeases
    PROVE  LeasesPlaced'
<1>0. LeaseAt \in [LeasePlaces -> Seq(Leases)] /\ LeaseAt' \in [LeasePlaces -> Seq(Leases)]
      /\ t \in LeasePlaces
  BY LeaseAtTypes DEF LeaseTypesOK, LeasePlaces
<1>1. disposing'[t] = Tail(disposing[t]) /\ \A u \in Threads \ {t} : disposing'[u] = disposing[u]
  BY DEF LeaseTypesOK, WorkType
<1>2. \A p \in LeasePlaces \ {t} : LeaseAt'[p] = LeaseAt[p]
  BY <1>1, LeaseAtIs DEF LeaseTypesOK, LeasePlaces
<1>3. LeaseAt[t] = disposing[t] /\ LeaseAt'[t] = disposing'[t]
  BY LeaseAtIs DEF LeaseTypesOK
<1>4. Dropped(LeaseAt, LeaseAt', t)
  <2>1. DOMAIN LeaseAt = LeasePlaces  BY <1>0
  <2> QED BY <1>1, <1>2, <1>3, <2>1 DEF Dropped
<1>5. Placed(LeaseAt, live)  BY LeasesPlacedIs
<1>6. Placed(LeaseAt', live \ {Head(LeaseAt[t])})  BY <1>0, <1>4, <1>5, PlacedDropped
<1> QED BY <1>3, <1>6, LeasesPlacedIs

\* The oldest lease of a queue is taken in hand.
LEMMA LeaseTaken ==
    ASSUME LeaseTypesOK, LeasesPlaced, NEW t \in Threads, NEW q \in {"captured", "video"},
           CanPop(q), Pop(q), disposing[t] = <<>>,
           disposing' = [disposing EXCEPT ![t] = <<Front(q)>>],
           live' = live, DispatchedLeases' = DispatchedLeases
    PROVE  LeasesPlaced'
<1> DEFINE p == IF q = "captured" THEN "captured" ELSE "videoQueue"
<1>0. /\ LeaseAt \in [LeasePlaces -> Seq(Leases)] /\ LeaseAt' \in [LeasePlaces -> Seq(Leases)]
      /\ t \in LeasePlaces /\ p \in LeasePlaces /\ p # t
  BY LeaseAtTypes, LeaseAtIs DEF LeaseTypesOK, LeasePlaces
<1>1. disposing'[t] = <<Front(q)>> /\ \A u \in Threads \ {t} : disposing'[u] = disposing[u]
  BY DEF LeaseTypesOK, WorkType
<1>2. /\ queue'[q].items = Tail(queue[q].items)
      /\ \A r \in {"captured", "video"} \ {q} : queue'[r] = queue[r]
      /\ Front(q) \in Leases
  <2>1. q \in Queues /\ ItemsOf[q] = Leases /\ {"captured", "video"} \subseteq Queues
    BY QueueItems
  <2> QED BY <2>1, PopEffect DEF LeaseTypesOK, OnlyItems
<1>3. LeaseAt[t] = <<>> /\ LeaseAt'[t] = <<Front(q)>>
  BY <1>1, LeaseAtIs DEF LeaseTypesOK
<1>4. LeaseAt[p] = queue[q].items /\ LeaseAt'[p] = Tail(queue[q].items)
  BY <1>2, LeaseAtIs DEF LeaseTypesOK
<1>5. \A c \in LeasePlaces \ {p, t} : LeaseAt'[c] = LeaseAt[c]
  BY <1>1, <1>2, LeaseAtIs DEF LeaseTypesOK, LeasePlaces
<1>6. <<Front(q)>> = Append(<<>>, Front(q))  BY <1>2, TwoItems
<1> HIDE DEF p
<1>7. Moved(LeaseAt, LeaseAt', p, t)
  <2>1. DOMAIN LeaseAt = LeasePlaces  BY <1>0
  <2>2. LeaseAt[p] # <<>> /\ Head(LeaseAt[p]) = Front(q)  BY <1>4 DEF CanPop, Front
  <2> QED BY <1>3, <1>4, <1>5, <1>6, <2>1, <2>2 DEF Moved
<1>8. Placed(LeaseAt, live)  BY LeasesPlacedIs
<1>9. Placed(LeaseAt', live)  BY <1>0, <1>7, <1>8, PlacedMoved
<1> QED BY <1>9, LeasesPlacedIs

\* A call releases the first lease in hand, or touches none.
LEMMA CallLeases ==
    ASSUME PcType, LeaseTypesOK, LeasesPlaced, NEW t \in Threads, Releases(t), CallStep(t),
           DispatchedLeases' = DispatchedLeases
    PROVE  LeasesPlaced'
<1>1. CASE Dispose(t)
  <2>1. pc[t] # <<>> /\ Head(pc[t]) = "dispose"  BY <1>1 DEF Dispose, At
  <2>2. disposing[t] # <<>>  BY <2>1, ReleaseHead DEF ReleaseSteps
  <2>3. disposing' = [disposing EXCEPT ![t] = Tail(disposing[t])]  BY <1>1 DEF Dispose
  <2>4. live' = live \ {Head(disposing[t])} /\ queue' = queue
    BY <1>1 DEF Dispose, Release
  <2> QED BY <2>2, <2>3, <2>4, LeaseReleased
<1>2. CASE ~Dispose(t)
  <2>0. "captured" \in Queues /\ "video" \in Queues /\ "freeIn" \in Queues /\ "freeOut" \in Queues
    BY DEF Queues
  <2>1. disposing' = disposing
    BY <1>2 DEF CallStep, SetFatal, SetStop, SetVideoFailed, CloseBroker, RequestCameraStop,
       StopQueue, NotifyCapture, ReturnInput, ReturnOutput, work, pipelineVars
  <2>2. live' = live
    BY <1>2 DEF CallStep, SetFatal, SetStop, SetVideoFailed, CloseBroker, RequestCameraStop,
       StopQueue, NotifyCapture, ReturnInput, ReturnOutput, brokerVars, leaseVars, Close,
       RequestStop, Wake, Notify
  <2>3. \/ queue' = queue
        \/ \E q \in Queues : queue' = [queue EXCEPT ![q].stopped = TRUE]
        \/ TryPush("freeIn", job[t].in) \/ TryPush("freeOut", job[t].out)
    BY <1>2 DEF CallStep, SetFatal, SetStop, SetVideoFailed, CloseBroker, RequestCameraStop,
       StopQueue, NotifyCapture, ReturnInput, ReturnOutput, pipelineVars
  <2>4. /\ queue'["captured"].items = queue["captured"].items
        /\ queue'["video"].items = queue["video"].items
    BY <2>0, <2>3, QueuesApart DEF LeaseTypesOK
  <2>5. SameLeases  BY <2>1, <2>2, <2>4 DEF SameLeases
  <2> QED BY <2>5, LeasesStay
<1> QED BY <1>1, <1>2

\* Draining a queue moves its leases to those the thread releases.
LEMMA DrainLeasesMove ==
    ASSUME PcType, LeaseTypesOK, LeasesPlaced, NEW t \in Threads,
           NEW q \in {"captured", "video"}, Releases(t), DrainLeases(t, q),
           DispatchedLeases' = DispatchedLeases
    PROVE  LeasesPlaced'
<1>0. live' = live  BY DEF DrainLeases, brokerVars, leaseVars
<1>1. pc[t] # <<>> /\ Head(pc[t]) \notin ReleaseSteps
  BY DEF DrainLeases, At, DrainStep, ReleaseSteps
<1>2. CASE CanPop(q)
  <2>1. disposing[t] = <<>>  BY <1>1, ReleaseHead
  <2>2. Pop(q) /\ disposing' = [disposing EXCEPT ![t] = <<Front(q)>>]
    BY <1>2 DEF DrainLeases
  <2> QED BY <1>0, <1>2, <2>1, <2>2, LeaseTaken
<1>3. CASE ~CanPop(q)
  <2>1. SameLeases  BY <1>0, <1>3 DEF DrainLeases, SameLeases
  <2> QED BY <2>1, LeasesStay
<1> QED BY <1>2, <1>3

\* The preprocess stage keeps leases placed.
LEMMA PreprocessLeases ==
    ASSUME PcType, LeaseTypesOK, LeasesPlaced, Releases("preprocess"), PreprocessLoop,
           DispatchedLeases' = DispatchedLeases
    PROVE  LeasesPlaced'
<1>0. /\ "preprocess" \in Threads /\ "captured" \in Queues /\ "video" \in Queues
      /\ "freeIn" \in Queues /\ "prepared" \in Queues
  BY MainAndWorkers DEF Queues
<1>1. CASE TakeInputSlot \/ NoMoreFrames \/ PushPrepared
  <2>1. live' = live /\ disposing' = disposing
    BY <1>1 DEF TakeInputSlot, NoMoreFrames, PushPrepared, work, brokerVars, leaseVars
  <2>2. queue' = queue \/ Pop("freeIn") \/ TryPush("prepared", job["preprocess"])
    BY <1>1 DEF TakeInputSlot, NoMoreFrames, PushPrepared
  <2>3. /\ queue'["captured"].items = queue["captured"].items
        /\ queue'["video"].items = queue["video"].items
    BY <1>0, <2>2, QueuesApart DEF LeaseTypesOK
  <2>4. SameLeases  BY <2>1, <2>3 DEF SameLeases
  <2> QED BY <2>4, LeasesStay
<1>2. CASE TakeFrame
  <2>1. pc["preprocess"] # <<>> /\ Head(pc["preprocess"]) \notin ReleaseSteps
    BY <1>2 DEF TakeFrame, At, ReleaseSteps
  <2>2. disposing["preprocess"] = <<>>  BY <1>0, <2>1, ReleaseHead
  <2>3. /\ CanPop("captured") /\ Pop("captured") /\ live' = live
        /\ disposing' = [disposing EXCEPT !["preprocess"] = <<Front("captured")>>]
    BY <1>2 DEF TakeFrame, brokerVars, leaseVars
  <2> QED BY <1>0, <2>2, <2>3, LeaseTaken
<1>3. CASE Preprocess
  <2>1. pc["preprocess"] # <<>> /\ Head(pc["preprocess"]) = "process"
    BY <1>3 DEF Preprocess, At
  <2>2. Len(disposing["preprocess"]) = 1 /\ disposing["preprocess"] # <<>>
    BY <1>0, <2>1, ReleaseHead DEF ReleaseSteps
  <2>3. disposing["preprocess"] \in Seq(Leases)  BY <1>0 DEF LeaseTypesOK, WorkType
  <2>4. Tail(disposing["preprocess"]) = <<>>  BY <2>2, <2>3, TailLeft
  <2>5. disposing["preprocess"][1] = Head(disposing["preprocess"])  BY <2>2, <2>3
  <2>6. /\ live' = live \ {Head(disposing["preprocess"])} /\ queue' = queue
        /\ disposing' = [disposing EXCEPT !["preprocess"] = Tail(disposing["preprocess"])]
    BY <1>3, <2>4, <2>5 DEF Preprocess, Release
  <2> QED BY <1>0, <2>2, <2>6, LeaseReleased
<1>4. CASE DrainLeases("preprocess", "captured")  BY <1>0, <1>4, DrainLeasesMove
<1> QED BY <1>1, <1>2, <1>3, <1>4 DEF PreprocessLoop

\* The stages that have no lease keep them placed.
LEMMA StageLeases ==
    ASSUME LeaseTypesOK, LeasesPlaced, NEW t \in {"npu", "postprocess"},
           NpuLoop \/ TakeCompleted \/ PostprocessStep(t) \/ EncodedPacketLoop,
           DispatchedLeases' = DispatchedLeases
    PROVE  LeasesPlaced'
<1>0. /\ "captured" \in Queues /\ "video" \in Queues /\ "freeIn" \in Queues
      /\ "prepared" \in Queues /\ "freeOut" \in Queues /\ "completed" \in Queues
      /\ "encoded" \in Queues
  BY DEF Queues
<1>1. live' = live
  BY DEF NpuLoop, TakePrepared, TakeOutputSlot, Run, PushCompleted, TakeCompleted,
     PostprocessStep, Postprocess, PublishResult, EncodedPacketLoop, TakePacket, WritePacket,
     brokerVars, leaseVars
<1>2. disposing' = disposing
  BY DEF NpuLoop, TakePrepared, TakeOutputSlot, Run, PushCompleted, TakeCompleted,
     PostprocessStep, Postprocess, PublishResult, EncodedPacketLoop, TakePacket, WritePacket
<1>3. \/ queue' = queue \/ Pop("prepared") \/ Pop("freeOut") \/ Pop("completed")
      \/ Pop("encoded")
      \/ TryPush("freeIn", job["npu"].in) \/ TryPush("completed", job["npu"])
      \/ TryPush("freeOut", job[t].out)
  BY DEF NpuLoop, TakePrepared, TakeOutputSlot, Run, PushCompleted, TakeCompleted,
     PostprocessStep, Postprocess, PublishResult, EncodedPacketLoop, TakePacket, WritePacket
<1>4. /\ queue'["captured"].items = queue["captured"].items
      /\ queue'["video"].items = queue["video"].items
  BY <1>0, <1>3, QueuesApart DEF LeaseTypesOK
<1>5. SameLeases  BY <1>1, <1>2, <1>4 DEF SameLeases
<1> QED BY <1>5, LeasesStay

\* The video branch keeps leases placed.
LEMMA VideoLeases ==
    ASSUME PcType, LeaseTypesOK, LeasesPlaced, Releases("video"), VideoLoop,
           DispatchedLeases' = DispatchedLeases
    PROVE  LeasesPlaced'
<1>0. /\ "video" \in Threads /\ "captured" \in Queues /\ "video" \in Queues
      /\ "encoded" \in Queues
  BY MainAndWorkers DEF Queues
<1>1. CASE TakeVideoFrame
  <2>0. live' = live  BY <1>1 DEF TakeVideoFrame, brokerVars, leaseVars
  <2>1. CASE queue' = queue /\ disposing' = disposing
    <3>1. SameLeases  BY <2>0, <2>1 DEF SameLeases
    <3> QED BY <3>1, LeasesStay
  <2>2. CASE /\ CanPop("video") /\ Pop("video")
             /\ disposing' = [disposing EXCEPT !["video"] = <<Front("video")>>]
    <3>1. pc["video"] # <<>> /\ Head(pc["video"]) \notin ReleaseSteps
      BY <1>1 DEF TakeVideoFrame, At, ReleaseSteps
    <3>2. disposing["video"] = <<>>  BY <1>0, <3>1, ReleaseHead
    <3> QED BY <1>0, <2>0, <2>2, <3>2, LeaseTaken
  <2> QED BY <1>1, <2>1, <2>2 DEF TakeVideoFrame
<1>2. CASE Encode
  <2>1. pc["video"] # <<>> /\ Head(pc["video"]) = "encode"  BY <1>2 DEF Encode, At
  <2>2. Len(disposing["video"]) = 1 /\ disposing["video"] # <<>>
    BY <1>0, <2>1, ReleaseHead DEF ReleaseSteps
  <2>3. disposing["video"] \in Seq(Leases)  BY <1>0 DEF LeaseTypesOK, WorkType
  <2>4. Tail(disposing["video"]) = <<>>  BY <2>2, <2>3, TailLeft
  <2>5. disposing["video"][1] = Head(disposing["video"])  BY <2>2, <2>3
  <2>6. /\ live' = live \ {Head(disposing["video"])} /\ queue' = queue
        /\ disposing' = [disposing EXCEPT !["video"] = Tail(disposing["video"])]
    BY <1>2, <2>4, <2>5 DEF Encode, Release
  <2> QED BY <1>0, <2>2, <2>6, LeaseReleased
<1>3. CASE PushEncoded
  <2>1. /\ live' = live /\ disposing' = disposing
        /\ TryPush("encoded", job["video"].frame)
    BY <1>3 DEF PushEncoded, brokerVars, leaseVars
  <2>2. /\ queue'["captured"].items = queue["captured"].items
        /\ queue'["video"].items = queue["video"].items
    BY <1>0, <2>1, QueuesApart DEF LeaseTypesOK
  <2>3. SameLeases  BY <2>1, <2>2 DEF SameLeases
  <2> QED BY <2>3, LeasesStay
<1>4. CASE DrainLeases("video", "video")  BY <1>0, <1>4, DrainLeasesMove
<1> QED BY <1>1, <1>2, <1>3, <1>4 DEF VideoLoop

\* The supervising thread keeps leases placed.
LEMMA SuperviseLeases ==
    ASSUME LeaseTypesOK, LeasesPlaced, Supervise, DispatchedLeases' = DispatchedLeases
    PROVE  LeasesPlaced'
<1>1. CASE StartCamera
  <2>1. live' = live  BY <1>1 DEF StartCamera, CameraStart, CameraStartFails, leaseVars
  <2>2. disposing' = disposing  BY <1>1 DEF StartCamera, work
  <2>3. queue'["captured"] = queue["captured"] /\ queue'["video"] = queue["video"]
    <3>1. StartQueues /\ {"captured", "video"} \subseteq Queues \ {"freeIn", "freeOut", "encoded"}
      BY <1>1 DEF StartCamera, Queues
    <3> QED BY <3>1, StartEffect DEF LeaseTypesOK
  <2>4. SameLeases  BY <2>1, <2>2, <2>3 DEF SameLeases
  <2> QED BY <2>4, LeasesStay
<1>2. CASE Spawns \/ Join \/ StopCamera
  <2>1. SameLeases
    BY <1>2 DEF Spawns, Spawn, Join, StopCamera, CameraStop, SameLeases, brokerVars, leaseVars,
       work
  <2> QED BY <2>1, LeasesStay
<1> QED BY <1>1, <1>2 DEF Supervise, Spawns

\* The capture loop hands leases on where it dispatches, and nowhere else.
LEMMA CaptureLeases ==
    ASSUME LeaseTypesOK, LeasesPlaced, CaptureLoop,
           ~(PublishFrame \/ PushCaptured \/ PushVideo),
           DispatchedLeases' = DispatchedLeases
    PROVE  LeasesPlaced'
<1>1. CASE \/ CaptureCheck \/ CaptureStopped \/ PollWake \/ PollTimeout \/ PollThrows
           \/ (\E b \in Buffers : PollFrame(b))
           \/ (\E b \in Buffers, ok \in BOOLEAN : PollDropped(b, ok))
  <2>1. live' = live
    BY <1>1 DEF CaptureCheck, CaptureStopped, PollWake, PollTimeout, PollThrows, PollFrame,
       PollDropped, brokerVars, leaseVars, CaptureWake, CaptureFrame, CaptureDropped
  <2>2. disposing' = disposing /\ queue' = queue
    BY <1>1 DEF CaptureCheck, CaptureStopped, PollWake, PollTimeout, PollThrows, PollFrame,
       PollDropped, work
  <2>3. SameLeases  BY <2>1, <2>2 DEF SameLeases
  <2> QED BY <2>3, LeasesStay
<1>2. CASE PublishRefused \/ RequeueDirect \/ AfterDirect
  <2>1. live' = live
    BY <1>2 DEF PublishRefused, RequeueDirect, AfterDirect, brokerVars, leaseVars,
       PublishRejected, RequeueDone, RequeueFails
  <2>2. disposing' = disposing /\ queue' = queue
    BY <1>2 DEF PublishRefused, RequeueDirect, AfterDirect, work
  <2>3. SameLeases  BY <2>1, <2>2 DEF SameLeases
  <2> QED BY <2>3, LeasesStay
<1>3. CASE DrainPop \/ DrainRequeued \/ DrainRequeueFailed \/ DrainEmpty
  <2>1. live' = live
    BY <1>3 DEF DrainPop, DrainRequeued, DrainRequeueFailed, DrainEmpty, brokerVars, leaseVars,
       PopRequeue, RequeueDone, RequeueFails
  <2>2. disposing' = disposing /\ queue' = queue
    BY <1>3 DEF DrainPop, DrainRequeued, DrainRequeueFailed, DrainEmpty, pipelineVars, work
  <2>3. SameLeases  BY <2>1, <2>2 DEF SameLeases
  <2> QED BY <2>3, LeasesStay
<1> QED BY <1>1, <1>2, <1>3 DEF CaptureLoop

\* A frame that is published has leases that were not there before.
LEMMA FreshLeases ==
    ASSUME BrokerInv, NEW r \in hand, ~slot[r.buf].occupied,
           NEW C \in {{"inference"}, {"inference", "video"}},
           live' = live \cup [buf : {r.buf}, key : {r.key}, consumer : C]
    PROVE  /\ r \in Requests
           /\ Lease(r, "inference") \notin live /\ Lease(r, "video") \notin live
           /\ Lease(r, "inference") # Lease(r, "video")
           /\ C = {"inference"} => live' = live \cup {Lease(r, "inference")}
           /\ C = {"inference", "video"} =>
                  live' = live \cup {Lease(r, "inference"), Lease(r, "video")}
<1>1. r \in Requests  BY DEF BrokerInv, BrokerTypeOK
<1>2. ASSUME NEW c PROVE Lease(r, c) \notin live
  <2>1. ASSUME Lease(r, c) \in live PROVE FALSE
    <3>1. slot[Lease(r, c).buf].occupied  BY <2>1, LiveLease
    <3> QED BY <3>1 DEF Lease
  <2> QED BY <2>1
<1>3. Lease(r, "inference").consumer # Lease(r, "video").consumer  BY DEF Lease
<1> DEFINE Cross(D) == [buf : {r.buf}, key : {r.key}, consumer : D]
<1>4. \A D, x : x \in Cross(D) <=> \E c \in D : x = Lease(r, c)
  <2> SUFFICES ASSUME NEW D, NEW x PROVE x \in Cross(D) <=> \E c \in D : x = Lease(r, c)
    OBVIOUS
  <2>1. ASSUME x \in Cross(D) PROVE \E c \in D : x = Lease(r, c)
    <3>1. /\ x = [buf |-> x.buf, key |-> x.key, consumer |-> x.consumer]
          /\ x.buf = r.buf /\ x.key = r.key /\ x.consumer \in D
      BY <2>1
    <3>2. x = Lease(r, x.consumer)  BY <3>1 DEF Lease
    <3> QED BY <3>1, <3>2
  <2>2. ASSUME NEW c \in D, x = Lease(r, c) PROVE x \in Cross(D)  BY <2>2 DEF Lease
  <2> QED BY <2>1, <2>2
<1> HIDE DEF Cross
<1>5. Cross({"inference"}) = {Lease(r, "inference")}  BY <1>4
<1>6. Cross({"inference", "video"}) = {Lease(r, "inference"), Lease(r, "video")}
  BY <1>4
<1> QED BY <1>1, <1>2, <1>3, <1>5, <1>6 DEF Cross

\* Publishing a frame places its leases with what is being dispatched.
LEMMA PublishLeases ==
    ASSUME BrokerInv, PcType, LeaseTypesOK, LeasesPlaced, PublishFrame, Dispatching,
           Dispatching', dispatch = <<>>
    PROVE  LeasesPlaced'
<1>0. "capture" \in Threads  BY MainAndWorkers
<1> DEFINE C == {"inference"} \cup IF EnableVideo THEN {"video"} ELSE {}
<1>1. PICK r \in hand : PublishAccepted(r, C) /\ dispatch' = <<r>>  BY DEF PublishFrame
<1>2. C = IF EnableVideo THEN {"inference", "video"} ELSE {"inference"}  OBVIOUS
<1> HIDE DEF C
<1>3. C \in {{"inference"}, {"inference", "video"}}  BY <1>2
<1>4. ~slot[r.buf].occupied /\ live' = live \cup [buf : {r.buf}, key : {r.key}, consumer : C]
  BY <1>1 DEF PublishAccepted
<1> DEFINE i == Lease(r, "inference")
           v == Lease(r, "video")
<1>5. /\ r \in Requests /\ i \notin live /\ v \notin live /\ i # v
      /\ live' = IF EnableVideo THEN live \cup {i, v} ELSE live \cup {i}
  <2>1. /\ r \in Requests /\ i \notin live /\ v \notin live /\ i # v
        /\ C = {"inference"} => live' = live \cup {i}
        /\ C = {"inference", "video"} => live' = live \cup {i, v}
    BY <1>3, <1>4, FreshLeases
  <2> QED BY <1>2, <2>1
<1>6. i \in Leases /\ v \in Leases  BY <1>5, LeaseTypes
<1>7. pc'["capture"] = <<"push_captured">> /\ queue' = queue /\ disposing' = disposing
  BY <1>0 DEF PublishFrame, Loop, PcType
<1>8. DispatchedLeases' = IF EnableVideo THEN <<i, v>> ELSE <<i>>
  <2>1. dispatch' # <<>> /\ dispatch'[1] = r  BY <1>1
  <2>2. Dispatched' = IF EnableVideo THEN <<i, v>> ELSE <<i>>
    BY <1>7, <2>1 DEF Dispatched
  <2> QED BY <2>2, DispatchedAre
<1>9. DispatchedLeases = <<>>  BY DEF DispatchedLeases
<1>10. /\ LeaseAt \in [LeasePlaces -> Seq(Leases)] /\ LeaseAt' \in [LeasePlaces -> Seq(Leases)]
       /\ "dispatched" \in LeasePlaces
  BY LeaseAtTypes DEF LeaseTypesOK, LeasePlaces
<1>11. /\ LeaseAt["dispatched"] = <<>>
       /\ LeaseAt'["dispatched"] = IF EnableVideo THEN <<i, v>> ELSE <<i>>
       /\ \A p \in LeasePlaces \ {"dispatched"} : LeaseAt'[p] = LeaseAt[p]
  <2>1. \A p \in LeasePlaces \ {"dispatched"} : LeaseAt'[p] = LeaseAt[p]
    BY <1>7, LeaseAtIs DEF LeaseTypesOK, LeasePlaces
  <2>2. LeaseAt["dispatched"] = DispatchedLeases /\ LeaseAt'["dispatched"] = DispatchedLeases'
    BY LeaseAtIs DEF LeaseTypesOK
  <2> QED BY <1>8, <1>9, <2>1, <2>2
<1>12. Placed(LeaseAt, live)  BY LeasesPlacedIs
<1> HIDE DEF i, v
<1>13. CASE EnableVideo
  <2>1. LeaseAt'["dispatched"] = <<i, v>> /\ live' = live \cup {i, v}
    BY <1>5, <1>11, <1>13
  <2>2. GainedBoth(LeaseAt, LeaseAt', "dispatched", i, v)
    <3>1. DOMAIN LeaseAt = LeasePlaces  BY <1>10
    <3> QED BY <1>5, <1>11, <2>1, <3>1 DEF GainedBoth
  <2>3. Placed(LeaseAt', live \cup {i, v})
    BY <1>5, <1>6, <1>10, <1>12, <2>2, PlacedPair
  <2> QED BY <2>1, <2>3, LeasesPlacedIs
<1>14. CASE ~EnableVideo
  <2>1. LeaseAt'["dispatched"] = <<i>> /\ live' = live \cup {i}  BY <1>5, <1>11, <1>14
  <2>2. <<i>> = Append(<<>>, i)  BY <1>6, TwoItems
  <2>3. Gained(LeaseAt, LeaseAt', "dispatched", i)
    <3>1. DOMAIN LeaseAt = LeasePlaces  BY <1>10
    <3> QED BY <1>11, <2>1, <2>2, <3>1 DEF Gained
  <2>4. Placed(LeaseAt', live \cup {i})  BY <1>5, <1>6, <1>10, <1>12, <2>3, PlacedGained
  <2> QED BY <2>1, <2>4, LeasesPlacedIs
<1> QED BY <1>13, <1>14

\* A push of the dispatch: the lease goes to the queue, and what the queue does not keep is
\* taken in hand to be released.
LEMMA PushLeases ==
    ASSUME PcType, LeaseTypesOK, LeasesPlaced, NEW q \in {"captured", "video"},
           NEW own \in Leases, PushLatest(q, own), disposing["capture"] = <<>>,
           disposing' = [disposing EXCEPT !["capture"] = Evicted(q, own)],
           DispatchedLeases # <<>>, Head(DispatchedLeases) = own,
           DispatchedLeases' = Tail(DispatchedLeases), live' = live
    PROVE  LeasesPlaced'
<1> DEFINE p == IF q = "captured" THEN "captured" ELSE "videoQueue"
<1>0. /\ LeaseAt \in [LeasePlaces -> Seq(Leases)] /\ LeaseAt' \in [LeasePlaces -> Seq(Leases)]
      /\ "capture" \in Threads
      /\ p \in LeasePlaces /\ "dispatched" \in LeasePlaces /\ "capture" \in LeasePlaces
      /\ "dispatched" # p /\ "dispatched" # "capture" /\ p # "capture"
  BY LeaseAtTypes, MainAndWorkers DEF LeaseTypesOK, LeasePlaces
<1>1. /\ disposing'["capture"] = Evicted(q, own)
      /\ \A u \in Threads \ {"capture"} : disposing'[u] = disposing[u]
  BY <1>0 DEF LeaseTypesOK, WorkType
<1>2. /\ queue'[q].items =
            IF queue[q].stopped THEN queue[q].items
            ELSE Append(IF Full(q) THEN Tail(queue[q].items) ELSE queue[q].items, own)
      /\ \A r \in {"captured", "video"} \ {q} : queue'[r] = queue[r]
      /\ Full(q) => queue[q].items # <<>>
  <2>1. q \in Queues /\ ItemsOf[q] = Leases /\ {"captured", "video"} \subseteq Queues
    BY QueueItems
  <2>2. own \in ItemsOf[q]  BY <2>1
  <2> QED BY <2>1, <2>2, PushLatestEffect DEF LeaseTypesOK, OnlyItems
<1>3. LeaseAt["capture"] = <<>> /\ LeaseAt'["capture"] = Evicted(q, own)
  BY <1>0, <1>1, LeaseAtIs DEF LeaseTypesOK
<1>4. LeaseAt[p] = queue[q].items /\ LeaseAt'[p] = queue'[q].items
  BY LeaseAtIs DEF LeaseTypesOK
<1>5. /\ LeaseAt["dispatched"] # <<>> /\ Head(LeaseAt["dispatched"]) = own
      /\ LeaseAt'["dispatched"] = Tail(LeaseAt["dispatched"])
  BY LeaseAtIs DEF LeaseTypesOK
<1>6. \A c \in LeasePlaces \ {"dispatched", p, "capture"} : LeaseAt'[c] = LeaseAt[c]
  BY <1>1, <1>2, LeaseAtIs DEF LeaseTypesOK, LeasePlaces
<1> HIDE DEF p
<1>7. \/ LeaseAt'[p] = Append(LeaseAt[p], own) /\ LeaseAt'["capture"] = <<>>
      \/ /\ LeaseAt[p] # <<>> /\ LeaseAt'[p] = Append(Tail(LeaseAt[p]), own)
         /\ LeaseAt'["capture"] = <<Head(LeaseAt[p])>>
      \/ LeaseAt'[p] = LeaseAt[p] /\ LeaseAt'["capture"] = <<own>>
  <2>1. CASE queue[q].stopped  BY <1>2, <1>3, <1>4, <2>1 DEF Evicted
  <2>2. CASE ~queue[q].stopped /\ Full(q)  BY <1>2, <1>3, <1>4, <2>2 DEF Evicted, Front
  <2>3. CASE ~queue[q].stopped /\ ~Full(q)  BY <1>2, <1>3, <1>4, <2>3 DEF Evicted
  <2> QED BY <2>1, <2>2, <2>3
<1>8. Handed(LeaseAt, LeaseAt', "dispatched", p, "capture")
  <2>1. DOMAIN LeaseAt = LeasePlaces  BY <1>0
  <2> QED BY <1>3, <1>5, <1>6, <1>7, <2>1 DEF Handed
<1>9. Placed(LeaseAt, live)  BY LeasesPlacedIs
<1>10. Placed(LeaseAt', live)  BY <1>0, <1>8, <1>9, PlacedHanded
<1> QED BY <1>10, LeasesPlacedIs

\* What the capture thread holds at a push.
LEMMA PushHands ==
    ASSUME PcType, WorkType, Releases("capture"), PushCaptured \/ PushVideo,
           dispatch # <<>>
    PROVE  /\ disposing["capture"] = <<>> /\ live' = live
           /\ Lease(dispatch[1], "inference") \in Leases
           /\ Lease(dispatch[1], "video") \in Leases
<1>1. pc["capture"] # <<>> /\ Head(pc["capture"]) \notin ReleaseSteps
  BY DEF PushCaptured, PushVideo, At, ReleaseSteps
<1>2. disposing["capture"] = <<>>  BY <1>1, MainAndWorkers, ReleaseHead
<1>3. live' = live  BY DEF PushCaptured, PushVideo, brokerVars, leaseVars
<1>4. dispatch[1] \in Requests  BY DEF WorkType
<1> QED BY <1>2, <1>3, <1>4, LeaseTypes

\* Pushing the captured frame passes its lease on, and the oldest one to be released.
LEMMA PushCapturedLeases ==
    ASSUME PcType, LeaseTypesOK, LeasesPlaced, Releases("capture"), PushCaptured,
           Dispatching, Dispatching', dispatch # <<>>, pc["capture"] = <<"push_captured">>,
           dispatch' # <<>> => dispatch' = dispatch /\ pc'["capture"] # <<"push_captured">>
    PROVE  LeasesPlaced'
<1> DEFINE i == Lease(dispatch[1], "inference")
           v == Lease(dispatch[1], "video")
<1>0. WorkType /\ "capture" \in Threads  BY MainAndWorkers DEF LeaseTypesOK
<1>1. disposing["capture"] = <<>> /\ live' = live /\ i \in Leases /\ v \in Leases
  BY <1>0, PushHands
<1>2. DispatchedLeases = IF EnableVideo THEN <<i, v>> ELSE <<i>>
  <2>1. DispatchedLeases = Dispatched  BY DispatchedAre
  <2> QED BY <2>1 DEF Dispatched
<1>3. PushLatest("captured", i)  BY DEF PushCaptured
<1>4. CASE ~queue["captured"].stopped
  <2>1. disposing' = [disposing EXCEPT !["capture"] = Evicted("captured", i)]
    BY <1>4 DEF PushCaptured, Disposing
  <2>2. dispatch' = IF EnableVideo THEN dispatch ELSE <<>>  BY <1>4 DEF PushCaptured
  <2>3. DispatchedLeases' = IF EnableVideo THEN <<v>> ELSE <<>>
    <3>1. DispatchedLeases' = Dispatched'  BY DispatchedAre
    <3>2. Dispatched' = IF EnableVideo THEN <<v>> ELSE <<>>  BY <2>2 DEF Dispatched
    <3> QED BY <3>1, <3>2
  <2> HIDE DEF i, v
  <2>4. /\ DispatchedLeases # <<>> /\ Head(DispatchedLeases) = i
        /\ DispatchedLeases' = Tail(DispatchedLeases)
    <3>1. /\ <<i, v>> # <<>> /\ Tail(<<i, v>>) = <<v>> /\ Head(<<i, v>>) = i
          /\ <<i>> # <<>> /\ Tail(<<i>>) = <<>> /\ Head(<<i>>) = i
      BY <1>1, TwoItems
    <3> QED BY <1>2, <2>3, <3>1
  <2> QED BY <1>1, <1>3, <2>1, <2>4, PushLeases
<1>5. CASE queue["captured"].stopped
  <2>1. /\ disposing' = [disposing EXCEPT !["capture"] =
                            <<i>> \o (IF EnableVideo THEN <<v>> ELSE <<>>)]
        /\ dispatch' = <<>>
    BY <1>5 DEF PushCaptured, Disposing
  <2>2. DispatchedLeases' = <<>>  BY <2>1 DEF DispatchedLeases
  <2>3. queue' = queue  BY <1>3, <1>5 DEF PushLatest
  <2> HIDE DEF i, v
  <2>4. CASE ~EnableVideo
    <3>1. <<i>> \o <<>> = <<i>>
      <4>1. <<i>> \in Seq(Leases)  BY <1>1
      <4> QED BY <4>1, ConcatEmptySeq
    <3>2. Evicted("captured", i) = <<i>>  BY <1>5 DEF Evicted
    <3>3. disposing' = [disposing EXCEPT !["capture"] = Evicted("captured", i)]
      BY <2>1, <2>4, <3>1, <3>2
    <3>4. /\ DispatchedLeases # <<>> /\ Head(DispatchedLeases) = i
          /\ DispatchedLeases' = Tail(DispatchedLeases)
      <4>1. <<i>> # <<>> /\ Tail(<<i>>) = <<>> /\ Head(<<i>>) = i  BY <1>1, TwoItems
      <4> QED BY <1>2, <2>2, <2>4, <4>1
    <3> QED BY <1>1, <1>3, <3>3, <3>4, PushLeases
  <2>5. CASE EnableVideo
    <3>1. <<i>> \o <<v>> = <<i, v>>  BY TwoLists
    <3>2. /\ disposing'["capture"] = <<i, v>>
          /\ \A u \in Threads \ {"capture"} : disposing'[u] = disposing[u]
      BY <1>0, <2>1, <2>5, <3>1 DEF WorkType
    <3>3. /\ LeaseAt \in [LeasePlaces -> Seq(Leases)]
          /\ LeaseAt' \in [LeasePlaces -> Seq(Leases)]
          /\ "dispatched" \in LeasePlaces /\ "capture" \in LeasePlaces
          /\ "dispatched" # "capture"
      BY <1>0, LeaseAtTypes DEF LeaseTypesOK, LeasePlaces
    <3>4. /\ LeaseAt["dispatched"] = <<i, v>> /\ LeaseAt'["dispatched"] = <<>>
          /\ LeaseAt["capture"] = <<>> /\ LeaseAt'["capture"] = <<i, v>>
      BY <1>0, <1>1, <1>2, <2>2, <2>5, <3>2, LeaseAtIs DEF LeaseTypesOK
    <3>5. \A c \in LeasePlaces \ {"dispatched", "capture"} : LeaseAt'[c] = LeaseAt[c]
      BY <2>3, <3>2, LeaseAtIs DEF LeaseTypesOK, LeasePlaces
    <3>6. Placed(LeaseAt, live)  BY LeasesPlacedIs
    <3>7. MovedBoth(LeaseAt, LeaseAt', "dispatched", "capture", i, v)
      <4>1. DOMAIN LeaseAt = LeasePlaces  BY <3>3
      <4> QED BY <3>4, <3>5, <4>1 DEF MovedBoth
    <3>8. Placed(LeaseAt', live)  BY <1>1, <3>3, <3>6, <3>7, PlacedBoth
    <3> QED BY <1>1, <3>8, LeasesPlacedIs
  <2> QED BY <2>4, <2>5
<1> QED BY <1>4, <1>5

\* So does pushing the frame for video.
LEMMA PushVideoLeases ==
    ASSUME PcType, LeaseTypesOK, LeasesPlaced, Releases("capture"), PushVideo,
           Dispatching, dispatch # <<>>, pc["capture"] # <<"push_captured">>
    PROVE  LeasesPlaced'
<1> DEFINE v == Lease(dispatch[1], "video")
<1>0. WorkType /\ "capture" \in Threads  BY MainAndWorkers DEF LeaseTypesOK
<1>1. disposing["capture"] = <<>> /\ live' = live /\ v \in Leases  BY <1>0, PushHands
<1>2. DispatchedLeases = <<v>>
  <2>1. DispatchedLeases = Dispatched  BY DispatchedAre
  <2> QED BY <2>1 DEF Dispatched
<1>3. PushLatest("video", v) /\ disposing' = [disposing EXCEPT !["capture"] = Evicted("video", v)]
  BY DEF PushVideo, Disposing
<1>4. DispatchedLeases' = <<>>  BY DEF PushVideo, DispatchedLeases
<1> HIDE DEF v
<1>5. /\ DispatchedLeases # <<>> /\ Head(DispatchedLeases) = v
      /\ DispatchedLeases' = Tail(DispatchedLeases)
  <2>1. <<v>> # <<>> /\ Tail(<<v>>) = <<>> /\ Head(<<v>>) = v  BY <1>1, TwoItems
  <2> QED BY <1>2, <1>4, <2>1
<1> QED BY <1>1, <1>3, <1>5, PushLeases

\* Every step of a thread keeps leases placed.
LEMMA LeasesStep ==
    ASSUME Inv, QueueType', WorkType', Dispatching, Releasing, LeasesPlaced,
           NEW t \in Threads, ThreadStep(t)
    PROVE  Dispatching' /\ LeasesPlaced'
<1>0. /\ PcType /\ WorkType /\ Fresh /\ DispatchAt /\ BrokerInv /\ LeaseTypesOK
      /\ Releases(t)
  BY DEF Inv, Base, Control, Types, LeaseTypesOK, Releasing
<1>1. CASE t = "capture" /\ (PublishFrame \/ PushCaptured \/ PushVideo)
  <2>0. Releases("capture")  BY <1>0, <1>1
  <2>1. /\ Dispatching'
        /\ PublishFrame => dispatch = <<>>
        /\ PushCaptured => dispatch # <<>> /\ pc["capture"] = <<"push_captured">>
        /\ PushCaptured /\ dispatch' # <<>> =>
               dispatch' = dispatch /\ pc'["capture"] # <<"push_captured">>
        /\ PushVideo => dispatch # <<>> /\ pc["capture"] # <<"push_captured">>
    BY <1>0, <1>1, DispatchMoves
  <2>2. CASE PublishFrame  BY <1>0, <2>1, <2>2, PublishLeases
  <2>3. CASE PushCaptured  BY <1>0, <2>0, <2>1, <2>3, PushCapturedLeases
  <2>4. CASE PushVideo  BY <1>0, <2>0, <2>1, <2>4, PushVideoLeases
  <2> QED BY <1>1, <2>1, <2>2, <2>3, <2>4
<1>2. CASE ~(t = "capture" /\ (PublishFrame \/ PushCaptured \/ PushVideo))
  <2>1. Dispatching' /\ DispatchedLeases' = DispatchedLeases
    BY <1>0, <1>2, DispatchedKept
  <2>2. CASE CallStep(t)  BY <1>0, <2>1, <2>2, CallLeases
  <2>3. CASE t = "main" /\ Supervise  BY <1>0, <2>1, <2>3, SuperviseLeases
  <2>4. CASE t = "capture" /\ CaptureLoop  BY <1>0, <1>2, <2>1, <2>4, CaptureLeases
  <2>5. CASE t = "preprocess" /\ PreprocessLoop  BY <1>0, <2>1, <2>5, PreprocessLeases
  <2>6. CASE t = "npu" /\ (NpuLoop \/ PostprocessStep(t))
    BY <1>0, <2>1, <2>6, StageLeases
  <2>7. CASE t = "postprocess" /\ (TakeCompleted \/ PostprocessStep(t))
    BY <1>0, <2>1, <2>7, StageLeases
  <2>8. CASE t = "video" /\ VideoLoop  BY <1>0, <2>1, <2>8, VideoLeases
  <2>9. CASE t = "encoded" /\ EncodedPacketLoop  BY <1>0, <2>1, <2>9, StageLeases
  <2> QED BY <2>1, <2>2, <2>3, <2>4, <2>5, <2>6, <2>7, <2>8, <2>9 DEF ThreadStep
<1> QED BY <1>1, <1>2

\* Before StartCamera nothing is queued.
LEMMA BeforeStartStep ==
    ASSUME PcType, Fresh, NEW t \in Threads, ThreadStep(t)
    PROVE  BeforeStart'
<1>1. ~Has(pc'["main"], {"start"})  BY FirstFrameStep
<1>2. pc'["main"] # <<"start">>
  <2>1. Has(<<"start">>, {"start"})  BY DEF Has
  <2> QED BY <1>1, <2>1
<1> QED BY <1>2 DEF BeforeStart

\* A step of a thread keeps every resource in its one place.
LEMMA ResourceThreadStep ==
    ASSUME Inv, QueueType', WorkType', ResourceInv, NEW t \in Threads, ThreadStep(t)
    PROVE  ResourceInv'
<1>0. /\ PcType /\ WorkType /\ QueueType /\ Fresh
      /\ SlotsInHand /\ NoSlots /\ JobsFed /\ Dispatching /\ Releasing /\ BeforeStart
      /\ Accounted(InputAt, InSlots, "freeIn") /\ Accounted(OutputAt, OutSlots, "freeOut")
      /\ LeasesPlaced
  BY DEF Inv, Base, Control, Types, ResourceInv
<1>1. Numbered  BY <1>0, AccountedNumbered
<1>2. SlotsInHand'  BY <1>0, <1>1, SlotsInHandStep
<1>3. NoSlots' /\ JobsFed'  BY <1>0, NoSlotsStep, JobsFedStep
<1>4. Releasing' /\ BeforeStart'  BY <1>0, ReleasesStep, BeforeStartStep
<1>5. Dispatching' /\ LeasesPlaced'  BY <1>0, LeasesStep
<1>6. Accounted(InputAt, InSlots, "freeIn")' /\ Accounted(OutputAt, OutSlots, "freeOut")'
  <2>1. CASE t = "main" /\ StartCamera  BY <1>0, <2>1, AccountedStart
  <2>2. CASE ~(t = "main" /\ StartCamera)  BY <1>0, <2>2, AccountedStep
  <2> QED BY <2>1, <2>2
<1> QED BY <1>2, <1>3, <1>4, <1>5, <1>6 DEF ResourceInv

\* The call of Stop, and no step at all, leave every resource where it is.
LEMMA ResourceQuietStep ==
    ASSUME Inv, QueueType', WorkType', ResourceInv, UNCHANGED vars \/ StopRequested
    PROVE  ResourceInv'
<1>0. /\ PcType /\ WorkType /\ QueueType
      /\ SlotsInHand /\ NoSlots /\ JobsFed /\ Dispatching /\ Releasing /\ BeforeStart
      /\ Accounted(InputAt, InSlots, "freeIn") /\ Accounted(OutputAt, OutSlots, "freeOut")
      /\ LeasesPlaced
  BY DEF Inv, Base, Control, Types, ResourceInv
<1>1. /\ UNCHANGED <<queue, disposing, job, dispatch, faults, live, notifying>>
      /\ \A t \in Workers : pc'[t] = pc[t]
  BY <1>0, MainAndWorkers DEF StopRequested, Loop, PcType, vars, pipelineVars, work, brokerVars,
     leaseVars
<1>2. \/ pc'["main"] = pc["main"]
      \/ pc'["main"] = StopSteps /\ pc["main"] # <<>> /\ Head(pc["main"]) = "run"
  BY <1>0, MainAndWorkers DEF StopRequested, Loop, At, PcType, vars, pipelineVars
<1>3. SlotsInHand' /\ JobsFed'
  <2>1. Carriers \subseteq Workers  BY DEF Carriers, Workers
  <2>2. \A t \in Carriers : pc'[t] = pc[t]  BY <1>1, <2>1
  <2> QED BY <1>0, <1>1, <2>2 DEF SlotsInHand, HasSlots, JobsFed
<1>4. NoSlots'
  <2>1. ~Has(StopSteps, {"return_input", "return_output"})  BY DEF Has, StopSteps
  <2>2. ASSUME NEW t \in Threads \ Carriers
        PROVE  /\ ~Has(pc'[t], {"return_input", "return_output"})
               /\ job'[t].in = 0 /\ job'[t].out = 0
    BY <1>0, <1>1, <1>2, <2>1, MainAndWorkers DEF NoSlots
  <2> QED BY <2>2 DEF NoSlots
<1>5. Dispatching' /\ DispatchedLeases' = DispatchedLeases
  <2>1. pc'["capture"] = pc["capture"]  BY <1>1, MainAndWorkers
  <2>2. Dispatching'  BY <1>0, <1>1, <2>1 DEF Dispatching
  <2>3. Dispatched' = Dispatched  BY <1>1, <2>1 DEF Dispatched
  <2> QED BY <1>0, <2>2, <2>3, DispatchedAre
<1>6. Releasing'
  <2>1. ASSUME NEW t \in Threads PROVE Releases(t)'
    <3>1. CASE pc'[t] = pc[t]  BY <1>0, <1>1, <3>1, ReleasesKept DEF Releasing
    <3>2. CASE t = "main" /\ pc'["main"] = StopSteps /\ pc["main"] # <<>>
               /\ Head(pc["main"]) = "run"
      <4>1. disposing[t] = <<>>  BY <1>0, <3>2, ReleaseHead DEF Releasing, ReleaseSteps
      <4>2. ~Has(StopSteps, ReleaseSteps)  BY ReleaseLists
      <4> QED BY <1>1, <3>2, <4>1, <4>2, ReleasesKept
    <3> QED BY <1>1, <1>2, <3>1, <3>2, MainAndWorkers
  <2> QED BY <2>1 DEF Releasing
<1>7. BeforeStart'
  <2>1. StopSteps # <<"start">>  BY DEF StopSteps
  <2> QED BY <1>0, <1>1, <1>2, <2>1 DEF BeforeStart
<1>8. Accounted(InputAt, InSlots, "freeIn")' /\ Accounted(OutputAt, OutSlots, "freeOut")'
  <2>1. InputAt' = InputAt /\ OutputAt' = OutputAt
    BY <1>1 DEF InputAt, OutputAt, InputsHeld, OutputsHeld, SlotsAt
  <2>2. ASSUME NEW free \in {"freeIn", "freeOut"} PROVE Excused(free) => Excused(free)'
    BY <1>1, <1>2 DEF Excused
  <2> QED BY <1>0, <2>1, <2>2 DEF Accounted
<1>9. LeasesPlaced'
  <2>1. SameLeases /\ LeaseTypesOK  BY <1>0, <1>1 DEF SameLeases, LeaseTypesOK
  <2> QED BY <1>0, <1>5, <2>1, LeasesStay
<1> QED BY <1>3, <1>4, <1>5, <1>6, <1>7, <1>8, <1>9 DEF ResourceInv

\* The invariant of resources is inductive, given Inv.
LEMMA ResourceInvStep == Inv /\ Inv' /\ ResourceInv /\ [PipelineNext]_vars => ResourceInv'
<1> SUFFICES ASSUME Inv, Inv', ResourceInv, [PipelineNext]_vars PROVE ResourceInv'
  OBVIOUS
<1>1. QueueType' /\ WorkType'  BY DEF Inv, Base, Types
<1>2. ASSUME NEW t \in Threads, ThreadStep(t) PROVE ResourceInv'
  BY <1>1, <1>2, ResourceThreadStep
<1>3. CASE UNCHANGED vars \/ StopRequested  BY <1>1, <1>3, ResourceQuietStep
<1> QED BY <1>2, <1>3 DEF PipelineNext, Terminated

\* Before StartCamera there is nothing to account for.
LEMMA ResourceInit == PipelineInit => ResourceInv
<1> SUFFICES ASSUME PipelineInit PROVE ResourceInv  OBVIOUS
<1>1. /\ \A t \in Threads : disposing[t] = <<>> /\ job[t].in = 0 /\ job[t].out = 0
      /\ \A t \in Workers : pc[t] = <<>>
      /\ \A q \in Queues : queue[q].items = <<>>
      /\ pc["main"] = <<"start">> /\ dispatch = <<>> /\ live = {}
  BY MainAndWorkers DEF PipelineInit, BrokerInit, NoJob
<1>2. \A S : ~Has(<<>>, S)  BY ShortLists
<1>3. ~Has(<<"start">>, ReleaseSteps) /\ ~Has(<<"start">>, {"return_input", "return_output"})
  BY ShortLists DEF ReleaseSteps
<1>4. SlotsInHand
  <2>1. \A t \in Carriers : pc[t] = <<>> /\ job[t].in = 0 /\ job[t].out = 0
    BY <1>1, MainAndWorkers DEF Carriers
  <2>2. Tidy(<<>>)  BY ShortLists DEF Tidy, Once
  <2> QED BY <1>2, <2>1, <2>2 DEF SlotsInHand, HasSlots
<1>5. NoSlots  BY <1>1, <1>2, <1>3, MainAndWorkers DEF NoSlots
<1>6. JobsFed /\ BeforeStart /\ Dispatching
  BY <1>1 DEF JobsFed, BeforeStart, Dispatching, Queues
<1>7. Releasing
  <2>1. ASSUME NEW t \in Threads PROVE Releases(t)
    <3>1. pc[t] = <<>> \/ pc[t] = <<"start">>  BY <1>1, MainAndWorkers
    <3>2. ~Has(pc[t], ReleaseSteps) /\ disposing[t] = <<>>  BY <1>1, <1>2, <1>3, <3>1
    <3> QED BY <3>2 DEF Releases, First, Has, ReleaseSteps
  <2> QED BY <2>1 DEF Releasing
<1>8. ASSUME NEW P, \A p \in DOMAIN P : P[p] = <<>>
      PROVE  Single(P) /\ \A p \in DOMAIN P : \A i \in DOMAIN P[p] : FALSE
  <2>1. DOMAIN <<>> = {}  OBVIOUS
  <2> QED BY <1>8, <2>1 DEF Single
<1>9. Accounted(InputAt, InSlots, "freeIn") /\ Accounted(OutputAt, OutSlots, "freeOut")
  <2>1. \A p \in DOMAIN InputAt : InputAt[p] = <<>>
    BY <1>1 DEF InputAt, SlotsAt, InputsOf, InputsHeld, SlotHeld, Queues
  <2>2. \A p \in DOMAIN OutputAt : OutputAt[p] = <<>>
    BY <1>1 DEF OutputAt, SlotsAt, OutputsOf, OutputsHeld, SlotHeld, Queues
  <2> HIDE DEF InputAt, OutputAt
  <2> QED BY <1>1, <1>8, <2>1, <2>2 DEF Accounted, Excused
<1>10. LeasesPlaced
  <2>1. \A p \in DOMAIN LeaseAt : LeaseAt[p] = <<>>
    <3>1. DispatchedLeases = <<>>  BY <1>1 DEF DispatchedLeases
    <3> QED BY <1>1, <3>1 DEF LeaseAt, Queues
  <2> QED BY <1>1, <1>8, <2>1 DEF LeasesPlaced
<1> QED BY <1>4, <1>5, <1>6, <1>7, <1>9, <1>10 DEF ResourceInv

\* No lease and no slot is dropped on the floor or in two hands: each live lease has one
\* place, each slot one holder, and a slot without one has an excuse.
THEOREM ResourcesKept == PipelineSpec => []ResourcesAccounted
<1>1. ResourceInv => ResourcesAccounted
  BY InputsCounted, OutputsCounted, LeasesCounted DEF ResourceInv, ResourcesAccounted
<1> QED BY <1>1, ResourceInit, ResourceInvStep, PipelineInvariant, PTL DEF PipelineSpec

================================================================================
