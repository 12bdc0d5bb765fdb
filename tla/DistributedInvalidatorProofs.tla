--------------------- MODULE DistributedInvalidatorProofs ---------------------
(***************************************************************************)
(* Theorems about DistributedInvalidator, for every set of nodes and calls *)
(* and every number of changes of the data.                                *)
(***************************************************************************)
EXTENDS DistributedInvalidator, TLAPS, SequenceTheorems

-----------------------------------------------------------------------------
(* Operators.                                                              *)

\* Marking an entry keeps it an entry, of the same version.
LEMMA LateValue ==
    ASSUME NEW e \in Value \cup {None}, NEW x \in Call
    PROVE  Late(e, x) \in Value \cup {None}
  BY DEF Late, Value

\* Where a message is after it has been appended, and after its queue has
\* moved on by one.
LEMMA AppendElements ==
    ASSUME NEW S, NEW q \in Seq(S), NEW e \in S
    PROVE  /\ Append(q, e) \in Seq(S)
           /\ ToSet(Append(q, e)) = ToSet(q) \cup {e}
<1>1. Append(q, e) \in Seq(S) /\ Len(Append(q, e)) = Len(q) + 1
  BY AppendProperties
<1>2. DOMAIN Append(q, e) = 1..(Len(q) + 1) /\ DOMAIN q = 1..Len(q) /\ Len(q) \in Nat
  BY <1>1
<1>3. \A i \in 1..Len(q) : Append(q, e)[i] = q[i]
  BY AppendProperties
<1>4. Append(q, e)[Len(q) + 1] = e
  BY AppendProperties
<1>5. 1..(Len(q) + 1) = (1..Len(q)) \cup {Len(q) + 1}
  BY <1>2
<1> QED BY <1>1, <1>2, <1>3, <1>4, <1>5 DEF ToSet

LEMMA TailElements ==
    ASSUME NEW S, NEW q \in Seq(S), q # <<>>
    PROVE  /\ Head(q) \in S /\ Tail(q) \in Seq(S)
           /\ Head(q) \in ToSet(q)
           /\ ToSet(q) = ToSet(Tail(q)) \cup {Head(q)}
<1>1. /\ Head(q) \in S /\ Tail(q) \in Seq(S)
      /\ Len(Tail(q)) = Len(q) - 1
      /\ \A i \in 1..Len(Tail(q)) : Tail(q)[i] = q[i + 1]
  BY HeadTailProperties
<1>2. /\ DOMAIN q = 1..Len(q) /\ DOMAIN Tail(q) = 1..(Len(q) - 1)
      /\ Len(q) \in Nat /\ Len(q) > 0 /\ Head(q) = q[1]
  BY <1>1
<1>3. \A y : y \in ToSet(q) => y \in ToSet(Tail(q)) \cup {Head(q)}
  <2> SUFFICES ASSUME NEW i \in 1..Len(q), i # 1
               PROVE  q[i] \in ToSet(Tail(q))
    BY <1>2 DEF ToSet
  <2>1. i - 1 \in 1..Len(Tail(q)) /\ Tail(q)[i - 1] = q[i]
    BY <1>1, <1>2
  <2> QED BY <1>1, <1>2, <2>1 DEF ToSet
<1>4. \A y : y \in ToSet(Tail(q)) \cup {Head(q)} => y \in ToSet(q)
  BY <1>1, <1>2 DEF ToSet
<1> QED BY <1>1, <1>3, <1>4

LEMMA EmptyElements == ToSet(<<>>) = {}
  BY DEF ToSet

LEMMA ElementsIn ==
    ASSUME NEW S, NEW q \in Seq(S)
    PROVE  ToSet(q) \subseteq S
  BY DEF ToSet

-----------------------------------------------------------------------------
(* Types.                                                                  *)

LEMMA TypeInit == Init => TypeOK
<1> SUFFICES ASSUME Init PROVE TypeOK
  OBVIOUS
<1>1. queue \in [Node -> Seq(Call)] /\ \A n \in Node : queue[n] = <<>>
  BY DEF Init
<1>2. tagging \subseteq Node /\ 0 \in 0..MaxVersion
  BY TagCachesAssumption, VersionAssumption DEF Init
<1> QED BY <1>1, <1>2 DEF Init, TypeOK

LEMMA CachesType ==
    ASSUME TypeOK, NEW n \in Node,
           Update \/ FillBegin(n) \/ Backfill(n) \/ Store(n) \/ WriteEnds(n)
    PROVE  TypeOK'
<1>1. CASE Update
  BY <1>1, VersionAssumption DEF Update, TypeOK, Value, network
<1>2. CASE FillBegin(n)
  <2>1. [version |-> origin, late |-> {}, tagged |-> TRUE] \in Value
    BY DEF TypeOK, Value
  <2>2. shared # None => [shared EXCEPT !.tagged = FALSE] \in Value
    BY DEF TypeOK, Value
  <2>3. PICK e \in Value : hand' = [hand EXCEPT ![n] = e]
    BY <1>2, <2>1, <2>2 DEF FillBegin
  <2> QED BY <1>2, <2>3 DEF FillBegin, TypeOK, network
<1>3. CASE Backfill(n)
  BY <1>3 DEF Backfill, TypeOK, network
<1>4. CASE Store(n)
  BY <1>4 DEF Store, TypeOK, network
<1>5. CASE WriteEnds(n)
  BY <1>5 DEF WriteEnds, TypeOK, network
<1> QED BY <1>1, <1>2, <1>3, <1>4, <1>5

LEMMA DeletionsType ==
    ASSUME TypeOK, NEW n \in Node, NEW x \in Call,
           \/ DeleteCopy(n, x) \/ DeleteCopyFails(n, x)
           \/ DeleteShared(n, x) \/ DeleteSharedFails(n, x)
    PROVE  TypeOK'
<1>1. CASE DeleteCopy(n, x)
  <2>1. Late(hand[n], x) \in Value \cup {None}
    BY LateValue DEF TypeOK
  <2>2. /\ copy' \in {copy, [copy EXCEPT ![n] = None]}
        /\ hand' = [hand EXCEPT ![n] = Late(hand[n], x)]
        /\ Local(n, x, "shared")
        /\ UNCHANGED <<origin, shared, write, network, pc, arg>>
    BY <1>1 DEF DeleteCopy
  <2> QED BY <2>1, <2>2 DEF TypeOK, Local, network
<1>2. CASE DeleteCopyFails(n, x)
  BY <1>2 DEF DeleteCopyFails, TypeOK, Local, entries, network
<1>3. CASE DeleteShared(n, x)
  <2>1. shared' \in Value \cup {None}
    BY <1>3, LateValue DEF DeleteShared, TypeOK
  <2>2. /\ \A m \in Node : Late(hand[m], x) \in Value \cup {None}
        /\ \A m \in Node : Late(write[m], x) \in Value \cup {None}
    BY LateValue DEF TypeOK
  <2>3. /\ hand' \in [Node -> Value \cup {None}]
        /\ write' \in [Node -> Value \cup {None}]
    <3>1. CASE n = arg[x].node
      <4> DEFINE marked(m) == m = n \/ (hand[m] # None /\ hand[m].tagged)
      <4>1. /\ hand' = [m \in Node |-> IF marked(m) THEN Late(hand[m], x) ELSE hand[m]]
            /\ write' = [m \in Node |-> Late(write[m], x)]
        BY <1>3, <3>1 DEF DeleteShared
      <4> HIDE DEF marked
      <4> QED BY <2>2, <4>1 DEF TypeOK
    <3>2. CASE n # arg[x].node
      BY <1>3, <3>2 DEF DeleteShared, TypeOK
    <3> QED BY <3>1, <3>2
  <2>4. copy' \in [Node -> Value \cup {None}]
    <3>1. Late(copy[n], x) \in Value \cup {None}
      BY LateValue DEF TypeOK
    <3>2. copy' \in {copy, [copy EXCEPT ![n] = Late(copy[n], x)]}
      BY <1>3 DEF DeleteShared
    <3> QED BY <3>1, <3>2 DEF TypeOK
  <2>5. Local(n, x, "done") /\ UNCHANGED <<origin, network, pc, arg>>
    BY <1>3 DEF DeleteShared
  <2> QED BY <2>1, <2>3, <2>4, <2>5 DEF TypeOK, Local, network
<1>4. CASE DeleteSharedFails(n, x)
  BY <1>4 DEF DeleteSharedFails, TypeOK, Local, network
<1> QED BY <1>1, <1>2, <1>3, <1>4

LEMMA CallsType ==
    ASSUME TypeOK, NEW x \in Call,
           \/ \E n \in Node, type \in {"pattern", "tag"} : Invalidate(x, n, type)
           \/ Publish(x) \/ PublishFails(x) \/ LocalFails(x)
    PROVE  TypeOK'
<1>1. ASSUME NEW n \in Node, NEW type \in {"pattern", "tag"}, Invalidate(x, n, type)
      PROVE  TypeOK'
  <2>1. /\ arg' = [arg EXCEPT ![x] = [node |-> n, type |-> type, version |-> origin]]
        /\ local' = [local EXCEPT ![n][x] = Started(n, type)]
        /\ pc' = [pc EXCEPT ![x] = "local"]
        /\ UNCHANGED <<entries, network>>
    BY <1>1 DEF Invalidate, Local, Goto
  <2>2. Started(n, type) \in {"skipped", "copy"}
    BY DEF Started
  <2> QED BY <2>1, <2>2 DEF TypeOK, entries, network
<1>2. CASE Publish(x)
  <2>1. \A n \in Node : Append(queue[n], x) \in Seq(Call)
    BY AppendElements DEF TypeOK
  <2>2. queue' = [n \in Node |-> IF Subscribed(n) THEN Append(queue[n], x) ELSE queue[n]]
    BY <1>2 DEF Publish
  <2>3. queue' \in [Node -> Seq(Call)]
    BY <2>1, <2>2 DEF TypeOK
  <2>4. \A n \in Node : queue'[n] # <<>> => stage[n] \in {"open", "closing"}
    BY <2>2 DEF TypeOK, Subscribed
  <2>5. missed' \subseteq Node \X Call
    BY <1>2 DEF Publish, TypeOK
  <2>6. pc' \in [Call -> {"new", "local", "done", "failed"}]
    BY <1>2 DEF Publish, TypeOK
  <2> QED BY <1>2, <2>3, <2>4, <2>5, <2>6 DEF Publish, TypeOK, entries
<1>3. CASE PublishFails(x) \/ LocalFails(x)
  BY <1>3 DEF PublishFails, LocalFails, Goto, TypeOK, entries, network
<1> QED BY <1>1, <1>2, <1>3

LEMMA SubscriptionType ==
    ASSUME TypeOK, NEW n \in Node,
           \/ Subscribe(n) \/ Disconnect(n) \/ Deliver(n)
           \/ Close(n) \/ Detach(n) \/ Quit(n)
    PROVE  TypeOK'
<1>1. ASSUME Lose(n)
      PROVE  /\ queue' \in [Node -> Seq(Call)]
             /\ \A m \in Node : queue'[m] # <<>> => queue[m] # <<>> /\ m # n
             /\ missed' \subseteq Node \X Call
  <2>1. ToSet(queue[n]) \subseteq Call
    BY ElementsIn DEF TypeOK
  <2>2. <<>> \in Seq(Call)
    OBVIOUS
  <2> QED BY <1>1, <2>1, <2>2 DEF Lose, TypeOK
<1>2. CASE Subscribe(n)
  BY <1>2 DEF Subscribe, TypeOK, entries
<1>3. CASE Disconnect(n)
  BY <1>1, <1>3 DEF Disconnect, TypeOK, entries
<1>4. CASE Deliver(n)
  <2>1. Head(queue[n]) \in Call /\ Tail(queue[n]) \in Seq(Call)
    BY <1>4, TailElements DEF Deliver, TypeOK
  <2>2. local' \in [Node -> [Call -> {"no", "copy", "shared", "done", "failed", "thrown", "skipped"}]]
    <3>1. \A type : Started(n, type) \in {"skipped", "copy"}
      BY DEF Started
    <3>2. \/ local' = local
          \/ Local(n, Head(queue[n]), Started(n, arg[Head(queue[n])].type))
      BY <1>4 DEF Deliver
    <3> DEFINE x == Head(queue[n])
               l == Started(n, arg[x].type)
    <3>3. local' = local \/ local' = [local EXCEPT ![n][x] = l]
      BY <3>2 DEF Local
    <3>4. x \in Call /\ l \in {"skipped", "copy"}
      BY <2>1, <3>1
    <3>5. local \in [Node -> [Call -> {"no", "copy", "shared", "done", "failed", "thrown", "skipped"}]]
      BY DEF TypeOK
    <3> HIDE DEF x, l
    <3> QED BY <3>3, <3>4, <3>5, SMT
  <2>3. /\ queue' = [queue EXCEPT ![n] = Tail(queue[n])]
        /\ UNCHANGED <<entries, sub, stage, missed, pc, arg>>
        /\ stage[n] \in {"open", "closing"}
    BY <1>4 DEF Deliver
  <2> QED BY <2>1, <2>2, <2>3 DEF TypeOK, entries
<1>5. CASE Close(n)
  BY <1>5 DEF Close, TypeOK, entries
<1>6. CASE Detach(n)
  BY <1>1, <1>6 DEF Detach, TypeOK, entries
<1>7. CASE Quit(n)
  BY <1>7 DEF Quit, TypeOK, entries
<1> QED BY <1>2, <1>3, <1>4, <1>5, <1>6, <1>7

LEMMA TypeStep == TypeOK /\ [Next]_vars => TypeOK'
<1> SUFFICES ASSUME TypeOK, [Next]_vars PROVE TypeOK'
  OBVIOUS
<1>1. CASE UNCHANGED vars
  BY <1>1 DEF TypeOK, vars, entries, network
<1>2. CASE Next
  <2>1. CASE Update
    <3>1. CASE Node = {}
      BY <2>1, VersionAssumption DEF Update, TypeOK, network
    <3>2. CASE Node # {}
      BY <2>1, <3>2, CachesType
    <3> QED BY <3>1, <3>2
  <2> QED BY <1>2, <2>1, CachesType, DeletionsType, CallsType, SubscriptionType DEF Next
<1> QED BY <1>1, <1>2

\* Type correctness of the invalidators, their messages and the caches.
THEOREM TypeCorrect == Spec => []TypeOK
  BY TypeInit, TypeStep, PTL DEF Spec

-----------------------------------------------------------------------------
(* The invariants.                                                         *)

\* A call that has begun is for the present version of the data or a past one.
Begun ==
    \A x \in Call : pc[x] # "new" =>
        /\ arg[x] \in [node : Node, type : {"pattern", "tag"}, version : 0..MaxVersion]
        /\ arg[x].version <= origin

\* Nothing is done for a call before it begins, and it returns only after its
\* own node has done what it could.
InOrder ==
    /\ \A n \in Node, x \in Call : local[n][x] # "no" => pc[x] # "new"
    /\ \A n \in Node, x \in Call : x \in ToSet(queue[n]) => pc[x] # "new"
    /\ \A x \in Call : pc[x] = "done" => local[arg[x].node][x] \in {"done", "skipped"}

\* What a call has cleared when its own node has done what it could: the shared
\* level, and the ways from it, from a fill and from a write under way back
\* into either level. What another node has read from the shared level goes
\* nowhere but into that node's own level.
Cleared(x) ==
    /\ ~Old(shared, x)
    /\ \A n \in Node : ~Old(write[n], x)
    /\ \A n \in Node : Old(hand[n], x) => ~hand[n].tagged /\ n # arg[x].node
    /\ ~Stale(arg[x].node, x)

\* From then on nothing old comes back.
ClearedStaysClean ==
    \A x \in Call : pc[x] # "new" /\ local[arg[x].node][x] = "done" => Cleared(x)

\* Call x's message is still to be dealt with at node n, or never will be.
Followed(n, x) == Excused(n, x) \/ x \in ToSet(queue[n]) \/ local[n][x] = "copy"

\* The node keeps an old copy, or has read one and will store it.
Holds(n, x) == Stale(n, x) \/ (Old(hand[n], x) /\ Reaches(x, hand[n]))

\* OldCopiesAreFollowed, and the same of the fills: what they hold would else be
\* an old copy in the next step.
HeldAreFollowed ==
    \A n \in Node, x \in Call :
        Effective(x) /\ Holds(n, x) => n # arg[x].node /\ Followed(n, x)

IInv == TypeOK /\ Begun /\ InOrder /\ ClearedStaysClean /\ HeldAreFollowed

LEMMA InvInit == Init => Begun /\ InOrder /\ ClearedStaysClean /\ HeldAreFollowed
<1> SUFFICES ASSUME Init PROVE Begun /\ InOrder /\ ClearedStaysClean /\ HeldAreFollowed
  OBVIOUS
<1>1. \A x \in Call : pc[x] = "new"
  BY DEF Init
<1>2. \A n \in Node, x \in Call : local[n][x] = "no" /\ x \notin ToSet(queue[n])
  BY EmptyElements DEF Init
<1> QED BY <1>1, <1>2 DEF Begun, InOrder, ClearedStaysClean, HeldAreFollowed, Effective

\* Marking an entry never makes it one that a call should have dropped, and
\* marking it for the call makes sure that it is none.
LEMMA LateOld ==
    ASSUME NEW e \in Value \cup {None}, NEW x \in Call, NEW y \in Call, Old(Late(e, y), x)
    PROVE  Old(e, x) /\ x # y /\ Late(e, y).tagged = e.tagged
<1>1. CASE Late(e, y) = e
  <2>1. ~(e # None /\ e.version < arg[y].version) \/ e.late = e.late \cup {y}
    <3> SUFFICES ASSUME e # None, e.version < arg[y].version
                 PROVE  e.late = e.late \cup {y}
      OBVIOUS
    <3>1. e = [e EXCEPT !.late = @ \cup {y}] /\ e \in Value
      BY <1>1 DEF Late
    <3> QED BY <3>1 DEF Value
  <2>2. y \notin e.late \/ ~Old(e, y)
    BY DEF Old
  <2> QED BY <1>1, <2>1 DEF Old
<1>2. CASE Late(e, y) # e
  <2>1. Late(e, y) = [e EXCEPT !.late = @ \cup {y}] /\ e \in Value /\ e # None
    BY <1>2 DEF Late
  <2>2. /\ Late(e, y).late = e.late \cup {y} /\ Late(e, y).version = e.version
        /\ Late(e, y).tagged = e.tagged
    BY <2>1 DEF Value
  <2> QED BY <2>1, <2>2 DEF Old
<1> QED BY <1>1, <1>2

\* A call that has begun stays begun, with the argument it began with.
LEMMA BegunStep ==
    ASSUME TypeOK, Begun, [Next]_vars
    PROVE  /\ Begun'
           /\ \A x \in Call : pc[x] # "new" => pc'[x] # "new" /\ arg'[x] = arg[x]
<1>1. CASE Update
  BY <1>1 DEF Update, Begun, TypeOK, network
<1>2. ASSUME NEW n \in Node, NEW x \in Call, NEW type \in {"pattern", "tag"}, Invalidate(x, n, type)
      PROVE  /\ Begun'
             /\ \A y \in Call : pc[y] # "new" => pc'[y] # "new" /\ arg'[y] = arg[y]
  <2>1. /\ arg' = [arg EXCEPT ![x] = [node |-> n, type |-> type, version |-> origin]]
        /\ pc' = [pc EXCEPT ![x] = "local"] /\ pc[x] = "new" /\ origin' = origin
    BY <1>2 DEF Invalidate, Goto, entries
  <2> QED BY <2>1 DEF Begun, TypeOK
<1>3. ASSUME NEW x \in Call, Publish(x) \/ PublishFails(x) \/ LocalFails(x)
      PROVE  /\ Begun'
             /\ \A y \in Call : pc[y] # "new" => pc'[y] # "new" /\ arg'[y] = arg[y]
  <2>1. /\ pc[x] = "local" /\ pc' \in {[pc EXCEPT ![x] = "done"], [pc EXCEPT ![x] = "failed"]}
        /\ UNCHANGED <<origin, arg>>
    BY <1>3 DEF Publish, PublishFails, LocalFails, ToPublish, Goto, entries
  <2> QED BY <2>1 DEF Begun, TypeOK
<1>4. CASE UNCHANGED <<origin, pc, arg>>
  BY <1>4 DEF Begun
<1>5. ASSUME NEW n \in Node,
             \/ FillBegin(n) \/ Backfill(n) \/ Store(n) \/ WriteEnds(n)
             \/ Subscribe(n) \/ Disconnect(n) \/ Deliver(n)
             \/ Close(n) \/ Detach(n) \/ Quit(n)
      PROVE  UNCHANGED <<origin, pc, arg>>
  BY <1>5 DEF FillBegin, Backfill, Store, WriteEnds, Subscribe, Disconnect, Deliver, Close, Detach, Quit, entries
<1>6. ASSUME NEW n \in Node, NEW x \in Call,
             \/ DeleteCopy(n, x) \/ DeleteCopyFails(n, x)
             \/ DeleteShared(n, x) \/ DeleteSharedFails(n, x)
      PROVE  UNCHANGED <<origin, pc, arg>>
  BY <1>6 DEF DeleteCopy, DeleteCopyFails, DeleteShared, DeleteSharedFails, entries
<1>7. CASE UNCHANGED vars
  BY <1>4, <1>7 DEF vars, entries
<1> QED BY <1>1, <1>2, <1>3, <1>4, <1>5, <1>6, <1>7 DEF Next

\* What the actions do to the messages and the invalidations.
LEMMA QueueStep ==
    ASSUME TypeOK, [Next]_vars, NEW n \in Node, NEW x \in Call, x \in ToSet(queue'[n])
    PROVE  x \in ToSet(queue[n]) \/ Publish(x)
<1>1. ASSUME NEW m \in Node, Deliver(m) PROVE x \in ToSet(queue[n])
  <2>1. queue' = [queue EXCEPT ![m] = Tail(queue[m])] /\ queue[m] # <<>>
    BY <1>1 DEF Deliver
  <2>2. queue[m] \in Seq(Call) /\ queue \in [Node -> Seq(Call)]
    BY DEF TypeOK
  <2>3. ToSet(Tail(queue[m])) \subseteq ToSet(queue[m])
    BY <2>1, <2>2, TailElements
  <2> QED BY <2>1, <2>2, <2>3
<1>2. ASSUME NEW m \in Node, Disconnect(m) \/ Detach(m) PROVE x \in ToSet(queue[n])
  <2>1. queue' = [queue EXCEPT ![m] = <<>>]
    BY <1>2 DEF Disconnect, Detach, Lose
  <2> QED BY <2>1, EmptyElements DEF TypeOK
<1>3. ASSUME NEW y \in Call, Publish(y) PROVE x \in ToSet(queue[n]) \/ y = x
  <2>1. queue'[n] \in {Append(queue[n], y), queue[n]}
    BY <1>3 DEF Publish
  <2>2. queue[n] \in Seq(Call)
    BY DEF TypeOK
  <2>3. ToSet(Append(queue[n], y)) = ToSet(queue[n]) \cup {y}
    BY <2>2, AppendElements
  <2>4. CASE queue'[n] = queue[n]
    BY <2>4
  <2>5. CASE queue'[n] = Append(queue[n], y)
    BY <2>3, <2>5
  <2> QED BY <2>1, <2>4, <2>5
<1>4. CASE UNCHANGED queue
  BY <1>4
<1>5. CASE Update \/ UNCHANGED vars
  BY <1>5 DEF Update, vars, network
<1>6. ASSUME NEW m \in Node,
             FillBegin(m) \/ Backfill(m) \/ Store(m) \/ WriteEnds(m) \/ Subscribe(m) \/ Close(m) \/ Quit(m)
      PROVE  UNCHANGED queue
  BY <1>6 DEF FillBegin, Backfill, Store, WriteEnds, Subscribe, Close, Quit, network
<1>7. ASSUME NEW m \in Node, NEW y \in Call,
             \/ DeleteCopy(m, y) \/ DeleteCopyFails(m, y)
             \/ DeleteShared(m, y) \/ DeleteSharedFails(m, y)
      PROVE  UNCHANGED queue
  BY <1>7 DEF DeleteCopy, DeleteCopyFails, DeleteShared, DeleteSharedFails, network
<1>8. ASSUME NEW y \in Call,
             \/ \E m \in Node, type \in {"pattern", "tag"} : Invalidate(y, m, type)
             \/ LocalFails(y) \/ PublishFails(y)
      PROVE  UNCHANGED queue
  BY <1>8 DEF Invalidate, LocalFails, PublishFails, network
<1> QED BY <1>1, <1>2, <1>3, <1>4, <1>5, <1>6, <1>7, <1>8 DEF Next

LEMMA LocalStep ==
    ASSUME TypeOK, [Next]_vars, NEW n \in Node, NEW x \in Call, local'[n][x] # local[n][x]
    PROVE  \/ \E type \in {"pattern", "tag"} : Invalidate(x, n, type)
           \/ DeleteCopy(n, x) \/ DeleteCopyFails(n, x)
           \/ DeleteShared(n, x) \/ DeleteSharedFails(n, x)
           \/ /\ Deliver(n) /\ Head(queue[n]) = x /\ arg[x].node # n
              /\ local'[n][x] \in {"copy", "skipped"}
<1>1. ASSUME NEW m \in Node, NEW y \in Call,
             \/ \E type \in {"pattern", "tag"} : Invalidate(y, m, type)
             \/ DeleteCopy(m, y) \/ DeleteCopyFails(m, y)
             \/ DeleteShared(m, y) \/ DeleteSharedFails(m, y)
      PROVE  m = n /\ y = x
  <2>1. PICK l : local' = [local EXCEPT ![m][y] = l]
    BY <1>1 DEF Invalidate, DeleteCopy, DeleteCopyFails, DeleteShared, DeleteSharedFails, Local
  <2> QED BY <2>1 DEF TypeOK
<1>2. ASSUME NEW m \in Node, Deliver(m)
      PROVE  /\ m = n /\ Head(queue[n]) = x /\ arg[x].node # n
             /\ local'[n][x] \in {"copy", "skipped"}
  <2> DEFINE y == Head(queue[m])
             l == Started(m, arg[y].type)
  <2>1. y \in Call
    BY <1>2, TailElements DEF Deliver, TypeOK
  <2>2. l \in {"copy", "skipped"}
    BY DEF Started
  <2>3. local' # local
    OBVIOUS
  <2>4. arg[y].node # m /\ local' = [local EXCEPT ![m][y] = l]
    BY <1>2, <2>3 DEF Deliver, Local
  <2>5. local \in [Node -> [Call -> {"no", "copy", "shared", "done", "failed", "thrown", "skipped"}]]
    BY DEF TypeOK
  <2>6. m = n /\ y = x /\ local'[n][x] \in {"copy", "skipped"}
    <3> HIDE DEF y, l
    <3> QED BY <2>1, <2>2, <2>4, <2>5, SMT
  <2> QED BY <2>4, <2>6
<1>3. CASE Update \/ UNCHANGED vars
  BY <1>3 DEF Update, vars
<1>4. ASSUME NEW m \in Node,
             \/ FillBegin(m) \/ Backfill(m) \/ Store(m) \/ WriteEnds(m) \/ Subscribe(m) \/ Disconnect(m)
             \/ Close(m) \/ Detach(m) \/ Quit(m)
      PROVE  FALSE
  BY <1>4 DEF FillBegin, Backfill, Store, WriteEnds, Subscribe, Disconnect, Close, Detach, Quit
<1>5. ASSUME NEW y \in Call, LocalFails(y) \/ Publish(y) \/ PublishFails(y)
      PROVE  FALSE
  BY <1>5 DEF LocalFails, Publish, PublishFails
<1>6. CASE \E m \in Node, y \in Call :
              \/ \E type \in {"pattern", "tag"} : Invalidate(y, m, type)
              \/ DeleteCopy(m, y) \/ DeleteCopyFails(m, y)
              \/ DeleteShared(m, y) \/ DeleteSharedFails(m, y)
  BY <1>1, <1>6
<1>7. CASE \E m \in Node : Deliver(m)
  BY <1>2, <1>7
<1> QED BY <1>3, <1>4, <1>5, <1>6, <1>7 DEF Next

\* A call returns by publishing, which leaves everything else of it alone.
LEMMA DoneStep ==
    ASSUME TypeOK, [Next]_vars, NEW x \in Call, pc'[x] = "done", pc[x] # "done"
    PROVE  Publish(x)
<1>1. ASSUME NEW y \in Call, NEW n \in Node, NEW type \in {"pattern", "tag"}, Invalidate(y, n, type)
      PROVE  FALSE
  BY <1>1 DEF Invalidate, Goto, TypeOK
<1>2. ASSUME NEW y \in Call, PublishFails(y) \/ LocalFails(y)
      PROVE  FALSE
  BY <1>2 DEF PublishFails, LocalFails, Goto, TypeOK
<1>3. ASSUME NEW y \in Call, Publish(y) PROVE y = x
  BY <1>3 DEF Publish, TypeOK
<1>4. CASE Update \/ UNCHANGED vars
  BY <1>4 DEF Update, vars
<1>5. ASSUME NEW n \in Node,
             \/ FillBegin(n) \/ Backfill(n) \/ Store(n) \/ WriteEnds(n) \/ Subscribe(n) \/ Disconnect(n)
             \/ Deliver(n) \/ Close(n) \/ Detach(n) \/ Quit(n)
      PROVE  FALSE
  BY <1>5 DEF FillBegin, Backfill, Store, WriteEnds, Subscribe, Disconnect, Deliver, Close, Detach, Quit
<1>6. ASSUME NEW n \in Node, NEW y \in Call,
             \/ DeleteCopy(n, y) \/ DeleteCopyFails(n, y)
             \/ DeleteShared(n, y) \/ DeleteSharedFails(n, y)
      PROVE  FALSE
  BY <1>6 DEF DeleteCopy, DeleteCopyFails, DeleteShared, DeleteSharedFails
<1> QED BY <1>1, <1>2, <1>3, <1>4, <1>5, <1>6 DEF Next

LEMMA InOrderStep == TypeOK /\ Begun /\ InOrder /\ [Next]_vars => InOrder'
<1> SUFFICES ASSUME TypeOK, Begun, InOrder, [Next]_vars PROVE InOrder'
  OBVIOUS
<1>1. \A x \in Call : pc[x] # "new" => pc'[x] # "new" /\ arg'[x] = arg[x]
  BY BegunStep
<1>2. ASSUME NEW x \in Call, Publish(x) PROVE pc'[x] # "new" /\ local' = local
  BY <1>2 DEF Publish, TypeOK
<1>3. ASSUME NEW n \in Node, NEW x \in Call, local'[n][x] # "no" PROVE pc'[x] # "new"
  <2>1. CASE local'[n][x] = local[n][x]
    BY <1>1, <1>3, <2>1 DEF InOrder
  <2>2. CASE local'[n][x] # local[n][x]
    <3>1. ASSUME NEW type \in {"pattern", "tag"}, Invalidate(x, n, type)
          PROVE  pc'[x] # "new"
      BY <3>1 DEF Invalidate, Goto, TypeOK
    <3>2. CASE \/ DeleteCopy(n, x) \/ DeleteCopyFails(n, x)
               \/ DeleteShared(n, x) \/ DeleteSharedFails(n, x)
      <4>1. local[n][x] # "no"
        BY <3>2 DEF DeleteCopy, DeleteCopyFails, DeleteShared, DeleteSharedFails
      <4> QED BY <1>1, <4>1 DEF InOrder
    <3>3. CASE Deliver(n) /\ Head(queue[n]) = x
      <4>1. x \in ToSet(queue[n])
        BY <3>3, TailElements DEF Deliver, TypeOK
      <4> QED BY <1>1, <4>1 DEF InOrder
    <3> QED BY <2>2, <3>1, <3>2, <3>3, LocalStep
  <2> QED BY <2>1, <2>2
<1>4. ASSUME NEW n \in Node, NEW x \in Call, x \in ToSet(queue'[n]) PROVE pc'[x] # "new"
  <2>1. CASE x \in ToSet(queue[n])
    BY <1>1, <2>1 DEF InOrder
  <2> QED BY <1>2, <1>4, <2>1, QueueStep
<1>5. ASSUME NEW x \in Call, pc'[x] = "done"
      PROVE  local'[arg'[x].node][x] \in {"done", "skipped"}
  <2>1. CASE pc[x] # "done"
    <3>1. Publish(x)
      BY <1>5, <2>1, DoneStep
    <3> QED BY <3>1 DEF Publish, ToPublish
  <2>2. CASE pc[x] = "done"
    <3> DEFINE h == arg[x].node
    <3>1. h \in Node /\ arg'[x].node = h /\ local[h][x] \in {"done", "skipped"}
      BY <1>1, <2>2 DEF Begun, InOrder
    <3>2. local'[h][x] = local[h][x]
      <4> SUFFICES ASSUME local'[h][x] # local[h][x] PROVE FALSE
        OBVIOUS
      <4>1. ASSUME NEW type \in {"pattern", "tag"}, Invalidate(x, h, type) PROVE FALSE
        BY <2>2, <4>1 DEF Invalidate
      <4>2. CASE \/ DeleteCopy(h, x) \/ DeleteCopyFails(h, x)
                 \/ DeleteShared(h, x) \/ DeleteSharedFails(h, x)
        BY <3>1, <4>2 DEF DeleteCopy, DeleteCopyFails, DeleteShared, DeleteSharedFails
      <4> QED BY <3>1, <4>1, <4>2, LocalStep
    <3> QED BY <3>1, <3>2
  <2> QED BY <2>1, <2>2
<1> QED BY <1>3, <1>4, <1>5 DEF InOrder

\* What a fill reads while the shared level is clean is not old.
LEMMA FillIsFresh ==
    ASSUME TypeOK, Begun, NEW n \in Node, FillBegin(n),
           NEW x \in Call, pc[x] # "new", ~Old(shared, x)
    PROVE  ~Old(hand'[n], x)
<1>1. arg[x].version \in Nat /\ arg[x].version <= origin /\ origin \in Nat
  BY VersionAssumption DEF Begun, TypeOK
<1>2. CASE shared # None /\ hand' = [hand EXCEPT ![n] = [shared EXCEPT !.tagged = FALSE]]
  <2>1. shared \in Value /\ hand'[n] = [shared EXCEPT !.tagged = FALSE]
    BY <1>2 DEF TypeOK
  <2>2. hand'[n].late = shared.late /\ hand'[n].version = shared.version
    BY <2>1 DEF Value
  <2> QED BY <1>2, <2>2 DEF Old
<1>3. CASE hand' = [hand EXCEPT ![n] = [version |-> origin, late |-> {}, tagged |-> TRUE]]
  <2>1. hand'[n] = [version |-> origin, late |-> {}, tagged |-> TRUE]
    BY <1>3 DEF TypeOK
  <2> QED BY <1>1, <2>1 DEF Old
<1> QED BY <1>2, <1>3 DEF FillBegin

\* No fill and no deletion brings an old entry back.
LEMMA FillKeepsClear ==
    ASSUME TypeOK, Begun, NEW n \in Node,
           FillBegin(n) \/ Backfill(n) \/ Store(n) \/ WriteEnds(n),
           NEW x \in Call, pc[x] # "new", Cleared(x), arg'[x] = arg[x]
    PROVE  Cleared(x)'
<1>1. arg[x].version \in Nat /\ arg[x].version <= origin /\ origin \in Nat /\ arg[x].node \in Node
  BY VersionAssumption DEF Begun, TypeOK
<1>2. CASE FillBegin(n)
  <2>1. UNCHANGED <<shared, copy, write>>
    BY <1>2 DEF FillBegin
  <2>2. ~Old(hand'[n], x)
    BY <1>1, <1>2, FillIsFresh DEF Cleared
  <2>3. \A m \in Node : m # n => hand'[m] = hand[m]
    BY <1>2 DEF FillBegin, TypeOK
  <2> QED BY <2>1, <2>2, <2>3 DEF Cleared, Old, Stale, Reaches
<1>3. CASE Backfill(n)
  <2>1. UNCHANGED <<shared, write>> /\ hand' = [hand EXCEPT ![n] = None]
    BY <1>3 DEF Backfill
  <2>2. \A m \in Node : ~(Old(hand[m], x) /\ m = arg[x].node)
    BY DEF Cleared
  <2>3. copy'[arg[x].node] = copy[arg[x].node]
          \/ (n = arg[x].node /\ copy'[arg[x].node] = hand[n])
    BY <1>1, <1>3 DEF Backfill, TypeOK
  <2>4. ~Stale(arg[x].node, x)'
    BY <2>2, <2>3 DEF Cleared, Stale, Old, Reaches
  <2> QED BY <2>1, <2>4 DEF Cleared, Old, TypeOK
<1>4. CASE Store(n)
  <2>1. shared' = shared /\ hand' = [hand EXCEPT ![n] = None]
        /\ copy' = [copy EXCEPT ![n] = hand[n]] /\ write' = [write EXCEPT ![n] = hand[n]]
    BY <1>4 DEF Store
  <2>2. ~Old(hand[n], x)
    BY <1>4 DEF Store, Cleared
  <2>3. ~Stale(arg[x].node, x)'
    BY <1>1, <2>1, <2>2 DEF Cleared, Stale, Old, Reaches, TypeOK
  <2>4. \A m \in Node : ~Old(write'[m], x)
    BY <2>1, <2>2 DEF Cleared, TypeOK
  <2>5. \A m \in Node : Old(hand'[m], x) => ~hand'[m].tagged /\ m # arg[x].node
    BY <2>1 DEF Cleared, Old, TypeOK
  <2> QED BY <2>1, <2>3, <2>4, <2>5 DEF Cleared, Old
<1>5. CASE WriteEnds(n)
  <2>1. UNCHANGED <<copy, hand>> /\ write' = [write EXCEPT ![n] = None]
        /\ shared' \in {shared, write[n]}
    BY <1>5 DEF WriteEnds
  <2> QED BY <2>1 DEF Cleared, Old, Stale, Reaches, TypeOK
<1> QED BY <1>2, <1>3, <1>4, <1>5

LEMMA DeletionKeepsClear ==
    ASSUME TypeOK, Begun, NEW n \in Node, NEW y \in Call,
           DeleteCopy(n, y) \/ DeleteShared(n, y) \/ DeleteSharedFails(n, y),
           NEW x \in Call, pc[x] # "new", Cleared(x), arg'[x] = arg[x]
    PROVE  Cleared(x)'
<1>1. arg[x].node \in Node
  BY DEF Begun
<1>2. /\ shared \in Value \cup {None}
      /\ \A m \in Node : /\ copy[m] \in Value \cup {None}
                         /\ hand[m] \in Value \cup {None}
                         /\ write[m] \in Value \cup {None}
  BY DEF TypeOK
<1>3. shared' \in {None, shared, Late(shared, y)}
  BY DEF DeleteCopy, DeleteShared, DeleteSharedFails
<1>4. \A m \in Node : /\ hand'[m] \in {hand[m], Late(hand[m], y)}
                      /\ write'[m] \in {write[m], Late(write[m], y)}
  BY DEF DeleteCopy, DeleteShared, DeleteSharedFails, TypeOK
<1>5. \A m \in Node : copy'[m] \in {None, copy[m], Late(copy[m], y)}
  BY DEF DeleteCopy, DeleteShared, DeleteSharedFails, TypeOK
<1>6. ~Old(None, x)
  BY DEF Old
<1>7. ~Old(shared', x)
  BY <1>2, <1>3, <1>6, LateOld DEF Cleared
<1>8. \A m \in Node : ~Old(write'[m], x)
  BY <1>2, <1>4, LateOld DEF Cleared
<1>9. \A m \in Node : Old(hand'[m], x) => ~hand'[m].tagged /\ m # arg[x].node
  <2> SUFFICES ASSUME NEW m \in Node, Old(hand'[m], x)
               PROVE  ~hand'[m].tagged /\ m # arg[x].node
    OBVIOUS
  <2>1. Old(hand[m], x) /\ hand'[m].tagged = hand[m].tagged
    BY <1>2, <1>4, LateOld
  <2> QED BY <2>1 DEF Cleared
<1>10. ~Stale(arg[x].node, x)'
  <2> SUFFICES ASSUME Stale(arg[x].node, x)' PROVE FALSE
    OBVIOUS
  <2> DEFINE h == arg[x].node
  <2>1. Old(copy'[h], x) /\ (arg[x].type = "tag" => copy'[h].tagged)
    BY DEF Stale, Old, Reaches
  <2>2. Old(copy[h], x) /\ copy'[h].tagged = copy[h].tagged
    BY <1>1, <1>2, <1>5, <1>6, <2>1, LateOld
  <2> QED BY <2>1, <2>2 DEF Cleared, Stale, Reaches
<1> QED BY <1>7, <1>8, <1>9, <1>10 DEF Cleared, Old

LEMMA ClearedStep == TypeOK /\ Begun /\ InOrder /\ ClearedStaysClean /\ [Next]_vars
                     => ClearedStaysClean'
<1> SUFFICES ASSUME TypeOK, Begun, InOrder, ClearedStaysClean, [Next]_vars,
                    NEW x \in Call, pc'[x] # "new", local'[arg'[x].node][x] = "done"
             PROVE  Cleared(x)'
  BY DEF ClearedStaysClean
<1>0. TypeOK' /\ Begun'
  BY BegunStep, TypeStep
<1> DEFINE h == arg'[x].node
<1>1. h \in Node
  BY <1>0 DEF Begun
<1>2. CASE local[h][x] = "done"
  <2>1. pc[x] # "new"
    BY <1>1, <1>2 DEF InOrder
  <2>2. arg'[x] = arg[x]
    BY <2>1, BegunStep
  <2>3. Cleared(x)
    BY <1>2, <2>1, <2>2 DEF ClearedStaysClean
  <2>4. CASE UNCHANGED <<shared, copy, hand, write>>
    BY <2>2, <2>3, <2>4 DEF Cleared, Old, Stale, Reaches
  <2>5. CASE Update \/ UNCHANGED vars
    BY <2>4, <2>5 DEF Update, vars, entries
  <2>6. ASSUME NEW n \in Node,
               \/ Subscribe(n) \/ Disconnect(n) \/ Deliver(n)
               \/ Close(n) \/ Detach(n) \/ Quit(n)
        PROVE  UNCHANGED <<shared, copy, hand, write>>
    BY <2>6 DEF Subscribe, Disconnect, Deliver, Close, Detach, Quit, entries
  <2>7. ASSUME NEW y \in Call,
               \/ \E n \in Node, type \in {"pattern", "tag"} : Invalidate(y, n, type)
               \/ Publish(y) \/ PublishFails(y) \/ LocalFails(y)
               \/ \E n \in Node : DeleteCopyFails(n, y)
        PROVE  UNCHANGED <<shared, copy, hand, write>>
    BY <2>7 DEF Invalidate, Publish, PublishFails, LocalFails, DeleteCopyFails, entries
  <2> QED BY <2>1, <2>2, <2>3, <2>4, <2>5, <2>6, <2>7, FillKeepsClear, DeletionKeepsClear DEF Next
<1>3. CASE local[h][x] # "done"
  <2>1. DeleteShared(h, x)
    <3>1. ASSUME NEW type \in {"pattern", "tag"}, Invalidate(x, h, type) PROVE FALSE
      <4>1. local'[h][x] \in {"skipped", "copy"}
        BY <1>1, <3>1 DEF Invalidate, Local, Started, TypeOK
      <4> QED BY <4>1
    <3>2. CASE DeleteCopy(h, x) \/ DeleteCopyFails(h, x) \/ DeleteSharedFails(h, x)
      BY <1>1, <3>2 DEF DeleteCopy, DeleteCopyFails, DeleteSharedFails, Local, TypeOK
    <3> QED BY <1>1, <1>3, <3>1, <3>2, LocalStep
  <2>2. arg' = arg
    BY <2>1 DEF DeleteShared
  <2>3. /\ shared' \in {None, Late(shared, x)}
        /\ write' = [m \in Node |-> Late(write[m], x)]
        /\ copy'[h] = Late(copy[h], x)
    BY <1>1, <2>1, <2>2 DEF DeleteShared, TypeOK
  <2>4. \A m \in Node : \/ hand'[m] = Late(hand[m], x)
                         \/ /\ hand'[m] = hand[m] /\ m # h
                            /\ hand[m] = None \/ ~hand[m].tagged
    <3> DEFINE marked(m) == m = h \/ (hand[m] # None /\ hand[m].tagged)
    <3>1. hand' = [m \in Node |-> IF marked(m) THEN Late(hand[m], x) ELSE hand[m]]
      BY <2>1, <2>2 DEF DeleteShared
    <3>2. \A m \in Node : marked(m) \/ (m # h /\ (hand[m] = None \/ ~hand[m].tagged))
      OBVIOUS
    <3> HIDE DEF marked
    <3> QED BY <3>1, <3>2
  <2>5. /\ shared \in Value \cup {None}
        /\ \A m \in Node : /\ copy[m] \in Value \cup {None}
                           /\ hand[m] \in Value \cup {None}
                           /\ write[m] \in Value \cup {None}
    BY DEF TypeOK
  <2>6. ~Old(shared', x)
    <3>1. ~Old(None, x)
      BY DEF Old
    <3> QED BY <2>3, <2>5, <3>1, LateOld
  <2>7. \A m \in Node : ~Old(write'[m], x)
    BY <2>3, <2>5, LateOld
  <2>8. \A m \in Node : Old(hand'[m], x) => ~hand'[m].tagged /\ m # h
    BY <2>4, <2>5, LateOld DEF Old
  <2>9. ~Old(copy'[h], x)
    BY <1>1, <2>3, <2>5, LateOld
  <2> QED BY <2>2, <2>6, <2>7, <2>8, <2>9 DEF Cleared, Old, Stale
<1> QED BY <1>2, <1>3

\* Every message published is from then on followed, until the node has
\* dropped its own copy.
LEMMA PublishFollows ==
    ASSUME TypeOK, NEW n \in Node, NEW x \in Call, Publish(x)
    PROVE  Followed(n, x)'
<1>1. CASE Subscribed(n)
  <2>1. queue'[n] = Append(queue[n], x) /\ queue[n] \in Seq(Call)
    BY <1>1 DEF Publish, TypeOK
  <2>2. ToSet(Append(queue[n], x)) = ToSet(queue[n]) \cup {x}
    BY <2>1, AppendElements
  <2> QED BY <2>1, <2>2 DEF Followed
<1>2. CASE ~Subscribed(n)
  BY <1>2 DEF Publish, Followed, Excused
<1> QED BY <1>1, <1>2

\* A deletion leaves neither a copy it can find nor the hope that a fill under
\* way will be one.
LEMMA DeletionDrops ==
    ASSUME TypeOK, NEW n \in Node, NEW x \in Call, DeleteCopy(n, x)
    PROVE  ~Holds(n, x)'
<1>1. arg' = arg
  BY DEF DeleteCopy
<1>2. ~Stale(n, x)'
  <2>1. CASE copy[n] # None /\ Reaches(x, copy[n])
    <3>1. copy'[n] = None
      BY <2>1 DEF DeleteCopy, TypeOK
    <3> QED BY <3>1 DEF Stale, Old
  <2>2. CASE ~(copy[n] # None /\ Reaches(x, copy[n]))
    <3>1. copy' = copy
      BY <2>2 DEF DeleteCopy
    <3> QED BY <1>1, <2>2, <3>1 DEF Stale, Old, Reaches
  <2> QED BY <2>1, <2>2
<1>3. hand'[n] = Late(hand[n], x) /\ hand[n] \in Value \cup {None}
  BY DEF DeleteCopy, TypeOK
<1>4. ~Old(hand[n], x)'
  BY <1>1, <1>3, LateOld DEF Old
<1> QED BY <1>2, <1>4 DEF Holds

LEMMA FollowedStays ==
    ASSUME TypeOK, [Next]_vars, NEW n \in Node, NEW x \in Call, pc[x] = "done",
           arg[x].node \in Node, arg[x].node # n, Followed(n, x)
    PROVE  Followed(n, x)' \/ ~Holds(n, x)'
<1>1. missed \subseteq missed'
  <2>1. ASSUME NEW m \in Node, Disconnect(m) \/ Detach(m)
        PROVE  missed \subseteq missed'
    BY <2>1 DEF Disconnect, Detach, Lose
  <2>2. ASSUME NEW y \in Call, Publish(y)
        PROVE  missed \subseteq missed'
    BY <2>2 DEF Publish
  <2>3. ASSUME NEW m \in Node,
               \/ FillBegin(m) \/ Backfill(m) \/ Store(m) \/ WriteEnds(m) \/ Subscribe(m)
               \/ Deliver(m) \/ Close(m) \/ Quit(m)
        PROVE  missed' = missed
    BY <2>3 DEF FillBegin, Backfill, Store, WriteEnds, Subscribe, Deliver, Close, Quit, network
  <2>4. ASSUME NEW m \in Node, NEW y \in Call,
               \/ DeleteCopy(m, y) \/ DeleteCopyFails(m, y)
               \/ DeleteShared(m, y) \/ DeleteSharedFails(m, y)
        PROVE  missed' = missed
    BY <2>4 DEF DeleteCopy, DeleteCopyFails, DeleteShared, DeleteSharedFails, network
  <2>5. ASSUME NEW y \in Call,
               \/ \E m \in Node, type \in {"pattern", "tag"} : Invalidate(y, m, type)
               \/ LocalFails(y) \/ PublishFails(y)
        PROVE  missed' = missed
    BY <2>5 DEF Invalidate, LocalFails, PublishFails, network
  <2>6. CASE Update \/ UNCHANGED vars
    BY <2>6 DEF Update, vars, network
  <2> QED BY <2>1, <2>2, <2>3, <2>4, <2>5, <2>6 DEF Next
<1>2. CASE <<n, x>> \in missed
  BY <1>1, <1>2 DEF Followed, Excused
<1>3. CASE local'[n][x] # local[n][x]
  <2>1. ASSUME NEW type \in {"pattern", "tag"}, Invalidate(x, n, type) PROVE FALSE
    BY <2>1 DEF Invalidate
  <2>2. CASE DeleteCopy(n, x)
    BY <2>2, DeletionDrops
  <2>3. CASE DeleteCopyFails(n, x)
    BY <2>3 DEF DeleteCopyFails, Local, TypeOK, Followed, Excused
  <2>4. CASE DeleteShared(n, x) \/ DeleteSharedFails(n, x)
    <3>1. local[n][x] = "shared" /\ queue' = queue
      BY <2>4 DEF DeleteShared, DeleteSharedFails, network
    <3>2. <<n, x>> \in missed \/ x \in ToSet(queue[n])
      BY <3>1 DEF Followed, Excused
    <3> QED BY <1>2, <3>1, <3>2 DEF Followed
  <2>5. CASE local'[n][x] \in {"copy", "skipped"}
    BY <2>5 DEF Followed, Excused
  <2> QED BY <1>3, <2>1, <2>2, <2>3, <2>4, <2>5, LocalStep
<1>4. CASE local'[n][x] = local[n][x] /\ local[n][x] \in {"failed", "skipped", "copy"}
  BY <1>4 DEF Followed, Excused
<1>5. CASE local'[n][x] = local[n][x] /\ x \in ToSet(queue[n])
  <2>1. queue \in [Node -> Seq(Call)]
    BY DEF TypeOK
  <2>2. ASSUME NEW m \in Node, Deliver(m) PROVE Followed(n, x)'
    <3>1. /\ queue' = [queue EXCEPT ![m] = Tail(queue[m])]
          /\ queue[m] # <<>>
      BY <2>2 DEF Deliver
    <3>2. CASE m = n /\ Head(queue[n]) = x
      <4>1. local' = [local EXCEPT ![n][x] = Started(n, arg[x].type)]
        BY <2>2, <3>2 DEF Deliver, Local
      <4>2. local'[n][x] \in {"copy", "skipped"}
        BY <4>1 DEF Started, TypeOK
      <4> QED BY <4>2 DEF Followed, Excused
    <3>3. CASE m = n /\ Head(queue[n]) # x
      <4>1. ToSet(queue[n]) = ToSet(Tail(queue[n])) \cup {Head(queue[n])}
        BY <2>1, <3>1, <3>3, TailElements
      <4> QED BY <1>5, <2>1, <3>1, <3>3, <4>1 DEF Followed
    <3>4. CASE m # n
      BY <1>5, <2>1, <3>1, <3>4 DEF Followed
    <3> QED BY <3>2, <3>3, <3>4
  <2>3. ASSUME NEW m \in Node, Disconnect(m) \/ Detach(m) PROVE Followed(n, x)'
    <3>1. Lose(m)
      BY <2>3 DEF Disconnect, Detach
    <3> QED BY <1>5, <2>1, <3>1 DEF Lose, Followed, Excused
  <2>4. ASSUME NEW y \in Call, Publish(y) PROVE Followed(n, x)'
    <3>1. queue'[n] \in {queue[n], Append(queue[n], y)}
      BY <2>4 DEF Publish
    <3>2. ToSet(Append(queue[n], y)) = ToSet(queue[n]) \cup {y}
      BY <2>1, AppendElements
    <3> QED BY <1>5, <3>1, <3>2 DEF Followed
  <2>5. CASE queue' = queue
    BY <1>5, <2>5 DEF Followed
  <2>6. CASE Update \/ UNCHANGED vars
    BY <2>5, <2>6 DEF Update, vars, network
  <2>7. ASSUME NEW m \in Node,
               FillBegin(m) \/ Backfill(m) \/ Store(m) \/ WriteEnds(m) \/ Subscribe(m) \/ Close(m) \/ Quit(m)
        PROVE  queue' = queue
    BY <2>7 DEF FillBegin, Backfill, Store, WriteEnds, Subscribe, Close, Quit, network
  <2>8. ASSUME NEW m \in Node, NEW y \in Call,
               \/ DeleteCopy(m, y) \/ DeleteCopyFails(m, y)
               \/ DeleteShared(m, y) \/ DeleteSharedFails(m, y)
        PROVE  queue' = queue
    BY <2>8 DEF DeleteCopy, DeleteCopyFails, DeleteShared, DeleteSharedFails, network
  <2>9. ASSUME NEW y \in Call,
               \/ \E m \in Node, type \in {"pattern", "tag"} : Invalidate(y, m, type)
               \/ LocalFails(y) \/ PublishFails(y)
        PROVE  queue' = queue
    BY <2>9 DEF Invalidate, LocalFails, PublishFails, network
  <2> QED BY <2>2, <2>3, <2>4, <2>5, <2>6, <2>7, <2>8, <2>9 DEF Next
<1> QED BY <1>2, <1>3, <1>4, <1>5 DEF Followed, Excused

\* A node comes to hold an old entry only if it held it already.
LEMMA HoldsStep ==
    ASSUME TypeOK, Begun, [Next]_vars, NEW n \in Node, NEW x \in Call, pc[x] # "new",
           Cleared(x), arg'[x] = arg[x], Holds(n, x)'
    PROVE  Holds(n, x)
<1>1. \/ Old(copy'[n], x) /\ Reaches(x, copy'[n])
      \/ Old(hand'[n], x) /\ Reaches(x, hand'[n])
  BY DEF Holds, Stale, Old, Reaches
<1>2. ASSUME NEW m \in Node, FillBegin(m) PROVE Holds(n, x)
  <2>1. copy' = copy /\ (m # n => hand'[n] = hand[n])
    BY <1>2 DEF FillBegin, TypeOK
  <2>2. m = n => ~Old(hand'[n], x)
    BY <1>2, FillIsFresh DEF Cleared
  <2> QED BY <1>1, <2>1, <2>2 DEF Holds, Stale
<1>3. ASSUME NEW m \in Node, Backfill(m) \/ Store(m) PROVE Holds(n, x)
  <2>1. copy'[n] \in {copy[n], hand[n]} /\ hand'[n] \in {hand[n], None}
    BY <1>3 DEF Backfill, Store, TypeOK
  <2>2. ~Old(None, x)
    BY DEF Old
  <2> QED BY <1>1, <2>1, <2>2 DEF Holds, Stale
<1>4. ASSUME NEW m \in Node, NEW y \in Call, DeleteCopy(m, y) \/ DeleteShared(m, y)
      PROVE  Holds(n, x)
  <2>1. /\ copy'[n] \in {None, copy[n], Late(copy[n], y)}
        /\ hand'[n] \in {hand[n], Late(hand[n], y)}
    BY <1>4 DEF DeleteCopy, DeleteShared, TypeOK
  <2>2. copy[n] \in Value \cup {None} /\ hand[n] \in Value \cup {None}
    BY DEF TypeOK
  <2>3. ~Old(None, x)
    BY DEF Old
  <2>4. Old(copy'[n], x) => Old(copy[n], x) /\ copy'[n].tagged = copy[n].tagged
    BY <2>1, <2>2, <2>3, LateOld
  <2>5. Old(hand'[n], x) => Old(hand[n], x) /\ hand'[n].tagged = hand[n].tagged
    BY <2>1, <2>2, LateOld
  <2> QED BY <1>1, <2>4, <2>5 DEF Holds, Stale, Reaches
<1>5. CASE UNCHANGED <<copy, hand>>
  BY <1>1, <1>5 DEF Holds, Stale
<1>6. CASE Update \/ UNCHANGED vars
  BY <1>5, <1>6 DEF Update, vars, entries
<1>7. ASSUME NEW m \in Node,
             \/ WriteEnds(m) \/ Subscribe(m) \/ Disconnect(m) \/ Deliver(m)
             \/ Close(m) \/ Detach(m) \/ Quit(m)
      PROVE  UNCHANGED <<copy, hand>>
  BY <1>7 DEF WriteEnds, Subscribe, Disconnect, Deliver, Close, Detach, Quit, entries
<1>8. ASSUME NEW y \in Call,
             \/ \E m \in Node, type \in {"pattern", "tag"} : Invalidate(y, m, type)
             \/ Publish(y) \/ PublishFails(y) \/ LocalFails(y)
             \/ \E m \in Node : DeleteCopyFails(m, y) \/ DeleteSharedFails(m, y)
      PROVE  UNCHANGED <<copy, hand>>
  BY <1>8 DEF Invalidate, Publish, PublishFails, LocalFails, DeleteCopyFails,
              DeleteSharedFails, entries
<1> QED BY <1>2, <1>3, <1>4, <1>5, <1>6, <1>7, <1>8 DEF Next

LEMMA FollowedStep == IInv /\ [Next]_vars => HeldAreFollowed'
<1> SUFFICES ASSUME IInv, [Next]_vars,
                    NEW n \in Node, NEW x \in Call, Effective(x)', Holds(n, x)'
             PROVE  n # arg'[x].node /\ Followed(n, x)'
  BY DEF HeldAreFollowed
<1>0. TypeOK /\ Begun /\ InOrder /\ ClearedStaysClean /\ HeldAreFollowed
  BY DEF IInv
<1>1. n # arg'[x].node
  <2>1. Cleared(x)'
    BY <1>0, ClearedStep DEF ClearedStaysClean, Effective
  <2> QED BY <2>1 DEF Cleared, Holds
<1>2. CASE pc[x] # "done"
  <2>1. Publish(x)
    BY <1>0, <1>2, DoneStep DEF Effective
  <2> QED BY <1>0, <1>1, <2>1, PublishFollows
<1>3. CASE pc[x] = "done"
  <2>1. arg'[x] = arg[x] /\ arg[x].node \in Node
    BY <1>0, <1>3, BegunStep DEF Begun
  <2>2. local[arg[x].node][x] = "done"
    <3>1. local[arg[x].node][x] \in {"done", "skipped"}
      BY <1>0, <1>3 DEF InOrder
    <3>2. local[arg[x].node][x] # "skipped"
      <4> SUFFICES ASSUME local[arg[x].node][x] = "skipped" PROVE FALSE
        OBVIOUS
      <4>1. local'[arg[x].node][x] = "done"
        BY <2>1 DEF Effective
      <4>2. DeleteShared(arg[x].node, x) \/ DeleteSharedFails(arg[x].node, x)
              \/ DeleteCopy(arg[x].node, x) \/ DeleteCopyFails(arg[x].node, x)
              \/ \E type \in {"pattern", "tag"} : Invalidate(x, arg[x].node, type)
        BY <1>0, <2>1, <4>1, LocalStep
      <4> QED BY <1>3, <4>2
              DEF DeleteShared, DeleteSharedFails, DeleteCopy, DeleteCopyFails, Invalidate
    <3> QED BY <3>1, <3>2
  <2>3. Cleared(x)
    BY <1>0, <1>3, <2>2 DEF ClearedStaysClean
  <2>4. Holds(n, x)
    BY <1>0, <1>3, <2>1, <2>3, HoldsStep
  <2>5. Followed(n, x)
    BY <1>0, <1>3, <2>2, <2>4 DEF HeldAreFollowed, Effective
  <2>6. Followed(n, x)' \/ ~Holds(n, x)'
    BY <1>0, <1>1, <1>3, <2>1, <2>5, FollowedStays
  <2> QED BY <1>1, <2>6
<1> QED BY <1>2, <1>3

LEMMA InvStep == IInv /\ [Next]_vars => IInv'
  BY TypeStep, BegunStep, InOrderStep, ClearedStep, FollowedStep DEF IInv

LEMMA Invariance == Spec => []IInv
<1>1. Init => IInv
  BY TypeInit, InvInit DEF IInv
<1> QED BY <1>1, InvStep, PTL DEF Spec

\* However many nodes and calls there are: after an invalidation has returned,
\* its own node keeps no old copy that it could find by the pattern or the tag,
\* and a node that does, and is not excused, has the message on its way to it
\* or in its hands.
THEOREM OldCopiesAreFollowedCorrect == Spec => []OldCopiesAreFollowed
<1>1. IInv => OldCopiesAreFollowed
  BY DEF IInv, HeldAreFollowed, OldCopiesAreFollowed, Followed, Holds
<1> QED BY <1>1, Invariance, PTL

\* Once an invalidation has cleared the shared level, no old entry comes out
\* of it again, by whatever fills and writes were under way, nor into the
\* node that made it, other than a copy without tags that a tag cannot find:
\* that is why the message may be published after it, and only after it.
THEOREM ClearedStaysCleanCorrect == Spec => []ClearedStaysClean
<1>1. IInv => ClearedStaysClean
  BY DEF IInv
<1> QED BY <1>1, Invariance, PTL

=============================================================================
