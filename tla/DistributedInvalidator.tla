------------------------- MODULE DistributedInvalidator -------------------------
(***************************************************************************)
(* src/src/distributed-invalidator.ts: service instances (nodes) that tell *)
(* one another over Redis Pub/Sub what to drop from their caches.  A call  *)
(* of invalidate() or invalidateTag() first invalidates the node's own     *)
(* cache, then publishes; the other nodes do to their caches what the      *)
(* message says.                                                           *)
(*                                                                         *)
(* The invalidated entry is the data of one origin, which the application  *)
(* changes before it invalidates, and which every node keeps a copy of in  *)
(* a MultiLevelCache (src/src/multi-level-cache.ts): a level of its own,   *)
(* and one shared by all nodes.  The application gives the entry its tag   *)
(* whenever it stores it.  Caches fill themselves while this goes on.      *)
(*                                                                         *)
(* Pub/Sub keeps nothing: a node gets the messages published while it is   *)
(* subscribed, in their order, as long as its connection lasts.            *)
(***************************************************************************)
EXTENDS Integers, Sequences, SequencesExt

CONSTANTS
    Node,
    Call,           \* the calls of invalidate(), invalidatePattern(), invalidateTag()
    TagCaches,      \* the sets of nodes whose caches may be those with invalidateByTag()
    OwnsPub,        \* the nodes that made their publishing connection
    Throwing,       \* the nodes whose cache has remoteInvalidationErrors: "throw"
    Closing,        \* the nodes that may be closed
    Unsteady,       \* the nodes whose connection may fail
    Asks,           \* per call, the nodes it may be made on and what it may invalidate
    MaxVersion,     \* bound on the changes of the origin
    None

ASSUME TagCachesAssumption == TagCaches \subseteq SUBSET Node
ASSUME NodesAssumption == OwnsPub \cup Throwing \cup Closing \cup Unsteady \subseteq Node
ASSUME AsksAssumption == Asks \in [Call -> SUBSET (Node \X {"pattern", "tag"})]
ASSUME VersionAssumption == MaxVersion \in Nat

VARIABLES
    tagging,    \* the nodes whose cache has invalidateByTag(); it never changes
    origin,     \* the version of the data
    shared,     \* the entry in the shared level, or None
    copy,       \* per node, the entry in its own level, or None
    hand,       \* per node, the entry a fill has read and not yet stored, or None
    write,      \* per node, the entry it is writing to the shared level, or None
    sub,        \* per node, its subscription: "starting", "on" or "off"
    stage,      \* per node, how far close() is
    queue,      \* per node, the messages on their way to it
    pc,         \* per call, where it is
    arg,        \* per call, its node, what it invalidates, the version it is for
    local,      \* per node and call, the invalidation of the node's cache
    \* history:
    missed      \* nodes and calls whose message was not, or will not be, received

entries == <<origin, shared, copy, hand, write, tagging>>
network == <<sub, stage, queue, missed, tagging>>
vars == <<entries, network, pc, arg, local>>

\* An entry is tagged if it is stored by set(), or will be: the shared level's
\* are, a node's own ones may not be, for a backfill stores no tags.
\* "late" holds the calls that could not have dropped the entry (history): a
\* fill had read it before the deletion and stores it after, a deletion from
\* the shared level failed and was ignored, or the caller's own node took it
\* from the shared level before the call cleared that.
Value == [version : 0..MaxVersion, late : SUBSET Call, tagged : BOOLEAN]

TypeOK ==
    /\ tagging \subseteq Node
    /\ origin \in 0..MaxVersion
    /\ shared \in Value \cup {None}
    /\ copy \in [Node -> Value \cup {None}]
    /\ hand \in [Node -> Value \cup {None}]
    /\ write \in [Node -> Value \cup {None}]
    /\ sub \in [Node -> {"starting", "on", "off"}]
    /\ stage \in [Node -> {"open", "closing", "detached", "closed"}]
    /\ queue \in [Node -> Seq(Call)]
    /\ \A n \in Node : queue[n] # <<>> => stage[n] \in {"open", "closing"}
    /\ pc \in [Call -> {"new", "local", "done", "failed"}]
    /\ arg \in [Call -> [node : Node, type : {"pattern", "tag"}, version : 0..MaxVersion] \cup {None}]
    /\ local \in [Node -> [Call -> {"no", "copy", "shared", "done", "failed", "thrown", "skipped"}]]
    /\ missed \subseteq Node \X Call

Init ==
    /\ tagging \in TagCaches
    /\ origin = 0
    /\ shared = None
    /\ copy = [n \in Node |-> None]
    /\ hand = [n \in Node |-> None]
    /\ write = [n \in Node |-> None]
    /\ sub = [n \in Node |-> "starting"]
    /\ stage = [n \in Node |-> "open"]
    /\ queue = [n \in Node |-> <<>>]
    /\ pc = [x \in Call |-> "new"]
    /\ arg = [x \in Call |-> None]
    /\ local = [n \in Node |-> [x \in Call |-> "no"]]
    /\ missed = {}

Goto(x, l) == pc' = [pc EXCEPT ![x] = l]
Local(n, x, l) == local' = [local EXCEPT ![n][x] = l]

\* An entry the deletion for call x comes too early for, or fails to delete.
Late(e, x) ==
    IF e # None /\ e.version < arg[x].version THEN [e EXCEPT !.late = @ \cup {x}] ELSE e

\* The index of a node's own level finds an entry by a tag only if it was
\* stored with it.
Reaches(x, e) == arg[x].type = "tag" => e.tagged

\* What becomes of an error of the shared level.
Ignored(n, x) == arg[x].type = "pattern" \/ n \notin Throwing

\* _invalidatePatternLocal(), or _invalidateTagLocal() with a cache that
\* has no tags, which is an error that is not thrown.
Started(n, type) == IF type = "tag" /\ n \notin tagging THEN "skipped" ELSE "copy"

\* The messages that node n will not receive any more.
Lose(n) ==
    /\ queue' = [queue EXCEPT ![n] = <<>>]
    /\ missed' = missed \cup {<<n, x>> : x \in ToSet(queue[n])}

Subscribed(n) == sub[n] = "on" /\ stage[n] \in {"open", "closing"}

-----------------------------------------------------------------------------
(* Mutants: how the code could be wrong.                                   *)

\* The message is published before the node's own cache is invalidated.
ToPublishEarly(x) == pc[x] = "local"

\* close() leaves the message listener on the connection.
DetachNot(n) ==
    /\ stage[n] = "closing"
    /\ stage' = [stage EXCEPT ![n] = "detached"]
    /\ UNCHANGED <<entries, sub, queue, missed, pc, arg, local>>

-----------------------------------------------------------------------------
(* The caches.                                                             *)

\* The application changes its data.
Update ==
    /\ origin < MaxVersion
    /\ origin' = origin + 1
    /\ UNCHANGED <<shared, copy, hand, write, network, pc, arg, local>>

\* get(), after a miss in the node's own level, finds the entry in the shared
\* one; or there is none, or no answer in time, and the application goes to
\* the origin.
FillBegin(n) ==
    /\ copy[n] = None /\ hand[n] = None
    /\ \/ /\ shared # None
          /\ hand' = [hand EXCEPT ![n] = [shared EXCEPT !.tagged = FALSE]]
       \/ hand' = [hand EXCEPT ![n] = [version |-> origin, late |-> {}, tagged |-> TRUE]]
    /\ UNCHANGED <<origin, shared, copy, write, network, pc, arg, local>>

\* The rest of get(): the copy, without tags, unless the ttl query says that
\* the entry is gone, or the write fails.
Backfill(n) ==
    /\ hand[n] # None /\ ~hand[n].tagged
    /\ copy' \in {copy, [copy EXCEPT ![n] = hand[n]]}
    /\ hand' = [hand EXCEPT ![n] = None]
    /\ UNCHANGED <<origin, shared, write, network, pc, arg, local>>

\* set(): the node's own level at once, and a write to the shared one.
Store(n) ==
    /\ hand[n] # None /\ hand[n].tagged /\ write[n] = None
    /\ copy' = [copy EXCEPT ![n] = hand[n]]
    /\ write' = [write EXCEPT ![n] = hand[n]]
    /\ hand' = [hand EXCEPT ![n] = None]
    /\ UNCHANGED <<origin, shared, network, pc, arg, local>>

\* The write to the shared level arrives, or fails.
WriteEnds(n) ==
    /\ write[n] # None
    /\ shared' \in {shared, write[n]}
    /\ write' = [write EXCEPT ![n] = None]
    /\ UNCHANGED <<origin, copy, hand, network, pc, arg, local>>

\* delPattern() or invalidateByTag() of the node's cache: its own level first.
\* An error there ends the invalidation.
DeleteCopy(n, x) ==
    /\ local[n][x] = "copy"
    /\ copy' = IF copy[n] # None /\ Reaches(x, copy[n]) THEN [copy EXCEPT ![n] = None] ELSE copy
    /\ hand' = [hand EXCEPT ![n] = Late(hand[n], x)]
    /\ Local(n, x, "shared")
    /\ UNCHANGED <<origin, shared, write, network, pc, arg>>

DeleteCopyFails(n, x) ==
    /\ local[n][x] = "copy"
    /\ Local(n, x, "failed")
    /\ UNCHANGED <<entries, network, pc, arg>>

\* Then the shared level, in which all entries have their tag. What is under
\* way when the call's own node does it comes after it; what other nodes do
\* for the call is later still.
DeleteShared(n, x) ==
    /\ local[n][x] = "shared"
    /\ \/ shared' = None
       \/ Ignored(n, x) /\ shared' = Late(shared, x)
    /\ IF n = arg[x].node
         THEN /\ copy' = [copy EXCEPT ![n] = Late(copy[n], x)]
              /\ hand' = [m \in Node |->
                    IF m = n \/ (hand[m] # None /\ hand[m].tagged) THEN Late(hand[m], x) ELSE hand[m]]
              /\ write' = [m \in Node |-> Late(write[m], x)]
         ELSE UNCHANGED <<copy, hand, write>>
    /\ Local(n, x, "done")
    /\ UNCHANGED <<origin, network, pc, arg>>

\* An error of invalidateByTag() that is thrown; the deletion may have been
\* made all the same.
DeleteSharedFails(n, x) ==
    /\ local[n][x] = "shared" /\ ~Ignored(n, x)
    /\ shared' \in {None, shared}
    /\ Local(n, x, "thrown")
    /\ UNCHANGED <<origin, copy, hand, write, network, pc, arg>>

-----------------------------------------------------------------------------
(* invalidate() and invalidateTag().                                       *)

Invalidate(x, n, type) ==
    /\ pc[x] = "new" /\ <<n, type>> \in Asks[x]
    /\ arg' = [arg EXCEPT ![x] = [node |-> n, type |-> type, version |-> origin]]
    /\ Local(n, x, Started(n, type))
    /\ Goto(x, "local")
    /\ UNCHANGED <<entries, network>>

\* The call's own node has done what it could, without an error.
ToPublish(x) ==
    /\ pc[x] = "local"
    /\ local[arg[x].node][x] \in {"done", "skipped"}

\* PUBLISH reaches the nodes subscribed at this moment. Its answer may be
\* lost, and the call fails then.
Publish(x) ==
    /\ ToPublish(x)
    /\ ~(arg[x].node \in OwnsPub /\ stage[arg[x].node] = "closed")
    /\ queue' = [n \in Node |-> IF Subscribed(n) THEN Append(queue[n], x) ELSE queue[n]]
    /\ missed' = missed \cup {<<n, x>> : n \in {m \in Node : ~Subscribed(m)}}
    /\ pc' \in {[pc EXCEPT ![x] = "done"], [pc EXCEPT ![x] = "failed"]}
    /\ UNCHANGED <<entries, sub, stage, arg, local>>

PublishFails(x) ==
    /\ ToPublish(x)
    /\ Goto(x, "failed")
    /\ UNCHANGED <<entries, network, arg, local>>

\* The error of the local invalidation is thrown, and nothing published.
LocalFails(x) ==
    /\ pc[x] = "local"
    /\ local[arg[x].node][x] \in {"failed", "thrown"}
    /\ Goto(x, "failed")
    /\ UNCHANGED <<entries, network, arg, local>>

-----------------------------------------------------------------------------
(* The subscription.                                                       *)

\* The answer to SUBSCRIBE; an error is counted and nothing more.
Subscribe(n) ==
    /\ sub[n] = "starting" /\ stage[n] = "open"
    /\ \/ sub' = [sub EXCEPT ![n] = "on"]
       \/ n \in Unsteady /\ sub' = [sub EXCEPT ![n] = "off"]
    /\ UNCHANGED <<entries, stage, queue, missed, pc, arg, local>>

\* The connection is lost; the client connects and subscribes again.
Disconnect(n) ==
    /\ n \in Unsteady /\ Subscribed(n)
    /\ sub' = [sub EXCEPT ![n] = "starting"]
    /\ Lose(n)
    /\ UNCHANGED <<entries, stage, pc, arg, local>>

\* _handleMessage(): a node ignores its own messages; the invalidation it
\* starts for another's is not awaited, so that several may run at a time.
Deliver(n) ==
    /\ stage[n] \in {"open", "closing"}
    /\ queue[n] # <<>>
    /\ LET x == Head(queue[n])
       IN  IF arg[x].node = n
             THEN UNCHANGED local
             ELSE Local(n, x, Started(n, arg[x].type))
    /\ queue' = [queue EXCEPT ![n] = Tail(@)]
    /\ UNCHANGED <<entries, sub, stage, missed, pc, arg>>

\* close(): UNSUBSCRIBE takes effect, or fails, which is ignored.
Close(n) ==
    /\ n \in Closing /\ stage[n] = "open"
    /\ stage' = [stage EXCEPT ![n] = "closing"]
    /\ sub' \in {sub, [sub EXCEPT ![n] = "off"]}
    /\ UNCHANGED <<entries, queue, missed, pc, arg, local>>

\* The answer to UNSUBSCRIBE comes after the messages published before it.
Detach(n) ==
    /\ stage[n] = "closing"
    /\ sub[n] = "off" => queue[n] = <<>>
    /\ stage' = [stage EXCEPT ![n] = "detached"]
    /\ Lose(n)
    /\ UNCHANGED <<entries, sub, pc, arg, local>>

\* The connections are closed, the publishing one if the node made it.
Quit(n) ==
    /\ stage[n] = "detached"
    /\ stage' = [stage EXCEPT ![n] = "closed"]
    /\ sub' = [sub EXCEPT ![n] = "off"]
    /\ UNCHANGED <<entries, queue, missed, pc, arg, local>>

Next ==
    \/ Update
    \/ \E n \in Node :
          \/ FillBegin(n) \/ Backfill(n) \/ Store(n) \/ WriteEnds(n)
          \/ Subscribe(n) \/ Disconnect(n) \/ Deliver(n)
          \/ Close(n) \/ Detach(n) \/ Quit(n)
          \/ \E x \in Call :
                \/ DeleteCopy(n, x) \/ DeleteCopyFails(n, x)
                \/ DeleteShared(n, x) \/ DeleteSharedFails(n, x)
                \/ \E type \in {"pattern", "tag"} : Invalidate(x, n, type)
    \/ \E x \in Call : LocalFails(x) \/ Publish(x) \/ PublishFails(x)

Spec == Init /\ [][Next]_vars

-----------------------------------------------------------------------------
(* Properties.                                                             *)

\* A call that has returned, and whose own node could do what it asks for.
Effective(x) == pc[x] = "done" /\ local[arg[x].node][x] = "done"

\* An entry that call x was to drop, wherever it came upon it.
Old(e, x) == e # None /\ x \notin e.late /\ e.version < arg[x].version

\* The node keeps a copy that the call was to drop and can find by its tag.
Stale(n, x) == Old(copy[n], x) /\ Reaches(x, copy[n])

\* The message of the call did not reach the node, or the node could not begin
\* to act on it.
Excused(n, x) == <<n, x>> \in missed \/ local[n][x] \in {"failed", "skipped"}

\* After an invalidation has returned, its own node keeps no old copy. Another
\* node that has one, or gets one again by a fill that had read it, is going
\* to drop it: the message is on its way to it or being handled. The
\* exceptions are the nodes the message misses, what is marked late and, for
\* a tag, the copies that came from the shared level and have no tags. The
\* shared level must be clean before the message goes out, and no write under
\* way may bring the old entry back to it.
OldCopiesAreFollowed ==
    \A n \in Node, x \in Call :
        Effective(x) /\ Stale(n, x) =>
            /\ n # arg[x].node
            /\ Excused(n, x) \/ x \in ToSet(queue[n]) \/ local[n][x] = "copy"

=============================================================================
