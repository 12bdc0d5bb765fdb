-------------------------- MODULE RedisAdapterProofs --------------------------
(***************************************************************************)
(* Proofs about RedisAdapter, for any keys, tags, ttls, any number of      *)
(* clients, and any moments at which keys expire and processes die.        *)
(*                                                                         *)
(* A method is a queue of commands still to send, so the invariant speaks  *)
(* of what these commands will do.  It comes in three parts: the shape of  *)
(* one client's queue (Shape), which holds whatever the other clients do;  *)
(* and, as long as calls do not overlap, what the commands owe to the      *)
(* index (Debts) and what an invalidation will delete (Aiming).            *)
(***************************************************************************)
EXTENDS RedisAdapter, FiniteSetTheorems, TLAPS

-----------------------------------------------------------------------------
(* The queues.                                                             *)

\* A clean-up of a key's index entries with no tag left out.
CleansAll(a) == a.do = "smembers" /\ a.skip = NoTag

\* What can be in a queue somewhere behind a command `a`.
MayFollow(a, b) ==
    /\ a.do \notin {"tagScan", "scan", "delTag"}
    /\ a.do = "set" =>
            \/ CleansAll(b)
            \/ b.do = "prune"
            \/ b.do = "tag" /\ b.key \in a.keys /\ b.tags = a.tags /\ b.ttl = a.ttl
    /\ CleansAll(a) => CleansAll(b) \/ b.do \in {"tag", "prune", "del"}
    /\ a.do \in {"smembers", "untag"} => b.do \notin {"set", "scan", "tagScan", "untag"}
    /\ a.do = "smembers" /\ a.skip # NoTag => b.do # "tag"
    /\ a.do \in {"tag", "prune"} => b.do = "prune"
    /\ a.do \in {"pruneCheck", "srem"} => b.do \in {"pruneCheck", "prune"}
    /\ a.do = "tagCheck" =>
            \/ b.do = "smembers" /\ b.skip = a.tag
            \/ b.do \in {"tagCheck", "delTag"} /\ b.tag = a.tag
            \/ b.do = "del"
    /\ a.do = "del" => b.do = "delTag"

Ordered(q) == \A i, j \in 1..Len(q) : i < j => MayFollow(q[i], q[j])

\* Behind the members still to look up, the deletion of those found and then
\* that of the tag's set.
Closing(q) ==
    \A i \in 1..Len(q) : q[i].do = "tagCheck" =>
        /\ i < Len(q) - 1
        /\ q[Len(q) - 1].do = "del"
        /\ q[Len(q)].do = "delTag" /\ q[Len(q)].tag = q[i].tag

Shape ==
    /\ todo \in [Client -> Seq(Cmds)]
    /\ \A c \in Client : Ordered(todo[c]) /\ Closing(todo[c])

-----------------------------------------------------------------------------
(* The index.                                                              *)

\* The commands still to send.
Pending == UNION {ToSet(todo[c]) : c \in Client}

\* Calls do not overlap: at most one client is in a method, and none calls one
\* while another is.
Turns == \A c, d \in Client : c = d \/ todo[c] = <<>> \/ todo[d] = <<>>
InTurn ==
    \A c \in Client : Invoke(c) => \A d \in Client \ {c} : todo[d] = <<>>

\* A pending command will write or delete the key; clean up all its index
\* entries; add it to the tag; take it out of this tag among others; clean up some
\* of its entries; delete its reverse metadata; take it out of the tag's set; look
\* it up; empty the tag's set.
Doomed(k) == \E a \in Pending : a.do \in {"set", "del"} /\ k \in a.keys
ToClean(k) == \E a \in Pending : CleansAll(a) /\ a.key = k
Retagged(k, t) == \E a \in Pending : a.do = "tag" /\ a.key = k /\ t \in a.tags
Untagged(k, t) == \E a \in Pending : a.do = "untag" /\ a.key = k /\ t \in a.tags
Cleaned(k) == \E a \in Pending : a.do \in {"smembers", "untag", "srem"} /\ a.key = k
Forgotten(k) == \E a \in Pending : a.do \in {"smembers", "untag"} /\ a.key = k
Dropped(k, t) ==
    \E a \in Pending : \/ a.do = "srem" /\ a.tag = t /\ a.key = k
                       \/ a.do = "delTag" /\ a.tag = t
LookedUp(k, t) == \E a \in Pending : a.do = "tagCheck" /\ a.tag = t /\ a.key = k
Wiped(t) == \E a \in Pending : \/ a.do = "delTag" /\ a.tag = t
                               \/ a.do = "del" /\ t \in a.metaTags

\* A pending SET is followed by the clean-up and the new tags of each key.
SetsFollowed ==
    \A a \in Pending : a.do = "set" =>
        \A k \in a.keys :
            /\ ToClean(k)
            /\ a.tags # {} => \E b \in Pending : b.do = "tag" /\ b.key = k

\* The tags to be added are those of the write, and a key that will get reverse
\* metadata without a ttl has none itself.
TagsGiven ==
    \A a \in Pending : a.do = "tag" =>
        \/ \E b \in Pending : b.do = "set"
        \/ /\ a.tags \subseteq given[a.key]
           /\ a.ttl = 0 => exp[a.key] = Never

\* A clean-up that leaves out a tag is followed by its own removal from it.
SkipsFollowed ==
    \A a \in Pending : a.do = "smembers" /\ a.skip # NoTag => Dropped(a.key, a.skip)

\* A live entry is in the set of each tag it was written with, and will stay
\* there, unless it will be deleted or written, or is still to be added.
Reached ==
    \A k \in Key \ dirty, t \in Tag :
        Live(k) /\ t \in given[k] =>
            \/ Doomed(k)
            \/ Retagged(k, t)
            \/ /\ k \in tagSet[t]
               /\ ~Cleaned(k)
               /\ Wiped(t) => LookedUp(k, t)

\* A live entry in the set of a tag it was not written with will leave it, or
\* will be deleted or written.
OnlyReached ==
    \A t \in Tag : \A k \in tagSet[t] \ lapsed :
        Live(k) /\ t \notin given[k] =>
            \/ Doomed(k)
            \/ ToClean(k)
            \/ Untagged(k, t)

\* The reverse metadata names the tags a key is in; an untagging under way
\* clears those tags of them it has not listed otherwise.
Tracked ==
    \A t \in Tag : \A k \in tagSet[t] \ lapsed : t \in keyTags[k] \/ Dropped(k, t)
UntagsAll ==
    \A a \in Pending : a.do = "untag" /\ a.key \notin lapsed =>
        \A t \in keyTags[a.key] \ a.tags : Dropped(a.key, t)
MetaTogether ==
    \A a \in Pending : a.do = "del" /\ a.metaKeys # {} =>
        \A t \in Tag : tagSet[t] = {} \/ t \in a.metaTags

\* Who looks for metadata to delete looks for every key.
ScansAll == \A a \in Pending : a.do = "scan" /\ a.meta => a.keys = Key

\* Reverse metadata without expiry belongs to an entry without expiry, or will
\* be deleted; in particular by whoever deletes the entry.
MetaExpires ==
    \A k \in Key \ dirty :
        keyTags[k] # {} /\ tagsExp[k] = Never => exp[k] = Never \/ Forgotten(k)
MetaDeleted ==
    \A a \in Pending : a.do = "del" =>
        \A k \in a.keys : keyTags[k] = {} \/ tagsExp[k] # Never \/ Forgotten(k)

\* An invalidation under way looks up members of the tag's set, leaves out its
\* tag when it cleans up, and will delete live entries only if they were last
\* written with the tag.
Aiming ==
    \A b \in Pending : b.do = "delTag" =>
        \A a \in Pending :
            /\ a.do = "tagCheck" => a.key \in tagSet[b.tag]
            /\ a.do = "smembers" => a.skip = b.tag
            /\ a.do = "untag" => b.tag \notin a.tags
            /\ a.do = "del" => \A k \in a.keys \ lapsed : Live(k) => b.tag \in given[k]

Debts ==
    /\ SetsFollowed /\ TagsGiven /\ SkipsFollowed
    /\ Reached /\ OnlyReached
    /\ Tracked /\ UntagsAll /\ MetaTogether /\ ScansAll
    /\ MetaExpires /\ MetaDeleted

-----------------------------------------------------------------------------
(* Sequences.                                                              *)

\* The first element of a queue and the rest.
LEMMA HeadAndTail ==
    ASSUME NEW S, NEW q \in Seq(S), q # <<>>
    PROVE  /\ Len(q) \in Nat \ {0}
           /\ Tail(q) \in Seq(S)
           /\ Len(Tail(q)) = Len(q) - 1
           /\ Head(q) = q[1] /\ Head(q) \in S
           /\ \A i \in 1..Len(Tail(q)) : Tail(q)[i] = q[i + 1]
           /\ ToSet(q) = {Head(q)} \cup ToSet(Tail(q))
<1>1. /\ Len(q) \in Nat \ {0}
      /\ Tail(q) \in Seq(S)
      /\ Len(Tail(q)) = Len(q) - 1
      /\ Head(q) = q[1] /\ Head(q) \in S
      /\ \A i \in 1..Len(Tail(q)) : Tail(q)[i] = q[i + 1]
      /\ DOMAIN q = 1..Len(q) /\ DOMAIN Tail(q) = 1..Len(Tail(q))
  OBVIOUS
<1>2. ASSUME NEW x \in ToSet(q)
      PROVE  x \in {Head(q)} \cup ToSet(Tail(q))
  <2>1. PICK i \in 1..Len(q) : x = q[i]
    BY <1>1 DEF ToSet
  <2>2. CASE i = 1
    BY <1>1, <2>1, <2>2
  <2>3. CASE i > 1
    <3>1. i - 1 \in 1..Len(Tail(q)) /\ x = Tail(q)[i - 1]
      BY <1>1, <2>1, <2>3
    <3> QED BY <1>1, <3>1 DEF ToSet
  <2> QED BY <2>1, <2>2, <2>3
<1>3. ASSUME NEW x \in ToSet(Tail(q))
      PROVE  x \in ToSet(q)
  <2>1. PICK i \in 1..Len(Tail(q)) : x = Tail(q)[i]
    BY <1>1 DEF ToSet
  <2>2. i + 1 \in 1..Len(q) /\ x = q[i + 1]
    BY <1>1, <2>1
  <2> QED BY <1>1, <2>2 DEF ToSet
<1>4. Head(q) \in ToSet(q)
  <2>1. 1 \in DOMAIN q
    BY <1>1
  <2> QED BY <1>1, <2>1 DEF ToSet
<1> QED BY <1>1, <1>2, <1>3, <1>4

\* Two sequences in a row.
LEMMA Concatenation ==
    ASSUME NEW S, NEW p \in Seq(S), NEW q \in Seq(S)
    PROVE  /\ p \o q \in Seq(S)
           /\ Len(p \o q) = Len(p) + Len(q)
           /\ \A i \in 1..Len(p) : (p \o q)[i] = p[i]
           /\ \A i \in 1..Len(q) : (p \o q)[Len(p) + i] = q[i]
           /\ ToSet(p \o q) = ToSet(p) \cup ToSet(q)
<1>1. /\ p \o q \in Seq(S)
      /\ Len(p) \in Nat /\ Len(q) \in Nat
      /\ Len(p \o q) = Len(p) + Len(q)
      /\ \A i \in 1..Len(p \o q) :
            (p \o q)[i] = IF i <= Len(p) THEN p[i] ELSE q[i - Len(p)]
      /\ DOMAIN p = 1..Len(p) /\ DOMAIN q = 1..Len(q)
      /\ DOMAIN (p \o q) = 1..Len(p \o q)
  OBVIOUS
<1>2. \A i \in 1..Len(p) : i \in 1..Len(p \o q) /\ (p \o q)[i] = p[i]
  BY <1>1
<1>3. \A i \in 1..Len(q) : Len(p) + i \in 1..Len(p \o q) /\ (p \o q)[Len(p) + i] = q[i]
  BY <1>1
<1>4. ASSUME NEW x \in ToSet(p \o q)
      PROVE  x \in ToSet(p) \cup ToSet(q)
  <2>1. PICK i \in 1..Len(p \o q) : x = (p \o q)[i]
    BY <1>1 DEF ToSet
  <2>2. CASE i \in 1..Len(p)
    BY <1>1, <1>2, <2>1, <2>2 DEF ToSet
  <2>3. CASE i - Len(p) \in 1..Len(q)
    BY <1>1, <2>1, <2>3 DEF ToSet
  <2> QED BY <1>1, <2>1, <2>2, <2>3
<1>5. ASSUME NEW x \in ToSet(p) \cup ToSet(q)
      PROVE  x \in ToSet(p \o q)
  <2>1. CASE x \in ToSet(p)
    <3>1. PICK i \in 1..Len(p) : x = p[i]
      BY <1>1, <2>1 DEF ToSet
    <3> QED BY <1>1, <1>2, <3>1 DEF ToSet
  <2>2. CASE x \in ToSet(q)
    <3>1. PICK i \in 1..Len(q) : x = q[i]
      BY <1>1, <2>2 DEF ToSet
    <3> QED BY <1>1, <1>3, <3>1 DEF ToSet
  <2> QED BY <1>5, <2>1, <2>2
<1> QED BY <1>1, <1>2, <1>3, <1>4, <1>5

\* The beginning of a sequence.
LEMMA Beginning ==
    ASSUME NEW S, NEW q \in Seq(S), NEW n \in 0..Len(q)
    PROVE  /\ SubSeq(q, 1, n) \in Seq(S)
           /\ Len(SubSeq(q, 1, n)) = n
           /\ \A i \in 1..n : SubSeq(q, 1, n)[i] = q[i]
           /\ \A i \in 1..n : q[i] \in ToSet(SubSeq(q, 1, n))
<1> DEFINE p == SubSeq(q, 1, n)
<1>1. Len(q) \in Nat /\ n \in Nat /\ n <= Len(q)
  OBVIOUS
<1>2. p = [i \in 1..n |-> q[i]]
  BY <1>1
<1> HIDE DEF p
<1>3. p \in Seq(S) /\ Len(p) = n /\ DOMAIN p = 1..n /\ \A i \in 1..n : p[i] = q[i]
  BY <1>1, <1>2
<1> QED BY <1>3 DEF p, ToSet

\* An enumeration of a finite set has each of its elements once.
LEMMA Enumeration ==
    ASSUME NEW S, IsFiniteSet(S), NEW s \in SetToSeqs(S)
    PROVE  /\ s \in Seq(S)
           /\ ToSet(s) = S
           /\ Len(s) = Cardinality(S)
<1> DEFINE D == 1..Cardinality(S)
<1>1. Cardinality(S) \in Nat
  BY FS_CardinalityType
<1>2. s \in [D -> S] /\ \A i, j \in D : i # j => s[i] # s[j]
  BY DEF SetToSeqs
<1>3. s \in Seq(S) /\ Len(s) = Cardinality(S) /\ DOMAIN s = D
  BY <1>1, <1>2
<1>4. s \in Injection(D, S)
  BY <1>2 DEF Injection, IsInjective
<1>5. Cardinality(D) = Cardinality(S)
  BY <1>1, FS_Interval
<1>6. s \in Surjection(D, S)
  BY <1>4, <1>5, FS_Injection
<1>7. \A x \in S : \E i \in D : s[i] = x
  BY <1>6 DEF Surjection
<1> QED BY <1>2, <1>3, <1>7 DEF ToSet

-----------------------------------------------------------------------------
(* Building queues.                                                        *)

\* A queue of one command, and of two.
LEMMA OneCommand ==
    ASSUME NEW S, NEW a \in S
    PROVE  /\ <<a>> \in Seq(S) /\ ToSet(<<a>>) = {a}
           /\ Ordered(<<a>>)
           /\ a.do # "tagCheck" => Closing(<<a>>)
<1>1. <<a>> \in Seq(S) /\ Len(<<a>>) = 1 /\ <<a>>[1] = a /\ DOMAIN <<a>> = {1}
  OBVIOUS
<1>2. ToSet(<<a>>) = {a}
  BY <1>1 DEF ToSet
<1> QED BY <1>1, <1>2 DEF Ordered, Closing

LEMMA TwoCommands ==
    ASSUME NEW S, NEW a \in S, NEW b \in S, MayFollow(a, b)
    PROVE  /\ <<a, b>> \in Seq(S) /\ ToSet(<<a, b>>) = {a, b}
           /\ Ordered(<<a, b>>)
<1>1. /\ <<a, b>> \in Seq(S) /\ Len(<<a, b>>) = 2
      /\ <<a, b>>[1] = a /\ <<a, b>>[2] = b /\ DOMAIN <<a, b>> = {1, 2}
  OBVIOUS
<1>2. ToSet(<<a, b>>) = {a, b}
  BY <1>1 DEF ToSet
<1>3. ASSUME NEW i \in 1..2, NEW j \in 1..2, i < j
      PROVE  i = 1 /\ j = 2
  BY <1>3
<1>4. Ordered(<<a, b>>)
  <2> SUFFICES ASSUME NEW i \in 1..2, NEW j \in 1..2, i < j
               PROVE  MayFollow(<<a, b>>[i], <<a, b>>[j])
    BY <1>1 DEF Ordered
  <2> QED BY <1>1, <1>3
<1> QED BY <1>1, <1>2, <1>4

LEMMA NoCommand ==
    ASSUME NEW S
    PROVE  <<>> \in Seq(S) /\ ToSet(<<>>) = {} /\ Ordered(<<>>) /\ Closing(<<>>)
<1>1. Len(<<>>) = 0 /\ DOMAIN <<>> = {} /\ 1..0 = {}
  OBVIOUS
<1> QED BY <1>1 DEF Ordered, Closing, ToSet

\* What is left of a queue when its first command has been sent.
LEMMA RestOfQueue ==
    ASSUME NEW S, NEW q \in Seq(S), q # <<>>, Ordered(q), Closing(q)
    PROVE  /\ Ordered(Tail(q)) /\ Closing(Tail(q))
           /\ \A r \in ToSet(Tail(q)) : r \in S /\ MayFollow(Head(q), r)
<1>1. /\ Len(q) \in Nat \ {0}
      /\ Tail(q) \in Seq(S)
      /\ Len(Tail(q)) = Len(q) - 1
      /\ Head(q) = q[1]
      /\ \A i \in 1..Len(Tail(q)) : Tail(q)[i] = q[i + 1]
  BY HeadAndTail
<1>2. Ordered(Tail(q))
  <2> SUFFICES ASSUME NEW i \in 1..Len(Tail(q)), NEW j \in 1..Len(Tail(q)), i < j
               PROVE  MayFollow(Tail(q)[i], Tail(q)[j])
    BY DEF Ordered
  <2>1. i + 1 \in 1..Len(q) /\ j + 1 \in 1..Len(q) /\ i + 1 < j + 1
    BY <1>1
  <2> QED BY <1>1, <2>1 DEF Ordered
<1>3. Closing(Tail(q))
  <2> SUFFICES ASSUME NEW i \in 1..Len(Tail(q)), Tail(q)[i].do = "tagCheck"
               PROVE  /\ i < Len(Tail(q)) - 1
                      /\ Tail(q)[Len(Tail(q)) - 1].do = "del"
                      /\ Tail(q)[Len(Tail(q))].do = "delTag"
                      /\ Tail(q)[Len(Tail(q))].tag = Tail(q)[i].tag
    BY DEF Closing
  <2>1. i + 1 \in 1..Len(q) /\ Tail(q)[i] = q[i + 1]
    BY <1>1
  <2>2. /\ i + 1 < Len(q) - 1
        /\ q[Len(q) - 1].do = "del"
        /\ q[Len(q)].do = "delTag" /\ q[Len(q)].tag = q[i + 1].tag
    BY <2>1 DEF Closing
  <2>3. Len(Tail(q)) \in 1..Len(Tail(q)) /\ Len(Tail(q)) - 1 \in 1..Len(Tail(q))
    BY <1>1, <2>2
  <2>4. Tail(q)[Len(Tail(q))] = q[Len(q)] /\ Tail(q)[Len(Tail(q)) - 1] = q[Len(q) - 1]
    BY <1>1, <2>3
  <2> QED BY <1>1, <2>1, <2>2, <2>4
<1>4. ASSUME NEW r \in ToSet(Tail(q))
      PROVE  r \in S /\ MayFollow(Head(q), r)
  <2>1. PICK i \in 1..Len(Tail(q)) : r = Tail(q)[i]
    BY <1>1 DEF ToSet
  <2>2. i + 1 \in 1..Len(q) /\ 1 \in 1..Len(q) /\ 1 < i + 1 /\ r = q[i + 1]
    BY <1>1, <2>1
  <2> QED BY <1>1, <2>2 DEF Ordered
<1> QED BY <1>2, <1>3, <1>4

LEMMA OrderedConcatenation ==
    ASSUME NEW S, NEW p \in Seq(S), NEW q \in Seq(S), Ordered(p), Ordered(q),
           \A a \in ToSet(p), b \in ToSet(q) : MayFollow(a, b)
    PROVE  Ordered(p \o q)
<1> SUFFICES ASSUME NEW i \in 1..Len(p \o q), NEW j \in 1..Len(p \o q), i < j
             PROVE  MayFollow((p \o q)[i], (p \o q)[j])
  BY DEF Ordered
<1>1. /\ Len(p) \in Nat /\ Len(q) \in Nat
      /\ Len(p \o q) = Len(p) + Len(q)
      /\ \A n \in 1..Len(p) : (p \o q)[n] = p[n]
      /\ \A n \in 1..Len(q) : (p \o q)[Len(p) + n] = q[n]
  BY Concatenation
<1>2. /\ \A n \in 1..Len(p) : p[n] \in ToSet(p)
      /\ \A n \in 1..Len(q) : q[n] \in ToSet(q)
  BY DEF ToSet
<1>3. CASE j <= Len(p)
  <2>1. i \in 1..Len(p) /\ j \in 1..Len(p)
    BY <1>1, <1>3
  <2> QED BY <1>1, <2>1 DEF Ordered
<1>4. CASE i <= Len(p) /\ j > Len(p)
  <2>1. i \in 1..Len(p) /\ j - Len(p) \in 1..Len(q) /\ Len(p) + (j - Len(p)) = j
    BY <1>1, <1>4
  <2> QED BY <1>1, <1>2, <2>1
<1>5. CASE i > Len(p)
  <2>1. /\ i - Len(p) \in 1..Len(q) /\ Len(p) + (i - Len(p)) = i
        /\ j - Len(p) \in 1..Len(q) /\ Len(p) + (j - Len(p)) = j
        /\ i - Len(p) < j - Len(p)
    BY <1>1, <1>5
  <2>2. (p \o q)[i] = q[i - Len(p)] /\ (p \o q)[j] = q[j - Len(p)]
    BY <1>1, <2>1
  <2> QED BY <2>1, <2>2 DEF Ordered
<1> QED BY <1>1, <1>3, <1>4, <1>5

LEMMA ClosingConcatenation ==
    ASSUME NEW S, NEW p \in Seq(S), NEW q \in Seq(S), Closing(q),
           \A a \in ToSet(p) : a.do # "tagCheck"
    PROVE  Closing(p \o q)
<1> DEFINE s == p \o q
<1>1. /\ Len(p) \in Nat /\ Len(q) \in Nat
      /\ Len(s) = Len(p) + Len(q)
      /\ \A n \in 1..Len(p) : s[n] = p[n]
      /\ \A n \in 1..Len(q) : s[Len(p) + n] = q[n]
  BY Concatenation
<1>2. \A n \in 1..Len(p) : p[n] \in ToSet(p)
  BY DEF ToSet
<1> HIDE DEF s
<1> SUFFICES ASSUME NEW i \in 1..Len(s), s[i].do = "tagCheck"
             PROVE  /\ i < Len(s) - 1
                    /\ s[Len(s) - 1].do = "del"
                    /\ s[Len(s)].do = "delTag" /\ s[Len(s)].tag = s[i].tag
  BY DEF Closing, s
<1>3. i > Len(p)
  BY <1>1, <1>2
<1>4. i - Len(p) \in 1..Len(q) /\ Len(p) + (i - Len(p)) = i
  BY <1>1, <1>3
<1>5. s[i] = q[i - Len(p)]
  BY <1>1, <1>4
<1>6. /\ i - Len(p) < Len(q) - 1
      /\ q[Len(q) - 1].do = "del"
      /\ q[Len(q)].do = "delTag" /\ q[Len(q)].tag = s[i].tag
  BY <1>4, <1>5 DEF Closing
<1>7. /\ Len(q) \in 1..Len(q) /\ Len(p) + Len(q) = Len(s)
      /\ Len(q) - 1 \in 1..Len(q) /\ Len(p) + (Len(q) - 1) = Len(s) - 1
  BY <1>1, <1>4, <1>6
<1>8. s[Len(s)] = q[Len(q)] /\ s[Len(s) - 1] = q[Len(q) - 1]
  BY <1>1, <1>7
<1> QED BY <1>1, <1>6, <1>8

\* Both, for the queues of this module.
LEMMA Chained ==
    ASSUME NEW p \in Seq(Cmds), NEW q \in Seq(Cmds), Ordered(p), Ordered(q),
           \A a \in ToSet(p), b \in ToSet(q) : MayFollow(a, b),
           NEW s, s = p \o q
    PROVE  /\ s \in Seq(Cmds) /\ Ordered(s) /\ ToSet(s) = ToSet(p) \cup ToSet(q)
           /\ Len(p) \in Nat /\ Len(q) \in Nat /\ Len(s) = Len(p) + Len(q)
           /\ \A i \in 1..Len(p) : s[i] = p[i]
           /\ \A i \in 1..Len(q) : s[Len(p) + i] = q[i]
<1>1. s \in Seq(Cmds)
  OBVIOUS
<1>2. ToSet(s) = ToSet(p) \cup ToSet(q)
  BY Concatenation
<1>3. Ordered(s)
  BY OrderedConcatenation
<1>4. /\ Len(p) \in Nat /\ Len(q) \in Nat /\ Len(s) = Len(p) + Len(q)
      /\ \A i \in 1..Len(p) : s[i] = p[i]
      /\ \A i \in 1..Len(q) : s[Len(p) + i] = q[i]
  BY Concatenation
<1> QED BY <1>1, <1>2, <1>3, <1>4

LEMMA NothingToClose ==
    ASSUME NEW q \in Seq(Cmds), \A a \in ToSet(q) : a.do # "tagCheck"
    PROVE  Closing(q)
<1>1. \A i \in 1..Len(q) : q[i] \in ToSet(q)
  BY DEF ToSet
<1> QED BY <1>1 DEF Closing

\* What may still be looked up, and the two deletions behind it.
LEMMA Closed ==
    ASSUME NEW p \in Seq(Cmds), NEW d \in Cmds, NEW e \in Cmds,
           d.do = "del", e.do = "delTag",
           \A a \in ToSet(p) : a.do = "tagCheck" => a.tag = e.tag,
           NEW q, q = p \o <<d, e>>
    PROVE  Closing(q)
<1>1. /\ Len(p) \in Nat /\ Len(q) = Len(p) + 2
      /\ \A i \in 1..Len(p) : q[i] = p[i]
      /\ q[Len(p) + 1] = d /\ q[Len(p) + 2] = e
  OBVIOUS
<1>2. \A i \in 1..Len(p) : p[i] \in ToSet(p)
  BY DEF ToSet
<1> SUFFICES ASSUME NEW i \in 1..Len(q), q[i].do = "tagCheck"
             PROVE  /\ i < Len(q) - 1
                    /\ q[Len(q) - 1].do = "del"
                    /\ q[Len(q)].do = "delTag" /\ q[Len(q)].tag = q[i].tag
  BY DEF Closing
<1>3. i \in 1..Len(p)
  <2>1. i # Len(p) + 1 /\ i # Len(p) + 2
    BY <1>1
  <2> QED BY <1>1, <2>1
<1>4. q[i] = p[i] /\ p[i].tag = e.tag
  BY <1>1, <1>2, <1>3
<1>5. i < Len(q) - 1 /\ Len(q) - 1 = Len(p) + 1
  BY <1>1, <1>3
<1> QED BY <1>1, <1>4, <1>5

\* The client's queue is replaced by another of the same shape.
LEMMA Queued ==
    ASSUME Shape, NEW c \in Client, NEW q \in Seq(Cmds), Ordered(q), Closing(q),
           todo' = [todo EXCEPT ![c] = q]
    PROVE  Shape'
<1>1. todo' \in [Client -> Seq(Cmds)] /\ \A d \in Client : todo'[d] \in {q, todo[d]}
  BY DEF Shape
<1> QED BY <1>1 DEF Shape

\* A command is replaced by others, behind which the rest can stay.
LEMMA Continued ==
    ASSUME Shape, NEW c \in Client, todo[c] # <<>>,
           NEW more \in Seq(Cmds), Ordered(more), Continue(c, more),
           \A a \in ToSet(more) :
               /\ a.do # "tagCheck"
               /\ \A b \in Cmds : MayFollow(Head(todo[c]), b) => MayFollow(a, b)
    PROVE  Shape'
<1> DEFINE q == todo[c]
<1>1. q \in Seq(Cmds) /\ q # <<>> /\ Ordered(q) /\ Closing(q)
  BY DEF Shape
<1>2. Tail(q) \in Seq(Cmds)
  BY <1>1, HeadAndTail
<1>3. /\ Ordered(Tail(q)) /\ Closing(Tail(q))
      /\ \A r \in ToSet(Tail(q)) : r \in Cmds /\ MayFollow(Head(q), r)
  BY <1>1, RestOfQueue
<1>4. \A a \in ToSet(more), b \in ToSet(Tail(q)) : MayFollow(a, b)
  BY <1>3
<1>5. more \o Tail(q) \in Seq(Cmds) /\ Ordered(more \o Tail(q))
  BY <1>2, <1>3, <1>4, OrderedConcatenation, Concatenation
<1>6. Closing(more \o Tail(q))
  BY <1>2, <1>3, ClosingConcatenation
<1>7. todo' = [todo EXCEPT ![c] = more \o Tail(q)]
  BY DEF Continue
<1> QED BY <1>5, <1>6, <1>7, Queued

-----------------------------------------------------------------------------
(* The commands of the methods.                                            *)

\* The constructors make commands.
LEMMA CommandTypes ==
    /\ \A k \in Key, T \in SUBSET Tag, ttl \in Ttl : SetCmd(k, T, ttl) \in Cmds
    /\ \A K \in SUBSET Key, ttl \in Ttl : MSetCmd(K, ttl) \in Cmds
    /\ \A k \in Key, s \in Tag \cup {NoTag} : SMembersCmd(k, s) \in Cmds
    /\ \A k \in Key, T \in SUBSET Tag : UntagCmd(k, T) \in Cmds
    /\ \A k \in Key, T \in (SUBSET Tag) \ {{}}, ttl \in Ttl : TagCmd(k, T, ttl) \in Cmds
    /\ \A t \in Tag, n \in Nat : PruneScanCmd(t, n) \in Cmds
    /\ \A t \in Tag, k \in Key : PruneCheckCmd(t, k) \in Cmds
    /\ \A t \in Tag, k \in Key : SRemCmd(t, k) \in Cmds
    /\ \A t \in Tag : TagScanCmd(t) \in Cmds
    /\ \A t \in Tag, k \in Key : TagCheckCmd(t, k) \in Cmds
    /\ \A K \in SUBSET Key, M \in SUBSET Key, T \in SUBSET Tag : DelCmd(K, M, T) \in Cmds
    /\ \A t \in Tag : DelTagCmd(t) \in Cmds
    /\ \A K \in SUBSET Key, m \in BOOLEAN : ScanCmd(K, m) \in Cmds
<1>1. \A k \in Key, T \in SUBSET Tag, ttl \in Ttl : SetCmd(k, T, ttl) \in SetCmds
  BY DEF SetCmd, SetCmds
<1>2. \A K \in SUBSET Key, ttl \in Ttl : MSetCmd(K, ttl) \in SetCmds
  BY DEF MSetCmd, SetCmds
<1>3. \A k \in Key, s \in Tag \cup {NoTag} : SMembersCmd(k, s) \in SMembersCmds
  BY DEF SMembersCmd, SMembersCmds
<1>4. \A k \in Key, T \in SUBSET Tag : UntagCmd(k, T) \in UntagCmds
  BY DEF UntagCmd, UntagCmds
<1>5. \A k \in Key, T \in (SUBSET Tag) \ {{}}, ttl \in Ttl : TagCmd(k, T, ttl) \in TagCmds
  BY DEF TagCmd, TagCmds
<1>6. \A t \in Tag, n \in Nat : PruneScanCmd(t, n) \in PruneCmds
  BY DEF PruneScanCmd, PruneCmds
<1>7. \A t \in Tag, k \in Key : PruneCheckCmd(t, k) \in PruneCheckCmds
  BY DEF PruneCheckCmd, PruneCheckCmds
<1>8. \A t \in Tag, k \in Key : SRemCmd(t, k) \in SRemCmds
  BY DEF SRemCmd, SRemCmds
<1>9. \A t \in Tag : TagScanCmd(t) \in TagScanCmds
  BY DEF TagScanCmd, TagScanCmds
<1>10. \A t \in Tag, k \in Key : TagCheckCmd(t, k) \in TagCheckCmds
  BY DEF TagCheckCmd, TagCheckCmds
<1>11. \A K \in SUBSET Key, M \in SUBSET Key, T \in SUBSET Tag : DelCmd(K, M, T) \in DelCmds
  BY DEF DelCmd, DelCmds
<1>12. \A t \in Tag : DelTagCmd(t) \in DelTagCmds
  BY DEF DelTagCmd, DelTagCmds
<1>13. \A K \in SUBSET Key, m \in BOOLEAN : ScanCmd(K, m) \in ScanCmds
  BY DEF ScanCmd, ScanCmds
<1> QED
  BY <1>1, <1>2, <1>3, <1>4, <1>5, <1>6, <1>7, <1>8, <1>9, <1>10, <1>11, <1>12, <1>13
  DEF Cmds

\* What a command of each kind carries.
LEMMA CommandFields ==
    ASSUME NEW a \in Cmds
    PROVE  /\ a.do = "set" => a.keys \in SUBSET Key /\ a.tags \in SUBSET Tag /\ a.ttl \in Ttl
           /\ a.do = "smembers" => a.key \in Key /\ a.skip \in Tag \cup {NoTag}
           /\ a.do = "untag" => a.key \in Key /\ a.tags \in SUBSET Tag
           /\ a.do = "tag" => /\ a.key \in Key
                              /\ a.tags \in SUBSET Tag /\ a.tags # {}
                              /\ a.ttl \in Ttl
           /\ a.do = "prune" => a.tag \in Tag /\ a.max \in Nat
           /\ a.do \in {"pruneCheck", "srem", "tagCheck"} => a.tag \in Tag /\ a.key \in Key
           /\ a.do = "tagScan" => a.tag \in Tag
           /\ a.do = "del" => /\ a.keys \in SUBSET Key /\ a.metaKeys \in SUBSET Key
                              /\ a.metaTags \in SUBSET Tag
           /\ a.do = "delTag" => a.tag \in Tag
           /\ a.do = "scan" => a.keys \in SUBSET Key /\ a.meta \in BOOLEAN
<1>1. CASE a \in SetCmds
  BY <1>1 DEF SetCmds
<1>2. CASE a \in SMembersCmds
  BY <1>2 DEF SMembersCmds
<1>3. CASE a \in UntagCmds
  BY <1>3 DEF UntagCmds
<1>4. CASE a \in TagCmds
  BY <1>4 DEF TagCmds
<1>5. CASE a \in PruneCmds
  BY <1>5 DEF PruneCmds
<1>6. CASE a \in PruneCheckCmds
  BY <1>6 DEF PruneCheckCmds
<1>7. CASE a \in SRemCmds
  BY <1>7 DEF SRemCmds
<1>8. CASE a \in TagScanCmds
  BY <1>8 DEF TagScanCmds
<1>9. CASE a \in TagCheckCmds
  BY <1>9 DEF TagCheckCmds
<1>10. CASE a \in DelCmds
  BY <1>10 DEF DelCmds
<1>11. CASE a \in DelTagCmds
  BY <1>11 DEF DelTagCmds
<1>12. CASE a \in ScanCmds
  BY <1>12 DEF ScanCmds
<1> QED
  BY <1>1, <1>2, <1>3, <1>4, <1>5, <1>6, <1>7, <1>8, <1>9, <1>10, <1>11, <1>12 DEF Cmds

\* A queue whose commands may follow each other in any order.
LEMMA AnyOrder ==
    ASSUME NEW n \in Nat, NEW f, f \in Seq(Cmds), Len(f) = n,
           \A i, j \in 1..n : MayFollow(f[i], f[j])
    PROVE  Ordered(f)
BY DEF Ordered

\* The clean-ups of several keys.
Cleanings(ks) == [i \in 1..Len(ks) |-> SMembersCmd(ks[i], NoTag)]
LEMMA CleaningsShape ==
    ASSUME NEW ks \in Seq(Key)
    PROVE  /\ Cleanings(ks) \in Seq(Cmds) /\ Ordered(Cleanings(ks))
           /\ \A a \in ToSet(Cleanings(ks)) : CleansAll(a) /\ a.key \in ToSet(ks)
           /\ \A k \in ToSet(ks) : \E a \in ToSet(Cleanings(ks)) : a.key = k
<1> DEFINE n == Len(ks)
           f == Cleanings(ks)
<1>1. n \in Nat /\ DOMAIN ks = 1..n /\ \A i \in 1..n : ks[i] \in Key
  OBVIOUS
<1>2. \A i \in 1..n : /\ f[i] = SMembersCmd(ks[i], NoTag)
                      /\ f[i] \in Cmds
                      /\ CleansAll(f[i]) /\ f[i].key = ks[i]
  BY <1>1, CommandTypes DEF Cleanings, SMembersCmd, CleansAll
<1>3. f \in Seq(Cmds) /\ Len(f) = n /\ DOMAIN f = 1..n
  BY <1>1, <1>2 DEF Cleanings
<1> HIDE DEF f
<1>4. Ordered(f)
  <2>1. \A i, j \in 1..n : MayFollow(f[i], f[j])
    BY <1>2 DEF MayFollow, CleansAll
  <2> QED BY <1>1, <1>3, <2>1, AnyOrder
<1>5. \A a \in ToSet(f) : CleansAll(a) /\ a.key \in ToSet(ks)
  BY <1>1, <1>2, <1>3 DEF ToSet
<1>6. \A k \in ToSet(ks) : \E a \in ToSet(f) : a.key = k
  BY <1>1, <1>2, <1>3 DEF ToSet
<1> QED BY <1>3, <1>4, <1>5, <1>6 DEF f

\* The pruning of the tags of a write.
LEMMA PruningsShape ==
    ASSUME NEW ts \in Seq(Tag)
    PROVE  /\ PruneTouched(ts) \in Seq(Cmds) /\ Ordered(PruneTouched(ts))
           /\ \A a \in ToSet(PruneTouched(ts)) : a.do = "prune"
<1> DEFINE n == Len(ts)
           f == PruneTouched(ts)
<1>1. n \in Nat /\ DOMAIN ts = 1..n /\ \A i \in 1..n : ts[i] \in Tag
  OBVIOUS
<1>2. \A i \in 1..n : f[i] \in Cmds /\ f[i].do = "prune"
  BY <1>1, CommandTypes, RedisAssumption DEF PruneTouched, PruneScanCmd
<1>3. f \in Seq(Cmds) /\ Len(f) = n /\ DOMAIN f = 1..n
  BY <1>1, <1>2 DEF PruneTouched
<1> HIDE DEF f
<1>4. Ordered(f)
  <2>1. \A i, j \in 1..n : MayFollow(f[i], f[j])
    BY <1>2 DEF MayFollow, CleansAll
  <2> QED BY <1>1, <1>3, <2>1, AnyOrder
<1>5. \A a \in ToSet(f) : a.do = "prune"
  BY <1>2, <1>3 DEF ToSet
<1> QED BY <1>3, <1>4, <1>5 DEF f

\* The members a pruning visits.
LEMMA PruneChecksShape ==
    ASSUME NEW t \in Tag, NEW ks \in Seq(Key), NEW m \in Nat, m <= Len(ks),
           NEW f, f = [i \in 1..m |-> PruneCheckCmd(t, ks[i])]
    PROVE  /\ f \in Seq(Cmds) /\ Ordered(f)
           /\ \A a \in ToSet(f) : a.do = "pruneCheck"
<1>1. \A i \in 1..m : ks[i] \in Key
  OBVIOUS
<1>2. \A i \in 1..m : f[i] \in Cmds /\ f[i].do = "pruneCheck"
  BY <1>1, CommandTypes DEF PruneCheckCmd
<1>3. f \in Seq(Cmds) /\ Len(f) = m /\ DOMAIN f = 1..m
  BY <1>1, <1>2
<1>4. Ordered(f)
  <2>1. \A i, j \in 1..m : MayFollow(f[i], f[j])
    BY <1>2 DEF MayFollow, CleansAll
  <2> QED BY <1>3, <2>1, AnyOrder
<1>5. \A a \in ToSet(f) : a.do = "pruneCheck"
  BY <1>2, <1>3 DEF ToSet
<1> QED BY <1>3, <1>4, <1>5

\* The members an invalidation looks up.
TagChecks(t, ks) == [i \in 1..Len(ks) |-> TagCheckCmd(t, ks[i])]
LEMMA TagChecksShape ==
    ASSUME NEW t \in Tag, NEW ks \in Seq(Key)
    PROVE  /\ TagChecks(t, ks) \in Seq(Cmds) /\ Ordered(TagChecks(t, ks))
           /\ \A a \in ToSet(TagChecks(t, ks)) :
                 a.do = "tagCheck" /\ a.tag = t /\ a.key \in ToSet(ks)
           /\ \A k \in ToSet(ks) : \E a \in ToSet(TagChecks(t, ks)) : a.key = k
<1> DEFINE n == Len(ks)
           f == TagChecks(t, ks)
<1>1. n \in Nat /\ DOMAIN ks = 1..n /\ \A i \in 1..n : ks[i] \in Key
  OBVIOUS
<1>2. \A i \in 1..n : /\ f[i] \in Cmds
                      /\ f[i].do = "tagCheck" /\ f[i].tag = t /\ f[i].key = ks[i]
  BY <1>1, CommandTypes DEF TagChecks, TagCheckCmd
<1>3. f \in Seq(Cmds) /\ Len(f) = n /\ DOMAIN f = 1..n
  BY <1>1, <1>2 DEF TagChecks
<1> HIDE DEF f
<1>4. Ordered(f)
  <2>1. \A i, j \in 1..n : MayFollow(f[i], f[j])
    BY <1>2 DEF MayFollow, CleansAll
  <2> QED BY <1>1, <1>3, <2>1, AnyOrder
<1>5. \A a \in ToSet(f) : a.do = "tagCheck" /\ a.tag = t /\ a.key \in ToSet(ks)
  BY <1>1, <1>2, <1>3 DEF ToSet
<1>6. \A k \in ToSet(ks) : \E a \in ToSet(f) : a.key = k
  BY <1>1, <1>2, <1>3 DEF ToSet
<1> QED BY <1>3, <1>4, <1>5, <1>6 DEF f

\* The queue of a write with its tags.
SetQueue(k, ts, ttl) ==
    <<SetCmd(k, ToSet(ts), ttl)>> \o ReplaceTags(k, ToSet(ts), ttl)
        \o PruneTouched(ts)
LEMMA SetShape ==
    ASSUME NEW k \in Key, NEW ts \in Seq(Tag), NEW ttl \in Ttl
    PROVE  LET q == SetQueue(k, ts, ttl) IN
           /\ q \in Seq(Cmds) /\ Ordered(q) /\ Closing(q)
           /\ \A a \in ToSet(q) :
                \/ a = SetCmd(k, ToSet(ts), ttl)
                \/ a = SMembersCmd(k, NoTag)
                \/ ToSet(ts) # {} /\ a = TagCmd(k, ToSet(ts), ttl)
                \/ a.do = "prune"
           /\ SetCmd(k, ToSet(ts), ttl) \in ToSet(q)
           /\ SMembersCmd(k, NoTag) \in ToSet(q)
           /\ ToSet(ts) # {} => TagCmd(k, ToSet(ts), ttl) \in ToSet(q)
<1> DEFINE q == SetQueue(k, ts, ttl)
<1>q. q = <<SetCmd(k, ToSet(ts), ttl)>> \o ReplaceTags(k, ToSet(ts), ttl)
        \o PruneTouched(ts)
  BY DEF SetQueue
<1> HIDE DEF q
<1> DEFINE T == ToSet(ts)
           s == SetCmd(k, T, ttl)
           m == SMembersCmd(k, NoTag)
           g == TagCmd(k, T, ttl)
           R == IF T = {} THEN <<>> ELSE <<g>>
           P == PruneTouched(ts)
<1>1. T \in SUBSET Tag
  BY DEF ToSet
<1> HIDE DEF T
<1>2. /\ s \in Cmds /\ s.do = "set" /\ s.keys = {k} /\ s.tags = T /\ s.ttl = ttl
      /\ m \in Cmds /\ CleansAll(m) /\ m.do = "smembers"
      /\ g.do = "tag" /\ g.key = k /\ g.tags = T /\ g.ttl = ttl
      /\ T # {} => g \in Cmds
  BY <1>1, CommandTypes DEF SetCmd, SMembersCmd, TagCmd, CleansAll
<1>3. /\ R \in Seq(Cmds) /\ Ordered(R)
      /\ ToSet(R) = IF T = {} THEN {} ELSE {g}
  <2>1. CASE T = {}
    BY <2>1, NoCommand
  <2>2. CASE T # {}
    BY <2>2, <1>2, OneCommand
  <2> QED BY <2>1, <2>2
<1>4. /\ P \in Seq(Cmds) /\ Ordered(P)
      /\ \A a \in ToSet(P) : a.do = "prune"
  BY PruningsShape
<1>5. /\ <<s>> \in Seq(Cmds) /\ Ordered(<<s>>) /\ ToSet(<<s>>) = {s}
      /\ <<m>> \in Seq(Cmds) /\ Ordered(<<m>>) /\ ToSet(<<m>>) = {m}
  BY <1>2, OneCommand
<1> HIDE DEF s, m, g, R, P
<1>6. /\ MayFollow(s, m)
      /\ \A a \in ToSet(R) : MayFollow(s, a) /\ MayFollow(m, a)
      /\ \A a \in ToSet(P) : MayFollow(s, a) /\ MayFollow(m, a)
      /\ \A a \in ToSet(R), b \in ToSet(P) : MayFollow(a, b)
  BY <1>2, <1>3, <1>4 DEF MayFollow, CleansAll
<1> DEFINE mR == <<m>> \o R
           smR == <<s>> \o mR
<1>7. mR \in Seq(Cmds) /\ Ordered(mR) /\ ToSet(mR) = {m} \cup ToSet(R)
  <2>1. \A a \in ToSet(<<m>>), b \in ToSet(R) : MayFollow(a, b)
    BY <1>5, <1>6
  <2>2. mR \in Seq(Cmds) /\ Ordered(mR) /\ ToSet(mR) = ToSet(<<m>>) \cup ToSet(R)
    BY <1>3, <1>5, <2>1, Chained
  <2> QED BY <1>5, <2>2
<1> HIDE DEF mR
<1>8. smR \in Seq(Cmds) /\ Ordered(smR) /\ ToSet(smR) = {s, m} \cup ToSet(R)
  <2>1. \A a \in ToSet(<<s>>), b \in ToSet(mR) : MayFollow(a, b)
    BY <1>5, <1>6, <1>7
  <2>2. smR \in Seq(Cmds) /\ Ordered(smR) /\ ToSet(smR) = ToSet(<<s>>) \cup ToSet(mR)
    BY <1>5, <1>7, <2>1, Chained
  <2> QED BY <1>5, <1>7, <2>2
<1> HIDE DEF smR
<1>10. q = smR \o P
  BY <1>q DEF ReplaceTags, s, m, g, R, P, T, smR, mR
<1>9. q \in Seq(Cmds) /\ Ordered(q) /\ ToSet(q) = {s, m} \cup ToSet(R) \cup ToSet(P)
  <2>1. \A a \in ToSet(smR), b \in ToSet(P) : MayFollow(a, b)
    BY <1>6, <1>8
  <2>2. q \in Seq(Cmds) /\ Ordered(q) /\ ToSet(q) = ToSet(smR) \cup ToSet(P)
    BY <1>4, <1>8, <1>10, <2>1, Chained
  <2> QED BY <1>8, <2>2
<1>11. Closing(q)
  <2>1. \A a \in ToSet(q) : a.do # "tagCheck"
    BY <1>2, <1>3, <1>4, <1>9
  <2> QED BY <1>9, <2>1, NothingToClose
<1>13. /\ \A a \in ToSet(q) : a = s \/ a = m \/ (T # {} /\ a = g) \/ a.do = "prune"
       /\ s \in ToSet(q) /\ m \in ToSet(q)
       /\ T # {} => g \in ToSet(q)
  BY <1>3, <1>4, <1>9
<1> QED BY <1>9, <1>11, <1>13 DEF s, m, g, T, q

\* The queues of a batch write and of deletions: a SET of the keys and their
\* clean-ups, or the clean-ups and a DEL.
SetManyQueue(ks, ttl) ==
    <<MSetCmd(ToSet(ks), ttl)>> \o Cleanings(ks)
LEMMA SetManyShape ==
    ASSUME NEW ks \in Seq(Key), NEW ttl \in Ttl
    PROVE  LET q == SetManyQueue(ks, ttl) IN
           /\ q \in Seq(Cmds) /\ Ordered(q) /\ Closing(q)
           /\ \A a \in ToSet(q) : \/ a = MSetCmd(ToSet(ks), ttl)
                                  \/ CleansAll(a) /\ a.key \in ToSet(ks)
           /\ MSetCmd(ToSet(ks), ttl) \in ToSet(q)
           /\ \A k \in ToSet(ks) : \E a \in ToSet(q) : CleansAll(a) /\ a.key = k
<1> DEFINE q == SetManyQueue(ks, ttl)
<1>q. q = <<MSetCmd(ToSet(ks), ttl)>> \o Cleanings(ks)
  BY DEF SetManyQueue
<1> HIDE DEF q
<1> DEFINE s == MSetCmd(ToSet(ks), ttl)
           C == Cleanings(ks)
<1>1. ToSet(ks) \in SUBSET Key
  BY DEF ToSet
<1>2. s \in Cmds /\ s.do = "set"
  BY <1>1, CommandTypes DEF MSetCmd
<1>3. /\ C \in Seq(Cmds) /\ Ordered(C)
      /\ \A a \in ToSet(C) : CleansAll(a) /\ a.key \in ToSet(ks)
      /\ \A k \in ToSet(ks) : \E a \in ToSet(C) : a.key = k
  BY CleaningsShape
<1>4. q = <<s>> \o C
  BY <1>q
<1>5. <<s>> \in Seq(Cmds) /\ Ordered(<<s>>) /\ ToSet(<<s>>) = {s}
  BY <1>2, OneCommand
<1> HIDE DEF s, C
<1>6. \A a \in ToSet(<<s>>), b \in ToSet(C) : MayFollow(a, b)
  BY <1>2, <1>3, <1>5 DEF MayFollow, CleansAll
<1>7. q \in Seq(Cmds) /\ Ordered(q) /\ ToSet(q) = {s} \cup ToSet(C)
  <2>1. q \in Seq(Cmds) /\ Ordered(q) /\ ToSet(q) = ToSet(<<s>>) \cup ToSet(C)
    BY <1>3, <1>4, <1>5, <1>6, Chained
  <2> QED BY <1>5, <2>1
<1>8. Closing(q)
  <2>1. \A a \in ToSet(q) : a.do # "tagCheck"
    BY <1>2, <1>3, <1>7 DEF CleansAll
  <2> QED BY <1>7, <2>1, NothingToClose
<1> QED BY <1>3, <1>7, <1>8 DEF s, q

DeletionQueue(ks, M, T) ==
    Cleanings(ks) \o <<DelCmd(ToSet(ks), M, T)>>
LEMMA DeletionShape ==
    ASSUME NEW ks \in Seq(Key), NEW M, NEW T, DelCmd(ToSet(ks), M, T) \in Cmds
    PROVE  LET q == DeletionQueue(ks, M, T) IN
           /\ q \in Seq(Cmds) /\ Ordered(q) /\ Closing(q)
           /\ \A a \in ToSet(q) : \/ a = DelCmd(ToSet(ks), M, T)
                                  \/ CleansAll(a) /\ a.key \in ToSet(ks)
           /\ DelCmd(ToSet(ks), M, T) \in ToSet(q)
           /\ \A k \in ToSet(ks) : \E a \in ToSet(q) : CleansAll(a) /\ a.key = k
<1> DEFINE q == DeletionQueue(ks, M, T)
<1>q. q = Cleanings(ks) \o <<DelCmd(ToSet(ks), M, T)>>
  BY DEF DeletionQueue
<1> HIDE DEF q
<1> DEFINE d == DelCmd(ToSet(ks), M, T)
           C == Cleanings(ks)
<1>2. d \in Cmds /\ d.do = "del"
  BY DEF DelCmd
<1>3. /\ C \in Seq(Cmds) /\ Ordered(C)
      /\ \A a \in ToSet(C) : CleansAll(a) /\ a.key \in ToSet(ks)
      /\ \A k \in ToSet(ks) : \E a \in ToSet(C) : a.key = k
  BY CleaningsShape
<1>4. q = C \o <<d>>
  BY <1>q
<1>5. <<d>> \in Seq(Cmds) /\ Ordered(<<d>>) /\ ToSet(<<d>>) = {d}
  BY <1>2, OneCommand
<1> HIDE DEF d, C
<1>6. \A a \in ToSet(C), b \in ToSet(<<d>>) : MayFollow(a, b)
  BY <1>2, <1>3, <1>5 DEF MayFollow, CleansAll
<1>7. q \in Seq(Cmds) /\ Ordered(q) /\ ToSet(q) = ToSet(C) \cup {d}
  <2>1. q \in Seq(Cmds) /\ Ordered(q) /\ ToSet(q) = ToSet(C) \cup ToSet(<<d>>)
    BY <1>3, <1>4, <1>5, <1>6, Chained
  <2> QED BY <1>5, <2>1
<1>8. Closing(q)
  <2>1. \A a \in ToSet(q) : a.do # "tagCheck"
    BY <1>2, <1>3, <1>7 DEF CleansAll
  <2> QED BY <1>7, <2>1, NothingToClose
<1> QED BY <1>3, <1>7, <1>8 DEF d, q

\* The queue of an invalidation once it has scanned the tag's set.
InvalidationQueue(t, ks) ==
    TagChecks(t, ks) \o <<DelCmd({}, {}, {}), DelTagCmd(t)>>
LEMMA InvalidationShape ==
    ASSUME NEW t \in Tag, NEW ks \in Seq(Key)
    PROVE  LET q == InvalidationQueue(t, ks) IN
           /\ q \in Seq(Cmds) /\ Ordered(q) /\ Closing(q)
           /\ \A a \in ToSet(q) : \/ a.do = "tagCheck" /\ a.tag = t /\ a.key \in ToSet(ks)
                                  \/ a = DelCmd({}, {}, {}) \/ a = DelTagCmd(t)
           /\ DelTagCmd(t) \in ToSet(q)
           /\ \A k \in ToSet(ks) : \E a \in ToSet(q) : a.do = "tagCheck" /\ a.tag = t /\ a.key = k
<1> DEFINE q == InvalidationQueue(t, ks)
<1>q. q = TagChecks(t, ks) \o <<DelCmd({}, {}, {}), DelTagCmd(t)>>
  BY DEF InvalidationQueue
<1> HIDE DEF q
<1> DEFINE d == DelCmd({}, {}, {})
           e == DelTagCmd(t)
           C == TagChecks(t, ks)
           de == <<d, e>>
<1>1. d \in Cmds /\ d.do = "del" /\ e \in Cmds /\ e.do = "delTag" /\ e.tag = t
  BY CommandTypes DEF DelCmd, DelTagCmd
<1>2. /\ C \in Seq(Cmds) /\ Ordered(C)
      /\ \A a \in ToSet(C) : a.do = "tagCheck" /\ a.tag = t /\ a.key \in ToSet(ks)
      /\ \A k \in ToSet(ks) : \E a \in ToSet(C) : a.key = k
  BY TagChecksShape
<1>3. q = C \o de
  BY <1>q
<1>4. MayFollow(d, e)
  BY <1>1 DEF MayFollow, CleansAll
<1> HIDE DEF d, e, C
<1>5. de \in Seq(Cmds) /\ Ordered(de) /\ ToSet(de) = {d, e}
  BY <1>1, <1>4, TwoCommands
<1> HIDE DEF de
<1>6. \A a \in ToSet(C), b \in ToSet(de) : MayFollow(a, b)
  BY <1>1, <1>2, <1>5 DEF MayFollow, CleansAll
<1>7. q \in Seq(Cmds) /\ Ordered(q) /\ ToSet(q) = ToSet(C) \cup {d, e}
  <2>1. q \in Seq(Cmds) /\ Ordered(q) /\ ToSet(q) = ToSet(C) \cup ToSet(de)
    BY <1>2, <1>3, <1>5, <1>6, Chained
  <2> QED BY <1>5, <2>1
<1>8. Closing(q)
  BY <1>1, <1>2, <1>3, Closed DEF de
<1> QED BY <1>2, <1>7, <1>8 DEF d, e, q

-----------------------------------------------------------------------------
(* Every step keeps the queues in shape, whatever the other clients do.    *)

\* The command a client sends next, and those behind it.
LEMMA FirstCommand ==
    ASSUME Shape, NEW c \in Client, todo[c] # <<>>
    PROVE  /\ Next1(c) \in Cmds
           /\ Tail(todo[c]) \in Seq(Cmds)
           /\ Ordered(Tail(todo[c])) /\ Closing(Tail(todo[c]))
           /\ \A r \in ToSet(Tail(todo[c])) : r \in Cmds /\ MayFollow(Next1(c), r)
           /\ ToSet(todo[c]) = {Next1(c)} \cup ToSet(Tail(todo[c]))
<1> DEFINE q == todo[c]
<1>1. q \in Seq(Cmds) /\ q # <<>> /\ Ordered(q) /\ Closing(q)
  BY DEF Shape
<1> HIDE DEF q
<1>2. Head(q) \in Cmds /\ Tail(q) \in Seq(Cmds) /\ ToSet(q) = {Head(q)} \cup ToSet(Tail(q))
  BY <1>1, HeadAndTail
<1>3. /\ Ordered(Tail(q)) /\ Closing(Tail(q))
      /\ \A r \in ToSet(Tail(q)) : r \in Cmds /\ MayFollow(Head(q), r)
  BY <1>1, RestOfQueue
<1> QED BY <1>2, <1>3 DEF q, Next1

\* A command that puts no others in front.
LEMMA DroppedShape ==
    ASSUME Shape, NEW c \in Client, todo[c] # <<>>, Continue(c, <<>>)
    PROVE  Shape' /\ todo' = [todo EXCEPT ![c] = Tail(todo[c])]
<1>1. <<>> \in Seq(Cmds) /\ ToSet(<<>>) = {} /\ Ordered(<<>>)
  BY NoCommand
<1>2. Shape'
  BY <1>1, Continued
<1>3. Tail(todo[c]) \in Seq(Cmds)
  BY FirstCommand
<1> QED BY <1>2, <1>3 DEF Continue

\* What the answer to each of the other commands puts in front of the rest.
LEMMA SMembersMore ==
    ASSUME TypeOK, Shape, NEW c \in Client, SendSMembers(c)
    PROVE  \E more \in Seq(Cmds) :
              /\ Ordered(more) /\ Continue(c, more)
              /\ \A a \in ToSet(more) : MayFollow(a, a) \/ a.do = "untag"
              /\ ToSet(more) = IF keyTags[Next1(c).key] = {} THEN {}
                               ELSE {UntagCmd(Next1(c).key,
                                              keyTags[Next1(c).key] \ {Next1(c).skip})}
<1> DEFINE h == Next1(c)
           u == UntagCmd(h.key, keyTags[h.key] \ {h.skip})
<1>1. todo[c] # <<>> /\ h.do = "smembers"
  BY DEF SendSMembers, Is
<1>2. h \in Cmds
  BY <1>1, FirstCommand
<1>3. h.key \in Key
  BY <1>1, <1>2, CommandFields
<1>4. keyTags[h.key] \ {h.skip} \in SUBSET Tag
  BY <1>3 DEF TypeOK
<1>5. u \in Cmds /\ u.do = "untag"
  BY <1>3, <1>4, CommandTypes DEF UntagCmd
<1>6. CASE keyTags[h.key] = {}
  <2>1. Continue(c, <<>>)
    BY <1>6 DEF SendSMembers
  <2>2. <<>> \in Seq(Cmds) /\ ToSet(<<>>) = {} /\ Ordered(<<>>)
    BY NoCommand
  <2> QED BY <1>6, <2>1, <2>2
<1>7. CASE keyTags[h.key] # {}
  <2>1. Continue(c, <<u>>)
    BY <1>7 DEF SendSMembers
  <2>2. <<u>> \in Seq(Cmds) /\ ToSet(<<u>>) = {u} /\ Ordered(<<u>>)
    BY <1>5, OneCommand
  <2> QED BY <1>5, <1>7, <2>1, <2>2
<1> QED BY <1>6, <1>7

LEMMA PruneScanMore ==
    ASSUME TypeOK, Shape, NEW c \in Client, SendPruneScan(c)
    PROVE  \E more \in Seq(Cmds) :
              /\ Ordered(more) /\ Continue(c, more)
              /\ \A a \in ToSet(more) : a.do = "pruneCheck"
<1> DEFINE h == Next1(c)
<1>1. todo[c] # <<>> /\ h.do = "prune"
  BY DEF SendPruneScan, Is
<1>2. h \in Cmds
  BY <1>1, FirstCommand
<1>3. h.tag \in Tag /\ h.max \in Nat
  BY <1>1, <1>2, CommandFields
<1>4. tagSet[h.tag] \in SUBSET Key /\ IsFiniteSet(tagSet[h.tag])
  <2>1. tagSet[h.tag] \in SUBSET Key
    BY <1>3 DEF TypeOK
  <2> QED BY <2>1, RedisAssumption, FS_Subset
<1>5. PICK ks \in SetToSeqs(tagSet[h.tag]) :
        Continue(c, [i \in 1..(IF Len(ks) < h.max THEN Len(ks) ELSE h.max)
                         |-> PruneCheckCmd(h.tag, ks[i])])
  BY DEF SendPruneScan
<1>6. ks \in Seq(Key) /\ Len(ks) \in Nat
  <2>1. ks \in Seq(tagSet[h.tag])
    BY <1>4, Enumeration
  <2> QED BY <1>4, <2>1
<1> DEFINE m == IF Len(ks) < h.max THEN Len(ks) ELSE h.max
           f == [i \in 1..m |-> PruneCheckCmd(h.tag, ks[i])]
<1>7. m \in Nat /\ m <= Len(ks)
  BY <1>3, <1>6
<1> HIDE DEF m
<1>8. /\ f \in Seq(Cmds) /\ Ordered(f)
      /\ \A a \in ToSet(f) : a.do = "pruneCheck"
  BY <1>3, <1>6, <1>7, PruneChecksShape
<1>9. Continue(c, f)
  BY <1>5 DEF m
<1> QED BY <1>8, <1>9

LEMMA PruneCheckMore ==
    ASSUME TypeOK, Shape, NEW c \in Client, SendPruneCheck(c)
    PROVE  \E more \in Seq(Cmds) :
              /\ Ordered(more) /\ Continue(c, more)
              /\ ToSet(more) = IF Live(Next1(c).key) THEN {}
                               ELSE {SMembersCmd(Next1(c).key, Next1(c).tag),
                                     SRemCmd(Next1(c).tag, Next1(c).key)}
<1> DEFINE h == Next1(c)
           m == SMembersCmd(h.key, h.tag)
           s == SRemCmd(h.tag, h.key)
<1>1. todo[c] # <<>> /\ h.do = "pruneCheck"
  BY DEF SendPruneCheck, Is
<1>2. h \in Cmds
  BY <1>1, FirstCommand
<1>3. h.key \in Key /\ h.tag \in Tag
  BY <1>1, <1>2, CommandFields
<1>4. m \in Cmds /\ s \in Cmds
  BY <1>3, CommandTypes
<1>5. MayFollow(m, s)
  BY <1>3, NoTagAssumption DEF MayFollow, CleansAll, SMembersCmd, SRemCmd
<1>6. CASE Live(h.key)
  <2>1. Continue(c, <<>>)
    BY <1>6 DEF SendPruneCheck
  <2>2. <<>> \in Seq(Cmds) /\ ToSet(<<>>) = {} /\ Ordered(<<>>)
    BY NoCommand
  <2> QED BY <1>6, <2>1, <2>2
<1>7. CASE ~Live(h.key)
  <2>1. Continue(c, <<m, s>>)
    BY <1>7 DEF SendPruneCheck
  <2>2. <<m, s>> \in Seq(Cmds) /\ ToSet(<<m, s>>) = {m, s} /\ Ordered(<<m, s>>)
    BY <1>4, <1>5, TwoCommands
  <2> QED BY <1>7, <2>1, <2>2
<1> QED BY <1>6, <1>7

\* The two scans are the last commands of their queues, so what they find is all
\* there is to do.
LEMMA LastCommand ==
    ASSUME Shape, NEW c \in Client, todo[c] # <<>>, Next1(c).do \in {"tagScan", "scan", "delTag"}
    PROVE  Tail(todo[c]) = <<>>
<1> DEFINE r == Tail(todo[c])
<1>1. r \in Seq(Cmds) /\ \A a \in ToSet(r) : MayFollow(Next1(c), a)
  BY FirstCommand
<1>2. ToSet(r) = {}
  BY <1>1 DEF MayFollow
<1> HIDE DEF r
<1>3. \A i \in 1..Len(r) : r[i] \in ToSet(r)
  BY <1>1 DEF ToSet
<1>4. Len(r) = 0
  BY <1>1, <1>2, <1>3
<1>5. r = <<>>
  BY <1>1, <1>4
<1> QED BY <1>5 DEF r

LEMMA TagScanQueue ==
    ASSUME TypeOK, Shape, NEW c \in Client, SendTagScan(c)
    PROVE  LET t == Next1(c).tag IN
           \E q \in Seq(Cmds) :
              /\ Ordered(q) /\ Closing(q)
              /\ todo' = [todo EXCEPT ![c] = q]
              /\ \A a \in ToSet(q) : \/ a.do = "tagCheck" /\ a.tag = t /\ a.key \in tagSet[t]
                                     \/ a = DelCmd({}, {}, {}) \/ a = DelTagCmd(t)
              /\ DelTagCmd(t) \in ToSet(q)
              /\ \A k \in tagSet[t] :
                    \E a \in ToSet(q) : a.do = "tagCheck" /\ a.tag = t /\ a.key = k
<1> DEFINE t == Next1(c).tag
<1>1. todo[c] # <<>> /\ Next1(c).do = "tagScan"
  BY DEF SendTagScan, Is
<1>2. Next1(c) \in Cmds /\ Tail(todo[c]) = <<>>
  BY <1>1, FirstCommand, LastCommand
<1>3. t \in Tag
  BY <1>1, <1>2, CommandFields
<1>4. tagSet[t] \in SUBSET Key /\ IsFiniteSet(tagSet[t])
  <2>1. tagSet[t] \in SUBSET Key
    BY <1>3 DEF TypeOK
  <2> QED BY <2>1, RedisAssumption, FS_Subset
<1>5. PICK ks \in SetToSeqs(tagSet[t]) :
        Continue(c, [i \in 1..Len(ks) |-> TagCheckCmd(t, ks[i])]
                    \o <<DelCmd({}, {}, {}), DelTagCmd(t)>>)
  BY DEF SendTagScan
<1>6. ks \in Seq(Key) /\ ToSet(ks) = tagSet[t]
  <2>1. ks \in Seq(tagSet[t]) /\ ToSet(ks) = tagSet[t]
    BY <1>4, Enumeration
  <2> QED BY <1>4, <2>1
<1> DEFINE q == InvalidationQueue(t, ks)
<1>7. /\ q \in Seq(Cmds) /\ Ordered(q) /\ Closing(q)
      /\ \A a \in ToSet(q) : \/ a.do = "tagCheck" /\ a.tag = t /\ a.key \in ToSet(ks)
                             \/ a = DelCmd({}, {}, {}) \/ a = DelTagCmd(t)
      /\ DelTagCmd(t) \in ToSet(q)
      /\ \A k \in ToSet(ks) : \E a \in ToSet(q) : a.do = "tagCheck" /\ a.tag = t /\ a.key = k
  BY <1>3, <1>6, InvalidationShape
<1> HIDE DEF q
<1>8. todo' = [todo EXCEPT ![c] = q]
  <2>1. todo' = [todo EXCEPT ![c] = q \o Tail(todo[c])]
    BY <1>5 DEF Continue, q, InvalidationQueue, TagChecks
  <2>2. q \o <<>> = q
    BY <1>7
  <2> QED BY <1>2, <2>1, <2>2
<1> QED BY <1>6, <1>7, <1>8

LEMMA ScanQueue ==
    ASSUME TypeOK, Shape, NEW c \in Client, SendScan(c)
    PROVE  \E q \in Seq(Cmds), d \in Cmds :
              /\ Ordered(q) /\ Closing(q)
              /\ todo' = [todo EXCEPT ![c] = q]
              /\ d.do = "del" /\ d.keys = {k \in Next1(c).keys : Live(k)}
              /\ d.metaKeys # {} => \A t \in Tag : tagSet[t] = {} \/ t \in d.metaTags
              /\ \A a \in ToSet(q) : \/ a = d
                                     \/ CleansAll(a) /\ a.key \in d.keys
              /\ d \in ToSet(q)
              /\ \A k \in d.keys : \E a \in ToSet(q) : CleansAll(a) /\ a.key = k
              /\ d.metaTags # {} => Next1(c).meta
<1> DEFINE h == Next1(c)
           K == {k \in h.keys : Live(k)}
           M == IF h.meta THEN {k \in Key : keyTags[k] # {}} ELSE {}
           T == IF h.meta THEN {t \in Tag : tagSet[t] # {}} ELSE {}
<1>1. todo[c] # <<>> /\ h.do = "scan"
  BY DEF SendScan, Is
<1>2. h \in Cmds /\ Tail(todo[c]) = <<>>
  BY <1>1, FirstCommand, LastCommand
<1>3. h.keys \in SUBSET Key /\ h.meta \in BOOLEAN
  BY <1>1, <1>2, CommandFields
<1>4. K \in SUBSET Key /\ IsFiniteSet(K) /\ M \in SUBSET Key /\ T \in SUBSET Tag
  <2>1. K \in SUBSET Key /\ M \in SUBSET Key /\ T \in SUBSET Tag
    BY <1>3
  <2> QED BY <2>1, RedisAssumption, FS_Subset
<1>5. PICK ks \in SetToSeqs(K) :
        Continue(c, [i \in 1..Len(ks) |-> SMembersCmd(ks[i], NoTag)]
                    \o <<DelCmd(ToSet(ks), M, T)>>)
  BY DEF SendScan
<1>6. ks \in Seq(Key) /\ ToSet(ks) = K
  <2>1. ks \in Seq(K) /\ ToSet(ks) = K
    BY <1>4, Enumeration
  <2> QED BY <1>4, <2>1
<1> DEFINE q == DeletionQueue(ks, M, T)
           d == DelCmd(ToSet(ks), M, T)
<1>7. d.metaKeys # {} => \A t \in Tag : tagSet[t] = {} \/ t \in d.metaTags
  BY DEF DelCmd
<1>8. d \in Cmds /\ d.do = "del" /\ d.keys = K /\ (d.metaTags # {} => h.meta)
  BY <1>4, <1>6, CommandTypes DEF DelCmd
<1> HIDE DEF K, M, T
<1>9. /\ q \in Seq(Cmds) /\ Ordered(q) /\ Closing(q)
      /\ \A a \in ToSet(q) : \/ a = d
                             \/ CleansAll(a) /\ a.key \in ToSet(ks)
      /\ d \in ToSet(q)
      /\ \A k \in ToSet(ks) : \E a \in ToSet(q) : CleansAll(a) /\ a.key = k
  BY <1>6, <1>8, DeletionShape
<1> HIDE DEF q
<1>10. todo' = [todo EXCEPT ![c] = q]
  <2>1. todo' = [todo EXCEPT ![c] = q \o Tail(todo[c])]
    BY <1>5 DEF Continue, q, DeletionQueue, Cleanings
  <2>2. q \o <<>> = q
    BY <1>9
  <2> QED BY <1>2, <2>1, <2>2
<1> HIDE DEF d
<1> QED BY <1>6, <1>7, <1>8, <1>9, <1>10 DEF K

\* A live member joins the keys of the deletion behind it.
LEMMA TagCheckQueue ==
    ASSUME TypeOK, Shape, NEW c \in Client, SendTagCheck(c)
    PROVE  LET h == Next1(c)
               R == ToSet(Tail(todo[c]))
           IN  \E q \in Seq(Cmds) :
                  /\ Ordered(q) /\ Closing(q)
                  /\ todo' = [todo EXCEPT ![c] = q]
                  /\ \A a \in R : a.do # "del" => a \in ToSet(q)
                  /\ \A b \in R : b.do = "del" =>
                        \E a \in ToSet(q) : a.do = "del" /\ b.keys \subseteq a.keys
                  /\ \A a \in ToSet(q) :
                        \/ a \in R
                        \/ a = SMembersCmd(h.key, h.tag)
                        \/ /\ a.do = "del" /\ a.metaKeys = {} /\ a.metaTags = {}
                           /\ \E b \in R : b.do = "del" /\ a.keys = b.keys \cup {h.key}
                  /\ SMembersCmd(h.key, h.tag) \in ToSet(q)
                  /\ \E a \in R : a.do = "delTag" /\ a.tag = h.tag
                  /\ Live(h.key) => \E a \in ToSet(q) : a.do = "del" /\ h.key \in a.keys
<1> DEFINE h == Next1(c)
           r == Tail(todo[c])
           n == Len(r)
           m == SMembersCmd(h.key, h.tag)
           d == DelCmd(r[n - 1].keys \cup {h.key}, {}, {})
           e == r[n]
           p == SubSeq(r, 1, n - 2)
<1>1. todo[c] # <<>> /\ h.do = "tagCheck"
  BY DEF SendTagCheck, Is
<1>2. /\ h \in Cmds /\ r \in Seq(Cmds) /\ Ordered(r) /\ Closing(r)
      /\ \A a \in ToSet(r) : a \in Cmds /\ MayFollow(h, a)
  BY <1>1, FirstCommand
<1>3. h.key \in Key /\ h.tag \in Tag
  BY <1>1, <1>2, CommandFields
<1>4. /\ n \in Nat /\ n >= 2
      /\ r[n - 1].do = "del" /\ e.do = "delTag" /\ e.tag = h.tag
  <2> DEFINE q == todo[c]
  <2>1. q \in Seq(Cmds) /\ q # <<>> /\ Closing(q) /\ q[1].do = "tagCheck" /\ q[1].tag = h.tag
    BY <1>1 DEF Shape, Next1
  <2> HIDE DEF q
  <2>2. /\ Len(q) \in Nat \ {0} /\ Len(Tail(q)) = Len(q) - 1
        /\ \A i \in 1..Len(Tail(q)) : Tail(q)[i] = q[i + 1]
    BY <2>1, HeadAndTail
  <2>3. /\ 1 < Len(q) - 1 /\ q[Len(q) - 1].do = "del"
        /\ q[Len(q)].do = "delTag" /\ q[Len(q)].tag = h.tag
    BY <2>1, <2>2 DEF Closing
  <2>4. /\ Len(Tail(q)) - 1 \in 1..Len(Tail(q)) /\ Len(Tail(q)) \in 1..Len(Tail(q))
        /\ Len(Tail(q)) - 1 + 1 = Len(q) - 1 /\ Len(Tail(q)) + 1 = Len(q)
    BY <2>2, <2>3
  <2>5. Tail(q)[Len(Tail(q)) - 1] = q[Len(q) - 1] /\ Tail(q)[Len(Tail(q))] = q[Len(q)]
    BY <2>2, <2>4
  <2> QED BY <2>2, <2>3, <2>5 DEF q
<1> HIDE DEF h, r, n
<1>5. r[n - 1] \in ToSet(r) /\ e \in ToSet(r) /\ r[n - 1] \in Cmds /\ e \in Cmds
  <2>1. n - 1 \in 1..Len(r) /\ n \in 1..Len(r)
    BY <1>4 DEF n
  <2> QED BY <1>2, <2>1 DEF ToSet
<1>6. m \in Cmds /\ d \in Cmds
  <2>1. r[n - 1].keys \cup {h.key} \in SUBSET Key
    BY <1>3, <1>4, <1>5, CommandFields
  <2> QED BY <1>3, <2>1, CommandTypes
<1>7. /\ m.do = "smembers" /\ m.skip = h.tag /\ m.skip # NoTag
      /\ d.do = "del" /\ d.keys = r[n - 1].keys \cup {h.key}
      /\ d.metaKeys = {} /\ d.metaTags = {}
  BY <1>3, NoTagAssumption DEF SMembersCmd, DelCmd
<1>8. /\ p \in Seq(Cmds) /\ Len(p) = n - 2
      /\ \A i \in 1..Len(p) : i \in 1..Len(r) /\ p[i] = r[i] /\ r[i] \in ToSet(p)
  <2>1. n - 2 \in 0..Len(r) /\ Len(r) = n
    BY <1>4 DEF n
  <2>2. /\ p \in Seq(Cmds) /\ Len(p) = n - 2
        /\ \A i \in 1..n - 2 : p[i] = r[i] /\ r[i] \in ToSet(p)
    BY <1>2, <2>1, Beginning
  <2> QED BY <1>4, <2>1, <2>2
<1>9. CASE Live(h.key)
  <2> DEFINE pm == p \o <<m>>
             q == pm \o <<d, e>>
  <2>1. /\ Ordered(p)
        /\ \A a \in ToSet(p) : /\ a \in ToSet(r)
                               /\ MayFollow(a, r[n - 1])
    <3>1. Ordered(p)
      BY <1>8, <1>2 DEF Ordered
    <3>2. \A i \in 1..Len(p) : p[i] \in ToSet(r) /\ MayFollow(p[i], r[n - 1])
      <4> SUFFICES ASSUME NEW i \in 1..Len(p)
                   PROVE  p[i] \in ToSet(r) /\ MayFollow(p[i], r[n - 1])
        OBVIOUS
      <4>1. i \in 1..Len(r) /\ n - 1 \in 1..Len(r) /\ i < n - 1 /\ p[i] = r[i]
        BY <1>4, <1>8 DEF n
      <4>2. MayFollow(r[i], r[n - 1])
        BY <1>2, <4>1 DEF Ordered
      <4>3. r[i] \in ToSet(r)
        BY <1>2, <4>1 DEF ToSet
      <4> QED BY <4>1, <4>2, <4>3
    <3>3. \A a \in ToSet(p) : \E i \in 1..Len(p) : a = p[i]
      BY <1>8 DEF ToSet
    <3> QED BY <3>1, <3>2, <3>3
  <2>2. \A a \in ToSet(p) : \/ a.do = "smembers" /\ a.skip = h.tag
                            \/ a.do = "tagCheck" /\ a.tag = h.tag
    BY <1>1, <1>2, <1>4, <2>1 DEF MayFollow
  <2>3. \A a \in ToSet(r) : a \in ToSet(p) \/ a = r[n - 1] \/ a = e
    <3>1. \A a \in ToSet(r) : \E i \in 1..Len(r) : a = r[i]
      BY <1>2 DEF ToSet
    <3> SUFFICES ASSUME NEW i \in 1..Len(r)
                 PROVE  r[i] \in ToSet(p) \/ r[i] = r[n - 1] \/ r[i] = e
      BY <3>1
    <3>2. CASE i <= n - 2
      <4>1. i \in 1..Len(p)
        BY <1>4, <1>8, <3>2 DEF n
      <4> QED BY <1>8, <4>1
    <3>3. CASE i > n - 2
      <4>1. i = n - 1 \/ i = n
        BY <1>4, <3>3 DEF n
      <4> QED BY <4>1
    <3> QED BY <1>4, <3>2, <3>3
  <2> HIDE DEF m, d, e, p
  <2>4. /\ <<m>> \in Seq(Cmds) /\ Ordered(<<m>>) /\ ToSet(<<m>>) = {m}
        /\ <<d, e>> \in Seq(Cmds) /\ Ordered(<<d, e>>) /\ ToSet(<<d, e>>) = {d, e}
    <3>1. MayFollow(d, e)
      BY <1>4, <1>7 DEF MayFollow, CleansAll
    <3> QED BY <1>5, <1>6, <3>1, OneCommand, TwoCommands
  <2>5. \A a \in ToSet(p) : MayFollow(a, m) /\ MayFollow(a, d) /\ MayFollow(a, e)
    BY <1>3, <1>4, <1>7, <2>2, NoTagAssumption DEF MayFollow, CleansAll
  <2>6. MayFollow(m, d) /\ MayFollow(m, e)
    BY <1>4, <1>7 DEF MayFollow, CleansAll
  <2>7. pm \in Seq(Cmds) /\ Ordered(pm) /\ ToSet(pm) = ToSet(p) \cup {m}
    <3>1. \A a \in ToSet(p), b \in ToSet(<<m>>) : MayFollow(a, b)
      BY <2>4, <2>5
    <3>2. pm \in Seq(Cmds) /\ Ordered(pm) /\ ToSet(pm) = ToSet(p) \cup ToSet(<<m>>)
      BY <1>8, <2>1, <2>4, <3>1, Chained
    <3> QED BY <2>4, <3>2
  <2> HIDE DEF pm
  <2>8. q \in Seq(Cmds) /\ Ordered(q) /\ ToSet(q) = ToSet(p) \cup {m, d, e}
    <3>1. \A a \in ToSet(pm), b \in ToSet(<<d, e>>) : MayFollow(a, b)
      BY <2>4, <2>5, <2>6, <2>7
    <3>2. q \in Seq(Cmds) /\ Ordered(q) /\ ToSet(q) = ToSet(pm) \cup ToSet(<<d, e>>)
      BY <2>4, <2>7, <3>1, Chained
    <3> QED BY <2>4, <2>7, <3>2
  <2>9. Closing(q)
    <3>1. \A a \in ToSet(pm) : a.do = "tagCheck" => a.tag = e.tag
      BY <1>4, <1>7, <2>2, <2>7
    <3> QED BY <1>4, <1>5, <1>6, <1>7, <2>7, <3>1, Closed
  <2>10. q = p \o <<m, d, e>>
    BY <1>5, <1>6, <1>8 DEF pm
  <2> HIDE DEF q
  <2>11. todo' = [todo EXCEPT ![c] = q]
    BY <1>9, <2>10 DEF SendTagCheck, h, r, n, m, d, e, p
  <2>12. /\ \A a \in ToSet(r) : a.do # "del" => a \in ToSet(q)
         /\ \A b \in ToSet(r) : b.do = "del" => b = r[n - 1]
    BY <1>4, <2>2, <2>3, <2>8
  <2>13. d \in ToSet(q) /\ m \in ToSet(q) /\ d.do = "del" /\ h.key \in d.keys
    BY <1>7, <2>8
  <2>14. \A b \in ToSet(r) : b.do = "del" =>
            \E a \in ToSet(q) : a.do = "del" /\ b.keys \subseteq a.keys
    BY <1>7, <2>12, <2>13
  <2>15. \A a \in ToSet(q) :
            \/ a \in ToSet(r)
            \/ a = m
            \/ /\ a.do = "del" /\ a.metaKeys = {} /\ a.metaTags = {}
               /\ \E b \in ToSet(r) : b.do = "del" /\ a.keys = b.keys \cup {h.key}
    BY <1>4, <1>5, <1>7, <2>1, <2>8
  <2> QED BY <1>4, <1>5, <2>8, <2>9, <2>11, <2>12, <2>13, <2>14, <2>15 DEF m, h, r
<1>10. CASE ~Live(h.key)
  <2> DEFINE q == <<m>> \o r
  <2>1. q \in Seq(Cmds) /\ Ordered(q) /\ ToSet(q) = {m} \cup ToSet(r)
    <3>1. <<m>> \in Seq(Cmds) /\ Ordered(<<m>>) /\ ToSet(<<m>>) = {m}
      BY <1>6, OneCommand
    <3>2. \A a \in ToSet(<<m>>), b \in ToSet(r) : MayFollow(a, b)
      BY <1>1, <1>2, <1>7, <3>1 DEF MayFollow, CleansAll
    <3>3. q \in Seq(Cmds) /\ Ordered(q) /\ ToSet(q) = ToSet(<<m>>) \cup ToSet(r)
      BY <1>2, <3>1, <3>2, Chained
    <3> QED BY <3>1, <3>3
  <2>2. Closing(q)
    <3>1. <<m>> \in Seq(Cmds) /\ ToSet(<<m>>) = {m}
      BY <1>6, OneCommand
    <3>2. \A a \in ToSet(<<m>>) : a.do # "tagCheck"
      BY <1>7, <3>1
    <3> QED BY <1>2, <3>1, <3>2, ClosingConcatenation
  <2>3. todo' = [todo EXCEPT ![c] = q]
    BY <1>10 DEF SendTagCheck, h, r
  <2> HIDE DEF q, m
  <2> QED BY <1>4, <1>5, <1>10, <2>1, <2>2, <2>3 DEF m, h, r
<1> QED BY <1>9, <1>10

-----------------------------------------------------------------------------
(* Calling a method.                                                       *)

\* The commands of a method that has just been called: every clean-up belongs to
\* a key that will be written or deleted, and the other way round.
Fresh(Q) ==
    /\ Q # {}
    /\ \A a \in Q : a.do \in {"set", "smembers", "tag", "prune", "del", "scan", "tagScan"}
    /\ \A a \in Q : a.do = "smembers" =>
          CleansAll(a) /\ \E b \in Q : b.do \in {"set", "del"} /\ a.key \in b.keys
    /\ \A a \in Q : a.do = "tag" => \E b \in Q : b.do = "set"
    /\ \A a \in Q : a.do = "set" => \A k \in a.keys :
          /\ \E b \in Q : CleansAll(b) /\ b.key = k
          /\ a.tags # {} => \E b \in Q : b.do = "tag" /\ b.key = k
    /\ \A a \in Q : a.do = "del" =>
          /\ a.metaKeys = {} /\ a.metaTags = {}
          /\ \A k \in a.keys : \E b \in Q : CleansAll(b) /\ b.key = k
    /\ \A a \in Q : a.do = "scan" /\ a.meta => a.keys = Key

LEMMA ListsAreSequences ==
    ASSUME NEW S, IsFiniteSet(S), NEW s \in Lists(S)
    PROVE  s \in Seq(S)
<1>1. PICK T \in SUBSET S : s \in SetToSeqs(T)
  BY DEF Lists
<1>2. IsFiniteSet(T)
  BY FS_Subset
<1>3. s \in Seq(T)
  BY <1>1, <1>2, Enumeration
<1> QED BY <1>3

LEMMA FreshSet ==
    ASSUME NEW k \in Key, NEW ts \in Seq(Tag), NEW ttl \in Ttl
    PROVE  Fresh(ToSet(SetQueue(k, ts, ttl)))
<1> DEFINE T == ToSet(ts)
           s == SetCmd(k, T, ttl)
           m == SMembersCmd(k, NoTag)
           g == TagCmd(k, T, ttl)
           Q == ToSet(SetQueue(k, ts, ttl))
<1>1. /\ \A a \in Q : a = s \/ a = m \/ (T # {} /\ a = g) \/ a.do = "prune"
      /\ s \in Q /\ m \in Q /\ (T # {} => g \in Q)
  BY SetShape
<1>2. /\ s.do = "set" /\ s.keys = {k} /\ s.tags = T
      /\ m.do = "smembers" /\ m.key = k /\ CleansAll(m)
      /\ g.do = "tag" /\ g.key = k
  BY DEF SetCmd, SMembersCmd, TagCmd, CleansAll
<1> HIDE DEF T, s, m, g, Q
<1>3. Fresh(Q)
  BY <1>1, <1>2 DEF Fresh, CleansAll
<1> QED BY <1>3 DEF Q

LEMMA FreshSetMany ==
    ASSUME NEW ks \in Seq(Key), NEW ttl \in Ttl
    PROVE  Fresh(ToSet(SetManyQueue(ks, ttl)))
<1> DEFINE s == MSetCmd(ToSet(ks), ttl)
           Q == ToSet(SetManyQueue(ks, ttl))
<1>1. /\ \A a \in Q : a = s \/ (CleansAll(a) /\ a.key \in ToSet(ks))
      /\ s \in Q
      /\ \A k \in ToSet(ks) : \E a \in Q : CleansAll(a) /\ a.key = k
  BY SetManyShape
<1>2. s.do = "set" /\ s.keys = ToSet(ks) /\ s.tags = {}
  BY DEF MSetCmd
<1> HIDE DEF s, Q
<1>3. Fresh(Q)
  BY <1>1, <1>2 DEF Fresh, CleansAll
<1> QED BY <1>3 DEF Q

LEMMA FreshDeletion ==
    ASSUME NEW ks \in Seq(Key)
    PROVE  /\ DeletionQueue(ks, {}, {}) \in Seq(Cmds)
           /\ Ordered(DeletionQueue(ks, {}, {})) /\ Closing(DeletionQueue(ks, {}, {}))
           /\ Fresh(ToSet(DeletionQueue(ks, {}, {})))
<1> DEFINE d == DelCmd(ToSet(ks), {}, {})
           q == DeletionQueue(ks, {}, {})
           Q == ToSet(q)
<1>1. d \in Cmds
  <2>1. ToSet(ks) \in SUBSET Key
    BY DEF ToSet
  <2> QED BY <2>1, CommandTypes
<1>2. /\ q \in Seq(Cmds) /\ Ordered(q) /\ Closing(q)
      /\ \A a \in Q : a = d \/ (CleansAll(a) /\ a.key \in ToSet(ks))
      /\ d \in Q
      /\ \A k \in ToSet(ks) : \E a \in Q : CleansAll(a) /\ a.key = k
  BY <1>1, DeletionShape
<1>3. d.do = "del" /\ d.keys = ToSet(ks) /\ d.metaKeys = {} /\ d.metaTags = {}
  BY DEF DelCmd
<1> HIDE DEF d, Q
<1>4. Fresh(Q)
  BY <1>2, <1>3 DEF Fresh, CleansAll
<1> QED BY <1>2, <1>4 DEF Q

LEMMA FreshOne ==
    ASSUME NEW a \in Cmds, a.do \in {"prune", "scan", "tagScan"},
           a.do = "scan" /\ a.meta => a.keys = Key
    PROVE  /\ <<a>> \in Seq(Cmds) /\ Ordered(<<a>>) /\ Closing(<<a>>)
           /\ Fresh(ToSet(<<a>>))
<1>1. /\ <<a>> \in Seq(Cmds) /\ ToSet(<<a>>) = {a} /\ Ordered(<<a>>)
      /\ Closing(<<a>>)
  BY OneCommand
<1>2. Fresh({a})
  BY DEF Fresh
<1> QED BY <1>1, <1>2

\* A call either empties the database at once or queues such commands.
LEMMA Called ==
    ASSUME NEW c \in Client, Invoke(c)
    PROVE  \/ Clear(c)
           \/ \E q \in Seq(Cmds) :
                 /\ Ordered(q) /\ Closing(q) /\ Fresh(ToSet(q))
                 /\ Call(c, q)
<1>1. ASSUME NEW k \in Key, NEW ts \in Lists(Tag), NEW ttl \in Ttl, Set(c, k, ts, ttl)
      PROVE  \E q \in Seq(Cmds) :
                 Ordered(q) /\ Closing(q) /\ Fresh(ToSet(q)) /\ Call(c, q)
  <2>1. ts \in Seq(Tag)
    BY RedisAssumption, ListsAreSequences
  <2>2. Call(c, SetQueue(k, ts, ttl))
    BY <1>1 DEF Set, SetQueue
  <2>3. /\ SetQueue(k, ts, ttl) \in Seq(Cmds)
        /\ Ordered(SetQueue(k, ts, ttl)) /\ Closing(SetQueue(k, ts, ttl))
    BY <2>1, SetShape
  <2>4. Fresh(ToSet(SetQueue(k, ts, ttl)))
    BY <2>1, FreshSet
  <2> QED BY <2>2, <2>3, <2>4
<1>2. ASSUME NEW ks \in Lists(Key), NEW ttl \in Ttl, SetMany(c, ks, ttl)
      PROVE  \E q \in Seq(Cmds) :
                 Ordered(q) /\ Closing(q) /\ Fresh(ToSet(q)) /\ Call(c, q)
  <2>1. ks \in Seq(Key)
    BY RedisAssumption, ListsAreSequences
  <2>2. Call(c, SetManyQueue(ks, ttl))
    BY <1>2 DEF SetMany, SetManyQueue, Cleanings
  <2>3. /\ SetManyQueue(ks, ttl) \in Seq(Cmds)
        /\ Ordered(SetManyQueue(ks, ttl)) /\ Closing(SetManyQueue(ks, ttl))
    BY <2>1, SetManyShape
  <2>4. Fresh(ToSet(SetManyQueue(ks, ttl)))
    BY <2>1, FreshSetMany
  <2> QED BY <2>2, <2>3, <2>4
<1>3. ASSUME NEW ks \in Lists(Key), DelMany(c, ks)
      PROVE  \E q \in Seq(Cmds) :
                 Ordered(q) /\ Closing(q) /\ Fresh(ToSet(q)) /\ Call(c, q)
  <2>1. ks \in Seq(Key)
    BY RedisAssumption, ListsAreSequences
  <2>2. Call(c, DeletionQueue(ks, {}, {}))
    BY <1>3 DEF DelMany, DeleteKeys, DeletionQueue, Cleanings
  <2> QED BY <2>1, <2>2, FreshDeletion
<1>4. ASSUME NEW a \in Cmds, a.do \in {"prune", "scan", "tagScan"}, Call(c, <<a>>),
             a.do = "scan" /\ a.meta => a.keys = Key
      PROVE  \E q \in Seq(Cmds) :
                 Ordered(q) /\ Closing(q) /\ Fresh(ToSet(q)) /\ Call(c, q)
  BY <1>4, FreshOne
<1>5. ASSUME NEW K \in SUBSET Key, NEW m \in BOOLEAN, m => K = Key, DelPattern(c, K, m)
      PROVE  \E q \in Seq(Cmds) :
                 Ordered(q) /\ Closing(q) /\ Fresh(ToSet(q)) /\ Call(c, q)
  <2>1. ScanCmd(K, m) \in Cmds
    BY CommandTypes
  <2>2. /\ ScanCmd(K, m).do = "scan"
        /\ ScanCmd(K, m).meta => ScanCmd(K, m).keys = Key
    BY <1>5 DEF ScanCmd
  <2>3. Call(c, <<ScanCmd(K, m)>>)
    BY <1>5 DEF DelPattern
  <2> QED BY <1>4, <2>1, <2>2, <2>3
<1>6. ASSUME NEW t \in Tag, InvalidateByTag(c, t)
      PROVE  \E q \in Seq(Cmds) :
                 Ordered(q) /\ Closing(q) /\ Fresh(ToSet(q)) /\ Call(c, q)
  <2>1. TagScanCmd(t) \in Cmds
    BY CommandTypes
  <2>2. TagScanCmd(t).do = "tagScan"
    BY DEF TagScanCmd
  <2>3. Call(c, <<TagScanCmd(t)>>)
    BY <1>6 DEF InvalidateByTag
  <2> QED BY <1>4, <2>1, <2>2, <2>3
<1>7. ASSUME NEW t \in Tag, PruneTagMetadata(c, t)
      PROVE  \E q \in Seq(Cmds) :
                 Ordered(q) /\ Closing(q) /\ Fresh(ToSet(q)) /\ Call(c, q)
  <2>1. PruneScanCmd(t, Cardinality(Key)) \in Cmds
    BY RedisAssumption, FS_CardinalityType, CommandTypes
  <2>2. PruneScanCmd(t, Cardinality(Key)).do = "prune"
    BY DEF PruneScanCmd
  <2>3. Call(c, <<PruneScanCmd(t, Cardinality(Key))>>)
    BY <1>7 DEF PruneTagMetadata
  <2> QED BY <1>4, <2>1, <2>2, <2>3
<1>8. ASSUME NEW k \in Key, DelPattern(c, {k}, FALSE)
      PROVE  \E q \in Seq(Cmds) :
                 Ordered(q) /\ Closing(q) /\ Fresh(ToSet(q)) /\ Call(c, q)
  <2>1. {k} \in SUBSET Key /\ FALSE \in BOOLEAN
    OBVIOUS
  <2> QED BY <1>5, <1>8, <2>1
<1>9. ASSUME DelPattern(c, Key, TRUE)
      PROVE  \E q \in Seq(Cmds) :
                 Ordered(q) /\ Closing(q) /\ Fresh(ToSet(q)) /\ Call(c, q)
  <2>1. Key \in SUBSET Key /\ TRUE \in BOOLEAN
    OBVIOUS
  <2> QED BY <1>5, <1>9, <2>1
<1> QED BY <1>1, <1>2, <1>3, <1>6, <1>7, <1>8, <1>9 DEF Invoke

LEMMA ShapeStep ==
    ASSUME TypeOK, Shape, [Next]_vars
    PROVE  Shape'
<1>1. CASE UNCHANGED todo
  BY <1>1 DEF Shape
<1>2. ASSUME NEW c \in Client, Invoke(c)
      PROVE  Shape'
  <2>1. CASE Clear(c)
    BY <1>1, <2>1 DEF Clear
  <2>2. ASSUME NEW q \in Seq(Cmds), Ordered(q), Closing(q), Call(c, q)
        PROVE  Shape'
    BY <2>2, Queued DEF Call
  <2> QED BY <1>2, <2>1, <2>2, Called
<1>3. ASSUME NEW c \in Client, Send(c)
      PROVE  Shape'
  <2>1. ASSUME todo[c] # <<>>, Continue(c, <<>>)
        PROVE  Shape'
    BY <2>1, DroppedShape
  <2>2. CASE SendSet(c)
    BY <2>1, <2>2 DEF SendSet, Is
  <2>3. CASE SendUntag(c)
    BY <2>1, <2>3 DEF SendUntag, Is
  <2>4. CASE SendTag(c)
    BY <2>1, <2>4 DEF SendTag, Is
  <2>5. CASE SendSRem(c)
    BY <2>1, <2>5 DEF SendSRem, Is
  <2>6. CASE SendDel(c)
    BY <2>1, <2>6 DEF SendDel, Is
  <2>7. CASE SendDelTag(c)
    BY <2>1, <2>7 DEF SendDelTag, Is
  <2>8. CASE SendSMembers(c)
    <3>1. PICK more \in Seq(Cmds) :
            /\ Ordered(more) /\ Continue(c, more)
            /\ ToSet(more) \subseteq {UntagCmd(Next1(c).key,
                                               keyTags[Next1(c).key] \ {Next1(c).skip})}
      BY <2>8, SMembersMore
    <3>2. todo[c] # <<>> /\ Next1(c).do = "smembers"
      BY <2>8 DEF SendSMembers, Is
    <3>3. \A a \in ToSet(more) : a.do = "untag"
      BY <3>1 DEF UntagCmd
    <3>4. \A a \in ToSet(more) :
            /\ a.do # "tagCheck"
            /\ \A b \in Cmds : MayFollow(Head(todo[c]), b) => MayFollow(a, b)
      BY <3>2, <3>3 DEF MayFollow, CleansAll, Next1
    <3> QED BY <3>1, <3>2, <3>4, Continued
  <2>9. CASE SendPruneScan(c)
    <3>1. PICK more \in Seq(Cmds) :
            /\ Ordered(more) /\ Continue(c, more)
            /\ \A a \in ToSet(more) : a.do = "pruneCheck"
      BY <2>9, PruneScanMore
    <3>2. todo[c] # <<>> /\ Next1(c).do = "prune"
      BY <2>9 DEF SendPruneScan, Is
    <3>3. \A a \in ToSet(more) :
            /\ a.do # "tagCheck"
            /\ \A b \in Cmds : MayFollow(Head(todo[c]), b) => MayFollow(a, b)
      BY <3>1, <3>2 DEF MayFollow, CleansAll, Next1
    <3> QED BY <3>1, <3>2, <3>3, Continued
  <2>10. CASE SendPruneCheck(c)
    <3>1. PICK more \in Seq(Cmds) :
            /\ Ordered(more) /\ Continue(c, more)
            /\ ToSet(more) \subseteq {SMembersCmd(Next1(c).key, Next1(c).tag),
                                      SRemCmd(Next1(c).tag, Next1(c).key)}
      BY <2>10, PruneCheckMore
    <3>2. /\ todo[c] # <<>> /\ Next1(c).do = "pruneCheck"
          /\ Next1(c).tag # NoTag
      <4>1. todo[c] # <<>> /\ Next1(c).do = "pruneCheck"
        BY <2>10 DEF SendPruneCheck, Is
      <4> QED BY <4>1, FirstCommand, CommandFields, NoTagAssumption
    <3>3. \A a \in ToSet(more) : \/ a.do = "smembers" /\ a.skip # NoTag
                                 \/ a.do = "srem"
      BY <3>1, <3>2 DEF SMembersCmd, SRemCmd
    <3>4. \A a \in ToSet(more) :
            /\ a.do # "tagCheck"
            /\ \A b \in Cmds : MayFollow(Head(todo[c]), b) => MayFollow(a, b)
      BY <3>2, <3>3 DEF MayFollow, CleansAll, Next1
    <3> QED BY <3>1, <3>2, <3>4, Continued
  <2>11. CASE SendTagScan(c)
    BY <2>11, TagScanQueue, Queued
  <2>12. CASE SendTagCheck(c)
    BY <2>12, TagCheckQueue, Queued
  <2>13. CASE SendScan(c)
    BY <2>13, ScanQueue, Queued
  <2> QED BY <1>3, <2>2, <2>3, <2>4, <2>5, <2>6, <2>7, <2>8, <2>9, <2>10, <2>11,
             <2>12, <2>13 DEF Send
<1>4. ASSUME NEW c \in Client, Crash(c)
      PROVE  Shape'
  <2>1. todo' = [todo EXCEPT ![c] = <<>>]
    BY <1>4 DEF Crash
  <2>2. <<>> \in Seq(Cmds) /\ Ordered(<<>>) /\ Closing(<<>>)
    BY NoCommand
  <2> QED BY <2>1, <2>2, Queued
<1>5. CASE Tick
  BY <1>1, <1>5 DEF Tick
<1> QED BY <1>1, <1>2, <1>3, <1>4, <1>5 DEF Next, vars

-----------------------------------------------------------------------------
(* Type correctness.                                                       *)

\* TypeOK without the queues, which Shape contains.
StoreOK ==
    /\ exp \in [Key -> Int] /\ tagsExp \in [Key -> Int]
    /\ \A k \in Key : exp[k] \in {Gone, Never} \/ exp[k] > now
    /\ \A k \in Key : tagsExp[k] = Never \/ (tagsExp[k] > now /\ keyTags[k] # {})
    /\ keyTags \in [Key -> SUBSET Tag]
    /\ tagSet \in [Tag -> SUBSET Key]
    /\ now \in 0..MaxTime
HistoryOK ==
    /\ given \in [Key -> SUBSET Tag]
    /\ dirty \subseteq Key
    /\ lapsed \subseteq Key

LEMMA TypeSplit == TypeOK <=> StoreOK /\ HistoryOK /\ todo \in [Client -> Seq(Cmds)]
BY DEF TypeOK, StoreOK, HistoryOK

LEMMA TypeInit == Init => TypeOK /\ Shape
<1> SUFFICES ASSUME Init PROVE TypeOK /\ Shape
  OBVIOUS
<1>1. <<>> \in Seq(Cmds) /\ Ordered(<<>>) /\ Closing(<<>>)
  BY NoCommand
<1>2. todo = [c \in Client |-> <<>>]
  BY DEF Init
<1>3. StoreOK
  BY RedisAssumption DEF Init, StoreOK, Gone, Never
<1>4. HistoryOK
  BY DEF Init, HistoryOK
<1> QED BY <1>1, <1>2, <1>3, <1>4, TypeSplit DEF Shape

LEMMA StoreStep ==
    ASSUME TypeOK, Shape, [Next]_vars
    PROVE  StoreOK' /\ HistoryOK'
<1> USE DEF Gone, Never
<1>1. StoreOK /\ HistoryOK
  BY TypeSplit
<1>2. CASE UNCHANGED <<redis, now, given, dirty, lapsed>>
  BY <1>1, <1>2 DEF StoreOK, HistoryOK, redis
<1>3. ASSUME NEW c \in Client, Invoke(c)
      PROVE  StoreOK' /\ HistoryOK'
  <2>1. CASE Clear(c)
    BY <1>1, <2>1 DEF Clear, StoreOK, HistoryOK
  <2>2. ASSUME NEW q \in Seq(Cmds), Call(c, q)
        PROVE  StoreOK' /\ HistoryOK'
    BY <1>2, <2>2 DEF Call
  <2> QED BY <1>3, <2>1, <2>2, Called
<1>4. ASSUME NEW c \in Client, Send(c)
      PROVE  StoreOK' /\ HistoryOK'
  <2> DEFINE h == Next1(c)
  <2>1. ASSUME todo[c] # <<>>
        PROVE  h \in Cmds
    BY <2>1, FirstCommand
  <2>2. CASE SendSet(c)
    <3>1. h \in Cmds /\ h.do = "set"
      BY <2>1, <2>2 DEF SendSet, Is
    <3>2. h.keys \in SUBSET Key /\ h.tags \in SUBSET Tag /\ h.ttl \in Nat
      BY <3>1, CommandFields, RedisAssumption
    <3>3. Deadline(h.ttl) \in Int /\ (Deadline(h.ttl) = Never \/ Deadline(h.ttl) > now)
      BY <1>1, <3>2, RedisAssumption DEF Deadline, StoreOK
    <3>4. StoreOK'
      BY <1>1, <2>2, <3>2, <3>3 DEF SendSet, StoreOK
    <3>5. HistoryOK'
      BY <1>1, <2>2, <3>2 DEF SendSet, HistoryOK
    <3> QED BY <3>4, <3>5
  <2>3. CASE SendUntag(c)
    <3>1. h \in Cmds /\ h.do = "untag"
      BY <2>1, <2>3 DEF SendUntag, Is
    <3>2. h.key \in Key /\ h.tags \in SUBSET Tag
      BY <3>1, CommandFields
    <3> QED BY <1>1, <2>3, <3>2 DEF SendUntag, StoreOK, HistoryOK
  <2>4. CASE SendTag(c)
    <3>1. h \in Cmds /\ h.do = "tag"
      BY <2>1, <2>4 DEF SendTag, Is
    <3>2. h.key \in Key /\ h.tags \in SUBSET Tag /\ h.tags # {} /\ h.ttl \in Nat
      BY <3>1, CommandFields, RedisAssumption
    <3>3. tagsExp' \in [Key -> Int]
      BY <1>1, <2>4, <3>2, RedisAssumption DEF SendTag, StoreOK
    <3>4. keyTags' \in [Key -> SUBSET Tag] /\ tagSet' \in [Tag -> SUBSET Key]
      BY <1>1, <2>4, <3>2 DEF SendTag, StoreOK
    <3>5. \A k \in Key : tagsExp'[k] = Never \/ (tagsExp'[k] > now /\ keyTags'[k] # {})
      BY <1>1, <2>4, <3>2, RedisAssumption DEF SendTag, StoreOK
    <3> QED BY <1>1, <2>4, <3>3, <3>4, <3>5 DEF SendTag, StoreOK, HistoryOK
  <2>5. CASE SendSRem(c)
    <3>1. h \in Cmds /\ h.do = "srem"
      BY <2>1, <2>5 DEF SendSRem, Is
    <3>2. h.key \in Key /\ h.tag \in Tag
      BY <3>1, CommandFields
    <3> QED BY <1>1, <2>5, <3>2 DEF SendSRem, StoreOK, HistoryOK
  <2>6. CASE SendDel(c)
    <3>1. h \in Cmds /\ h.do = "del"
      BY <2>1, <2>6 DEF SendDel, Is
    <3> QED BY <1>1, <2>6, <3>1 DEF SendDel, StoreOK, HistoryOK
  <2>7. CASE SendDelTag(c)
    <3>1. h \in Cmds /\ h.do = "delTag"
      BY <2>1, <2>7 DEF SendDelTag, Is
    <3>2. h.tag \in Tag
      BY <3>1, CommandFields
    <3> QED BY <1>1, <2>7, <3>2 DEF SendDelTag, StoreOK, HistoryOK
  <2>8. CASE SendSMembers(c) \/ SendPruneScan(c) \/ SendPruneCheck(c)
             \/ SendTagScan(c) \/ SendTagCheck(c) \/ SendScan(c)
    BY <1>2, <2>8 DEF SendSMembers, SendPruneScan, SendPruneCheck, SendTagScan,
                      SendTagCheck, SendScan
  <2> QED BY <1>4, <2>2, <2>3, <2>4, <2>5, <2>6, <2>7, <2>8 DEF Send
<1>5. ASSUME NEW c \in Client, Crash(c)
      PROVE  StoreOK' /\ HistoryOK'
  <2>1. Handled(todo[c]) \subseteq Key
    <3>1. todo[c] \in Seq(Cmds)
      BY DEF Shape
    <3> SUFFICES ASSUME NEW i \in 1..Len(todo[c])
                 PROVE  LET a == todo[c][i] IN
                        (IF a.do \in {"set", "del"} THEN a.keys
                         ELSE IF a.do \in {"smembers", "untag", "tag", "srem"} THEN {a.key}
                         ELSE {}) \subseteq Key
      BY DEF Handled
    <3>2. todo[c][i] \in Cmds
      BY <3>1
    <3> QED BY <3>2, CommandFields
  <2>2. StoreOK'
    BY <1>1, <1>5 DEF Crash, StoreOK, redis
  <2>3. HistoryOK'
    BY <1>1, <1>5, <2>1 DEF Crash, HistoryOK
  <2> QED BY <2>2, <2>3
<1>6. CASE Tick
  <2>1. now' \in 0..MaxTime
    BY <1>1, <1>6, RedisAssumption DEF Tick, StoreOK
  <2>2. /\ exp' \in [Key -> Int] /\ tagsExp' \in [Key -> Int]
        /\ keyTags' \in [Key -> SUBSET Tag]
    BY <1>1, <1>6, RedisAssumption DEF Tick, StoreOK
  <2>3. \A k \in Key : exp'[k] \in {Gone, Never} \/ exp'[k] > now'
    BY <1>1, <1>6, RedisAssumption DEF Tick, StoreOK
  <2>4. \A k \in Key : tagsExp'[k] = Never \/ (tagsExp'[k] > now' /\ keyTags'[k] # {})
    BY <1>1, <1>6, RedisAssumption DEF Tick, StoreOK
  <2>5. StoreOK'
    BY <1>1, <1>6, <2>1, <2>2, <2>3, <2>4 DEF Tick, StoreOK
  <2>6. HistoryOK'
    BY <1>1, <1>6 DEF Tick, HistoryOK
  <2> QED BY <2>5, <2>6
<1>7. CASE UNCHANGED vars
  BY <1>2, <1>7 DEF vars, redis
<1> QED BY <1>3, <1>4, <1>5, <1>6, <1>7 DEF Next

LEMMA TypeStep == TypeOK /\ Shape /\ [Next]_vars => TypeOK' /\ Shape'
<1> SUFFICES ASSUME TypeOK, Shape, [Next]_vars
             PROVE  TypeOK' /\ Shape'
  OBVIOUS
<1>1. Shape'
  BY ShapeStep
<1>2. StoreOK' /\ HistoryOK'
  BY StoreStep
<1>3. (todo \in [Client -> Seq(Cmds)])'
  BY <1>1 DEF Shape
<1> QED BY <1>1, <1>2, <1>3 DEF TypeOK, StoreOK, HistoryOK

\* Every queue holds well-formed commands, and what will expire, expires in the
\* future, whatever clients do at the same time.
THEOREM TypeCorrect == Spec => []TypeOK
<1>1. Init => TypeOK /\ Shape
  BY TypeInit
<1>2. TypeOK /\ Shape /\ [Next]_vars => (TypeOK /\ Shape)'
  BY TypeStep
<1> QED BY <1>1, <1>2, PTL DEF Spec

-----------------------------------------------------------------------------
(* The debts of the commands still to send.                                *)

LEMMA PendingBusy ==
    ASSUME Turns, NEW c \in Client, todo[c] # <<>>
    PROVE  /\ Pending = ToSet(todo[c])
           /\ \A d \in Client : d # c => todo[d] = <<>>
<1>1. \A d \in Client : d # c => todo[d] = <<>>
  BY DEF Turns
<1>2. ToSet(<<>>) = {}
  BY NoCommand
<1> QED BY <1>1, <1>2 DEF Pending

LEMMA PendingNext ==
    ASSUME Shape, NEW c \in Client, NEW q \in Seq(Cmds),
           \A d \in Client : d # c => todo[d] = <<>>,
           todo' = [todo EXCEPT ![c] = q]
    PROVE  Pending' = ToSet(q)
<1>1. todo' \in [Client -> Seq(Cmds)] /\ todo'[c] = q
  BY DEF Shape
<1>2. \A d \in Client : d # c => todo'[d] = <<>>
  BY DEF Shape
<1>3. ToSet(<<>>) = {}
  BY NoCommand
<1> QED BY <1>1, <1>2, <1>3 DEF Pending

\* Sending a command: what was pending and what is.
LEMMA Sending ==
    ASSUME Shape, Turns, NEW c \in Client, todo[c] # <<>>
    PROVE  /\ Pending = {Next1(c)} \cup ToSet(Tail(todo[c]))
           /\ Next1(c) \in Cmds
           /\ \A r \in ToSet(Tail(todo[c])) : r \in Cmds /\ MayFollow(Next1(c), r)
BY PendingBusy, FirstCommand

LEMMA Sent ==
    ASSUME Shape, Turns, NEW c \in Client, todo[c] # <<>>,
           NEW more \in Seq(Cmds), Continue(c, more)
    PROVE  Pending' = ToSet(more) \cup ToSet(Tail(todo[c]))
<1> DEFINE r == Tail(todo[c])
           q == more \o r
<1>1. r \in Seq(Cmds)
  BY FirstCommand
<1> HIDE DEF r
<1>2. q \in Seq(Cmds) /\ ToSet(q) = ToSet(more) \cup ToSet(r)
  BY <1>1, Concatenation
<1>3. todo' = [todo EXCEPT ![c] = q]
  BY DEF Continue, r
<1> HIDE DEF q
<1>4. \A d \in Client : d # c => todo[d] = <<>>
  BY PendingBusy
<1> QED BY <1>2, <1>3, <1>4, PendingNext DEF r

LEMMA SentOff ==
    ASSUME Shape, Turns, NEW c \in Client, todo[c] # <<>>, Continue(c, <<>>)
    PROVE  Pending' = ToSet(Tail(todo[c]))
<1>1. <<>> \in Seq(Cmds) /\ ToSet(<<>>) = {}
  BY NoCommand
<1>2. Pending' = ToSet(<<>>) \cup ToSet(Tail(todo[c]))
  BY <1>1, Sent
<1> QED BY <1>1, <1>2

\* SET: the clean-up and the new tags are still to come.
LEMMA SetDebts ==
    ASSUME TypeOK, Shape, Turns, Debts, NEW c \in Client, SendSet(c)
    PROVE  Debts'
<1> DEFINE h == Next1(c)
           R == ToSet(Tail(todo[c]))
<1>1. todo[c] # <<>> /\ h.do = "set" /\ Continue(c, <<>>)
  BY DEF SendSet, Is
<1>2. /\ Pending = {h} \cup R /\ h \in Cmds
      /\ \A r \in R : r \in Cmds /\ MayFollow(h, r)
  BY <1>1, Sending
<1>3. Pending' = R
  BY <1>1, SentOff
<1>4. h.keys \in SUBSET Key /\ h.tags \in SUBSET Tag /\ h.ttl \in Nat
  BY <1>1, <1>2, CommandFields, RedisAssumption
<1>5. /\ exp' = [k \in Key |-> IF k \in h.keys THEN Deadline(h.ttl) ELSE exp[k]]
      /\ given' = [k \in Key |-> IF k \in h.keys THEN h.tags ELSE given[k]]
      /\ dirty' = dirty \ h.keys
      /\ UNCHANGED <<keyTags, tagsExp, tagSet, now, lapsed>>
  BY DEF SendSet
<1> HIDE DEF h, R
<1>6. \A r \in R : /\ \/ CleansAll(r)
                      \/ r.do = "prune"
                      \/ r.do = "tag" /\ r.key \in h.keys /\ r.tags = h.tags /\ r.ttl = h.ttl
                   /\ r.do \in {"smembers", "prune", "tag"}
  BY <1>1, <1>2 DEF MayFollow, CleansAll
<1>7. \A k \in h.keys : /\ \E r \in R : CleansAll(r) /\ r.key = k
                        /\ h.tags # {} => \E r \in R : r.do = "tag" /\ r.key = k
  BY <1>1, <1>2 DEF Debts, SetsFollowed, ToClean, CleansAll
<1>8. SetsFollowed'
  BY <1>3, <1>6 DEF SetsFollowed
<1>9. TagsGiven'
  <2> SUFFICES ASSUME NEW a \in R, a.do = "tag"
               PROVE  a.tags \subseteq given'[a.key] /\ (a.ttl = 0 => exp'[a.key] = Never)
    BY <1>3 DEF TagsGiven
  <2>1. a.key \in h.keys /\ a.tags = h.tags /\ a.ttl = h.ttl
    BY <1>6 DEF CleansAll
  <2> QED BY <1>4, <1>5, <2>1 DEF Deadline
<1>10. SkipsFollowed'
  BY <1>3, <1>6 DEF SkipsFollowed, CleansAll
<1>11. Reached'
  <2> SUFFICES ASSUME NEW k \in Key, k \notin dirty', NEW t \in Tag,
                      Live(k)', t \in given'[k]
               PROVE  \/ Doomed(k)'
                      \/ Retagged(k, t)'
                      \/ k \in tagSet'[t] /\ ~Cleaned(k)' /\ (Wiped(t)' => LookedUp(k, t)')
    BY DEF Reached
  <2>1. CASE k \in h.keys
    <3>1. h.tags # {} /\ t \in h.tags
      BY <1>5, <2>1
    <3>2. PICK r \in R : r.do = "tag" /\ r.key = k
      BY <1>7, <2>1, <3>1
    <3>3. r.tags = h.tags
      BY <1>6, <3>2 DEF CleansAll
    <3> QED BY <1>3, <3>1, <3>2, <3>3 DEF Retagged
  <2>2. CASE k \notin h.keys
    <3>1. k \notin dirty /\ Live(k) /\ t \in given[k]
      BY <1>5, <2>2 DEF Live
    <3>2. ~Doomed(k)
      BY <1>2, <1>6, <2>2 DEF Doomed
    <3>3. \/ Retagged(k, t)
          \/ k \in tagSet[t] /\ ~Cleaned(k) /\ (Wiped(t) => LookedUp(k, t))
      BY <3>1, <3>2 DEF Debts, Reached
    <3>4. Retagged(k, t) => Retagged(k, t)'
      BY <1>1, <1>2, <1>3 DEF Retagged
    <3>5. (Cleaned(k)' => Cleaned(k)) /\ ~Wiped(t)'
      BY <1>2, <1>3, <1>6 DEF Cleaned, Wiped
    <3> QED BY <1>5, <3>3, <3>4, <3>5
  <2> QED BY <2>1, <2>2
<1>12. OnlyReached'
  <2> SUFFICES ASSUME NEW t \in Tag, NEW k \in tagSet'[t], k \notin lapsed',
                      Live(k)', t \notin given'[k]
               PROVE  Doomed(k)' \/ ToClean(k)' \/ Untagged(k, t)'
    BY DEF OnlyReached
  <2>1. CASE k \in h.keys
    BY <1>3, <1>7, <2>1 DEF ToClean
  <2>2. CASE k \notin h.keys
    <3>1. k \in Key /\ k \in tagSet[t] /\ k \notin lapsed /\ Live(k) /\ t \notin given[k]
      BY <1>5, <2>2 DEF Live, TypeOK
    <3>2. ~Doomed(k) /\ ~Untagged(k, t)
      BY <1>1, <1>2, <1>6, <2>2 DEF Doomed, Untagged
    <3>3. ToClean(k)
      BY <3>1, <3>2 DEF Debts, OnlyReached
    <3> QED BY <1>1, <1>2, <1>3, <3>3 DEF ToClean, CleansAll
  <2> QED BY <2>1, <2>2
<1>13. Tracked'
  BY <1>1, <1>2, <1>3, <1>5 DEF Debts, Tracked, Dropped
<1>14. UntagsAll' /\ MetaTogether' /\ ScansAll' /\ MetaDeleted'
  BY <1>3, <1>6 DEF UntagsAll, MetaTogether, ScansAll, MetaDeleted
<1>15. MetaExpires'
  BY <1>1, <1>2, <1>3, <1>4, <1>5, <1>6, <1>7
  DEF Debts, MetaExpires, Forgotten, CleansAll
<1> QED BY <1>8, <1>9, <1>10, <1>11, <1>12, <1>13, <1>14, <1>15 DEF Debts

\* SMEMBERS: the tags listed are those the key is in, except one that it will be
\* taken out of by itself.
LEMMA SMembersDebts ==
    ASSUME TypeOK, Shape, Turns, Debts, NEW c \in Client, SendSMembers(c)
    PROVE  Debts'
<1> DEFINE h == Next1(c)
           R == ToSet(Tail(todo[c]))
           u == UntagCmd(h.key, keyTags[h.key] \ {h.skip})
           M == IF keyTags[h.key] = {} THEN {} ELSE {u}
<1>1. todo[c] # <<>> /\ h.do = "smembers"
  BY DEF SendSMembers, Is
<1>2. /\ Pending = {h} \cup R /\ h \in Cmds
      /\ \A r \in R : r \in Cmds /\ MayFollow(h, r)
  BY <1>1, Sending
<1>3. Pending' = M \cup R
  <2>1. PICK more \in Seq(Cmds) : Continue(c, more) /\ ToSet(more) = M
    BY SMembersMore
  <2> QED BY <1>1, <2>1, Sent
<1>4. h.key \in Key /\ h.skip \in Tag \cup {NoTag}
  BY <1>1, <1>2, CommandFields
<1>5. UNCHANGED <<exp, keyTags, tagsExp, tagSet, now, given, dirty, lapsed>>
  BY DEF SendSMembers, redis
<1>6. u.do = "untag" /\ u.key = h.key /\ u.tags = keyTags[h.key] \ {h.skip}
  BY DEF UntagCmd
<1> HIDE DEF h, R, u
<1>7. \A r \in R : /\ r.do \notin {"set", "scan", "tagScan", "untag"}
                   /\ h.skip # NoTag => r.do # "tag"
                   /\ h.skip = NoTag => CleansAll(r) \/ r.do \in {"tag", "prune", "del"}
  BY <1>1, <1>2 DEF MayFollow, CleansAll
<1>8. \A a \in M : a = u
  OBVIOUS
<1>9. \A k \in Key, t \in Tag :
          /\ Doomed(k) <=> Doomed(k)'
          /\ Retagged(k, t) <=> Retagged(k, t)'
          /\ Dropped(k, t) <=> Dropped(k, t)'
          /\ LookedUp(k, t) <=> LookedUp(k, t)'
          /\ Wiped(t) <=> Wiped(t)'
          /\ Cleaned(k)' => Cleaned(k)
  BY <1>1, <1>2, <1>3, <1>6, <1>8
  DEF Doomed, Retagged, Dropped, LookedUp, Wiped, Cleaned
<1> HIDE DEF M
<1>10. SetsFollowed'
  BY <1>3, <1>6, <1>7, <1>8 DEF SetsFollowed
<1>11. TagsGiven'
  BY <1>1, <1>2, <1>3, <1>5, <1>6, <1>7, <1>8 DEF Debts, TagsGiven
<1>12. SkipsFollowed'
  <2> SUFFICES ASSUME NEW a \in R, a.do = "smembers", a.skip # NoTag
               PROVE  Dropped(a.key, a.skip)'
    BY <1>3, <1>6, <1>8 DEF SkipsFollowed
  <2>1. a.key \in Key /\ a.skip \in Tag
    BY <1>2, CommandFields
  <2>2. Dropped(a.key, a.skip)
    BY <1>2 DEF Debts, SkipsFollowed
  <2> QED BY <1>9, <2>1, <2>2
<1>13. Reached'
  BY <1>5, <1>9 DEF Debts, Reached, Live
<1>14. OnlyReached'
  <2> SUFFICES ASSUME NEW t \in Tag, NEW k \in tagSet[t], k \notin lapsed,
                      Live(k), t \notin given[k], ~Doomed(k)
               PROVE  ToClean(k)' \/ Untagged(k, t)'
    BY <1>5, <1>9 DEF OnlyReached, Live, TypeOK
  <2>1. k \in Key
    BY DEF TypeOK
  <2>2. ~Untagged(k, t)
    BY <1>1, <1>2, <1>7 DEF Untagged
  <2>3. ToClean(k)
    BY <2>2 DEF Debts, OnlyReached
  <2>4. CASE \E a \in R : CleansAll(a) /\ a.key = k
    BY <1>3, <2>4 DEF ToClean, CleansAll
  <2>5. CASE CleansAll(h) /\ h.key = k
    <3>1. ~Dropped(k, t)
      BY <1>1, <1>2, <1>7, <2>5 DEF Dropped, CleansAll
    <3>2. t \in keyTags[k]
      BY <3>1 DEF Debts, Tracked
    <3>3. u \in M
      BY <2>5, <3>2 DEF M
    <3>4. t \in u.tags
      BY <1>6, <2>5, <3>2, NoTagAssumption DEF CleansAll
    <3> QED BY <1>3, <1>6, <2>5, <3>3, <3>4 DEF Untagged
  <2> QED BY <1>2, <2>3, <2>4, <2>5 DEF ToClean
<1>15. Tracked'
  BY <1>5, <1>9 DEF Debts, Tracked, TypeOK
<1>16. UntagsAll'
  <2> SUFFICES ASSUME NEW k \in Key, k = h.key, NEW t \in keyTags[k] \ u.tags
               PROVE  Dropped(k, t)'
    BY <1>3, <1>4, <1>5, <1>6, <1>7, <1>8 DEF UntagsAll
  <2>1. t = h.skip /\ t \in Tag
    BY <1>4, <1>6 DEF TypeOK
  <2>2. Dropped(k, t)
    BY <1>1, <1>2, <2>1, NoTagAssumption DEF Debts, SkipsFollowed
  <2> QED BY <1>4, <1>9, <2>1, <2>2
<1>17. MetaTogether' /\ ScansAll'
  BY <1>2, <1>3, <1>5, <1>6, <1>8 DEF Debts, MetaTogether, ScansAll
<1>18. \A k \in Key : Forgotten(k) => Forgotten(k)' \/ keyTags[k] = {}
  <2> SUFFICES ASSUME NEW k \in Key, Forgotten(k), keyTags[k] # {}
               PROVE  Forgotten(k)'
    OBVIOUS
  <2>1. CASE h.key = k
    BY <1>3, <1>6, <2>1 DEF M, Forgotten
  <2>2. CASE h.key # k
    BY <1>2, <1>3, <2>2 DEF Forgotten
  <2> QED BY <2>1, <2>2
<1>19. MetaExpires'
  BY <1>5, <1>18 DEF Debts, MetaExpires
<1>20. MetaDeleted'
  <2> SUFFICES ASSUME NEW a \in R, a.do = "del", NEW k \in a.keys
               PROVE  keyTags[k] = {} \/ tagsExp[k] # Never \/ Forgotten(k)'
    BY <1>3, <1>5, <1>6, <1>8 DEF MetaDeleted
  <2>1. k \in Key
    BY <1>2, CommandFields
  <2>2. keyTags[k] = {} \/ tagsExp[k] # Never \/ Forgotten(k)
    BY <1>2 DEF Debts, MetaDeleted
  <2> QED BY <1>18, <2>1, <2>2
<1> QED BY <1>10, <1>11, <1>12, <1>13, <1>14, <1>15, <1>16, <1>17, <1>19, <1>20 DEF Debts

\* SREM and DEL of the reverse metadata: the key leaves the tags it was listed for.
LEMMA UntagDebts ==
    ASSUME TypeOK, Shape, Turns, Debts, NEW c \in Client, SendUntag(c)
    PROVE  Debts'
<1> DEFINE h == Next1(c)
           R == ToSet(Tail(todo[c]))
<1>1. todo[c] # <<>> /\ h.do = "untag" /\ Continue(c, <<>>)
  BY DEF SendUntag, Is
<1>2. /\ Pending = {h} \cup R /\ h \in Cmds
      /\ \A r \in R : r \in Cmds /\ MayFollow(h, r)
  BY <1>1, Sending
<1>3. Pending' = R
  BY <1>1, SentOff
<1>4. h.key \in Key /\ h.tags \in SUBSET Tag
  BY <1>1, <1>2, CommandFields
<1>5. /\ \A t \in Tag : tagSet'[t] = IF t \in h.tags THEN tagSet[t] \ {h.key} ELSE tagSet[t]
      /\ \A k \in Key : keyTags'[k] = IF k = h.key THEN {} ELSE keyTags[k]
      /\ \A k \in Key : tagsExp'[k] = IF k = h.key THEN Never ELSE tagsExp[k]
      /\ UNCHANGED <<exp, now, given, dirty, lapsed>>
  BY <1>4 DEF SendUntag, TypeOK
<1> HIDE DEF h, R
<1>6. \A r \in R : r.do \notin {"set", "scan", "tagScan", "untag"}
  BY <1>1, <1>2 DEF MayFollow
<1>7. \A k \in Key :
          /\ Doomed(k) => Doomed(k)'
          /\ ToClean(k) => ToClean(k)'
          /\ Cleaned(k)' \/ k = h.key => Cleaned(k)
          /\ Forgotten(k) => Forgotten(k)' \/ k = h.key
          /\ \A t \in Tag :
                /\ Retagged(k, t) => Retagged(k, t)'
                /\ Dropped(k, t) => Dropped(k, t)'
                /\ LookedUp(k, t) => LookedUp(k, t)'
                /\ Wiped(t)' => Wiped(t)
  BY <1>1, <1>2, <1>3
  DEF Doomed, Retagged, Dropped, LookedUp, ToClean, CleansAll, Wiped, Cleaned, Forgotten
<1>8. SetsFollowed' /\ UntagsAll'
  BY <1>3, <1>6 DEF SetsFollowed, UntagsAll
<1>9. TagsGiven'
  BY <1>1, <1>2, <1>3, <1>5, <1>6 DEF Debts, TagsGiven
<1>10. SkipsFollowed'
  <2> SUFFICES ASSUME NEW a \in R, a.do = "smembers", a.skip # NoTag
               PROVE  Dropped(a.key, a.skip)'
    BY <1>3 DEF SkipsFollowed
  <2>1. a.key \in Key /\ a.skip \in Tag
    BY <1>2, CommandFields
  <2>2. Dropped(a.key, a.skip)
    BY <1>2 DEF Debts, SkipsFollowed
  <2> QED BY <1>7, <2>1, <2>2
<1>11. Reached'
  <2> SUFFICES ASSUME NEW k \in Key \ dirty, NEW t \in Tag, Live(k), t \in given[k],
                      ~Doomed(k), ~Retagged(k, t)
               PROVE  k \in tagSet'[t] /\ ~Cleaned(k)' /\ (Wiped(t)' => LookedUp(k, t)')
    BY <1>5, <1>7 DEF Reached, Live
  <2>1. k \in tagSet[t] /\ ~Cleaned(k) /\ (Wiped(t) => LookedUp(k, t))
    BY DEF Debts, Reached
  <2> QED BY <1>5, <1>7, <2>1
<1>12. OnlyReached'
  <2> SUFFICES ASSUME NEW t \in Tag, NEW k \in tagSet'[t], k \notin lapsed,
                      Live(k), t \notin given[k]
               PROVE  Doomed(k)' \/ ToClean(k)'
    BY <1>5 DEF OnlyReached, Live
  <2>1. k \in tagSet[t] /\ k \in Key
    BY <1>5 DEF TypeOK
  <2>2. ~Untagged(k, t)
    BY <1>2, <1>5, <1>6 DEF Untagged
  <2>3. Doomed(k) \/ ToClean(k)
    BY <2>1, <2>2 DEF Debts, OnlyReached
  <2> QED BY <1>7, <2>1, <2>3
<1>13. Tracked'
  <2> SUFFICES ASSUME NEW t \in Tag, NEW k \in tagSet'[t], k \notin lapsed,
                      ~Dropped(k, t)'
               PROVE  t \in keyTags'[k]
    BY <1>5 DEF Tracked
  <2>1. k \in tagSet[t] /\ k \in Key
    BY <1>5 DEF TypeOK
  <2>2. t \in keyTags[k] /\ ~Dropped(k, t)
    BY <1>7, <2>1 DEF Debts, Tracked
  <2>3. k # h.key
    <3> SUFFICES ASSUME k = h.key PROVE FALSE
      OBVIOUS
    <3>1. t \notin h.tags
      BY <1>5
    <3> QED BY <1>1, <1>2, <2>2, <3>1 DEF Debts, UntagsAll
  <2> QED BY <1>5, <2>1, <2>2, <2>3
<1>14. MetaTogether' /\ ScansAll'
  BY <1>2, <1>3, <1>5 DEF Debts, MetaTogether, ScansAll
<1>15. MetaExpires'
  BY <1>5, <1>7 DEF Debts, MetaExpires
<1>16. MetaDeleted'
  <2> SUFFICES ASSUME NEW a \in R, a.do = "del", NEW k \in a.keys
               PROVE  keyTags'[k] = {} \/ tagsExp'[k] # Never \/ Forgotten(k)'
    BY <1>3 DEF MetaDeleted
  <2>1. k \in Key
    BY <1>2, CommandFields
  <2>2. keyTags[k] = {} \/ tagsExp[k] # Never \/ Forgotten(k)
    BY <1>2 DEF Debts, MetaDeleted
  <2> QED BY <1>5, <1>7, <2>1, <2>2
<1> QED BY <1>8, <1>9, <1>10, <1>11, <1>12, <1>13, <1>14, <1>15, <1>16 DEF Debts

\* SADD and PEXPIRE: the tags are those of the write.
LEMMA TagDebts ==
    ASSUME TypeOK, Shape, Turns, Debts, NEW c \in Client, SendTag(c)
    PROVE  Debts'
<1> DEFINE h == Next1(c)
           R == ToSet(Tail(todo[c]))
<1>1. todo[c] # <<>> /\ h.do = "tag" /\ Continue(c, <<>>)
  BY DEF SendTag, Is
<1>2. /\ Pending = {h} \cup R /\ h \in Cmds
      /\ \A r \in R : r \in Cmds /\ MayFollow(h, r)
  BY <1>1, Sending
<1>3. Pending' = R
  BY <1>1, SentOff
<1>4. h.key \in Key /\ h.tags \in SUBSET Tag /\ h.ttl \in Nat
  BY <1>1, <1>2, CommandFields, RedisAssumption
<1>5. /\ \A t \in Tag : tagSet'[t] = IF t \in h.tags THEN tagSet[t] \cup {h.key} ELSE tagSet[t]
      /\ \A k \in Key : keyTags'[k] = IF k = h.key THEN keyTags[k] \cup h.tags ELSE keyTags[k]
      /\ \A k \in Key : tagsExp'[k] = IF k = h.key /\ h.ttl > 0 THEN now + h.ttl ELSE tagsExp[k]
      /\ UNCHANGED <<exp, now, given, dirty, lapsed>>
  BY <1>4 DEF SendTag, TypeOK
<1> HIDE DEF h, R
<1>6. \A r \in R : r.do = "prune"
  BY <1>1, <1>2 DEF MayFollow, CleansAll
<1>7. h.tags \subseteq given[h.key] /\ (h.ttl = 0 => exp[h.key] = Never)
  BY <1>1, <1>2, <1>6 DEF Debts, TagsGiven
<1>8. /\ SetsFollowed' /\ TagsGiven' /\ SkipsFollowed' /\ UntagsAll'
      /\ MetaTogether' /\ ScansAll' /\ MetaDeleted'
  BY <1>3, <1>6 DEF SetsFollowed, TagsGiven, SkipsFollowed, UntagsAll, MetaTogether,
                    ScansAll, MetaDeleted
<1>9. \A k \in Key : /\ ~Doomed(k) /\ ~ToClean(k) /\ ~Forgotten(k) /\ ~Cleaned(k)'
                     /\ \A t \in Tag : /\ ~Untagged(k, t) /\ ~Dropped(k, t) /\ ~Wiped(t)'
                                       /\ Retagged(k, t) => k = h.key /\ t \in h.tags
  BY <1>1, <1>2, <1>3, <1>6
  DEF Doomed, ToClean, CleansAll, Untagged, Dropped, Forgotten, Cleaned, Wiped, Retagged
<1>10. Reached'
  <2> SUFFICES ASSUME NEW k \in Key \ dirty, NEW t \in Tag, Live(k), t \in given[k]
               PROVE  k \in tagSet'[t]
    BY <1>5, <1>9 DEF Reached, Live
  <2>1. Retagged(k, t) \/ k \in tagSet[t]
    BY <1>9 DEF Debts, Reached
  <2> QED BY <1>5, <1>9, <2>1
<1>11. OnlyReached'
  <2> SUFFICES ASSUME NEW t \in Tag, NEW k \in tagSet'[t], k \notin lapsed,
                      Live(k), t \notin given[k]
               PROVE  FALSE
    BY <1>5 DEF OnlyReached, Live
  <2>1. k \in tagSet[t] \/ (k = h.key /\ t \in h.tags)
    BY <1>5
  <2>2. k \in tagSet[t] /\ k \in Key
    BY <1>7, <2>1 DEF TypeOK
  <2> QED BY <1>9, <2>2 DEF Debts, OnlyReached
<1>12. Tracked'
  <2> SUFFICES ASSUME NEW t \in Tag, NEW k \in tagSet'[t], k \notin lapsed
               PROVE  t \in keyTags'[k]
    BY <1>5 DEF Tracked
  <2>1. k \in Key
    <3>1. k \in tagSet[t] \/ k = h.key
      BY <1>5
    <3> QED BY <1>4, <3>1 DEF TypeOK
  <2>2. CASE k \in tagSet[t]
    <3>1. t \in keyTags[k]
      BY <1>9, <2>1, <2>2 DEF Debts, Tracked
    <3> QED BY <1>5, <2>1, <3>1
  <2>3. CASE k \notin tagSet[t]
    BY <1>5, <2>1, <2>3
  <2> QED BY <2>2, <2>3
<1>13. MetaExpires'
  <2> SUFFICES ASSUME NEW k \in Key \ dirty, keyTags'[k] # {}, tagsExp'[k] = Never
               PROVE  exp[k] = Never
    BY <1>5 DEF MetaExpires
  <2>1. CASE k = h.key
    <3>1. now + h.ttl # Never
      BY <1>4, RedisAssumption DEF TypeOK, Never
    <3>2. h.ttl = 0
      BY <1>4, <1>5, <2>1, <3>1
    <3> QED BY <1>7, <2>1, <3>2
  <2>2. CASE k # h.key
    <3>1. keyTags[k] # {} /\ tagsExp[k] = Never
      BY <1>5, <2>2
    <3> QED BY <1>9, <3>1 DEF Debts, MetaExpires
  <2> QED BY <2>1, <2>2
<1> QED BY <1>8, <1>10, <1>11, <1>12, <1>13 DEF Debts

\* SSCAN of a tag to prune: nothing in the queue owes the index anything.
LEMMA PruneScanDebts ==
    ASSUME TypeOK, Shape, Turns, Debts, NEW c \in Client, SendPruneScan(c)
    PROVE  Debts'
<1> DEFINE h == Next1(c)
           R == ToSet(Tail(todo[c]))
<1>1. todo[c] # <<>> /\ h.do = "prune"
  BY DEF SendPruneScan, Is
<1>2. /\ Pending = {h} \cup R /\ h \in Cmds
      /\ \A r \in R : r \in Cmds /\ MayFollow(h, r)
  BY <1>1, Sending
<1>3. PICK more \in Seq(Cmds) :
          Continue(c, more) /\ \A a \in ToSet(more) : a.do = "pruneCheck"
  BY PruneScanMore
<1>4. Pending' = ToSet(more) \cup R
  BY <1>1, <1>3, Sent
<1>5. UNCHANGED <<exp, keyTags, tagsExp, tagSet, now, given, dirty, lapsed>>
  BY DEF SendPruneScan, redis
<1> HIDE DEF h, R
<1>6. \A r \in R : r.do = "prune"
  BY <1>1, <1>2 DEF MayFollow, CleansAll
<1>7. /\ \A a \in Pending : a.do = "prune"
      /\ \A a \in Pending' : a.do \in {"prune", "pruneCheck"}
  BY <1>1, <1>2, <1>3, <1>4, <1>6
<1>8. /\ SetsFollowed' /\ TagsGiven' /\ SkipsFollowed' /\ UntagsAll'
      /\ MetaTogether' /\ ScansAll' /\ MetaDeleted'
  BY <1>7 DEF SetsFollowed, TagsGiven, SkipsFollowed, UntagsAll, MetaTogether,
              ScansAll, MetaDeleted
<1>9. \A k \in Key : /\ ~Doomed(k) /\ ~ToClean(k) /\ ~Forgotten(k) /\ ~Cleaned(k)'
                     /\ \A t \in Tag : /\ ~Untagged(k, t) /\ ~Dropped(k, t) /\ ~Wiped(t)'
                                       /\ ~Retagged(k, t)
  BY <1>7
  DEF Doomed, ToClean, CleansAll, Untagged, Dropped, Forgotten, Cleaned, Wiped, Retagged
<1>10. Reached'
  BY <1>5, <1>9 DEF Debts, Reached, Live
<1>11. OnlyReached'
  BY <1>5, <1>9 DEF Debts, OnlyReached, Live, TypeOK
<1>12. Tracked'
  BY <1>5, <1>9 DEF Debts, Tracked, TypeOK
<1>13. MetaExpires'
  BY <1>5, <1>9 DEF Debts, MetaExpires
<1> QED BY <1>8, <1>10, <1>11, <1>12, <1>13 DEF Debts

\* EXISTS of a member to prune: only a key that is gone is cleaned up.
LEMMA PruneCheckDebts ==
    ASSUME TypeOK, Shape, Turns, Debts, NEW c \in Client, SendPruneCheck(c)
    PROVE  Debts'
<1> DEFINE h == Next1(c)
           R == ToSet(Tail(todo[c]))
           m == SMembersCmd(h.key, h.tag)
           s == SRemCmd(h.tag, h.key)
           M == IF Live(h.key) THEN {} ELSE {m, s}
<1>1. todo[c] # <<>> /\ h.do = "pruneCheck"
  BY DEF SendPruneCheck, Is
<1>2. /\ Pending = {h} \cup R /\ h \in Cmds
      /\ \A r \in R : r \in Cmds /\ MayFollow(h, r)
  BY <1>1, Sending
<1>3. Pending' = M \cup R
  <2>1. PICK more \in Seq(Cmds) : Continue(c, more) /\ ToSet(more) = M
    BY PruneCheckMore
  <2> QED BY <1>1, <2>1, Sent
<1>4. UNCHANGED <<exp, keyTags, tagsExp, tagSet, now, given, dirty, lapsed>>
  BY DEF SendPruneCheck, redis
<1>5. /\ m.do = "smembers" /\ m.key = h.key /\ m.skip = h.tag
      /\ s.do = "srem" /\ s.key = h.key /\ s.tag = h.tag
  BY DEF SMembersCmd, SRemCmd
<1> HIDE DEF h, R, m, s
<1>6. \A r \in R : r.do \in {"prune", "pruneCheck"}
  BY <1>1, <1>2 DEF MayFollow, CleansAll
<1>7. \A a \in M : ~Live(h.key) /\ (a = m \/ a = s) /\ m \in M /\ s \in M
  OBVIOUS
<1> HIDE DEF M
<1>8. /\ SetsFollowed' /\ TagsGiven' /\ UntagsAll'
      /\ MetaTogether' /\ ScansAll' /\ MetaDeleted'
  BY <1>3, <1>5, <1>6, <1>7 DEF SetsFollowed, TagsGiven, UntagsAll, MetaTogether,
                                ScansAll, MetaDeleted
<1>9. SkipsFollowed'
  BY <1>3, <1>5, <1>6, <1>7 DEF SkipsFollowed, Dropped
<1>10. \A k \in Key : /\ ~Doomed(k) /\ ~ToClean(k) /\ ~Forgotten(k)
                      /\ Cleaned(k)' => ~Live(k)
                      /\ \A t \in Tag : /\ ~Untagged(k, t) /\ ~Dropped(k, t) /\ ~Wiped(t)'
                                        /\ ~Retagged(k, t)
  BY <1>1, <1>2, <1>3, <1>5, <1>6, <1>7
  DEF Doomed, ToClean, CleansAll, Untagged, Dropped, Forgotten, Cleaned, Wiped, Retagged
<1>11. Reached'
  BY <1>4, <1>10 DEF Debts, Reached, Live
<1>12. OnlyReached'
  BY <1>4, <1>10 DEF Debts, OnlyReached, Live, TypeOK
<1>13. Tracked'
  BY <1>4, <1>10 DEF Debts, Tracked, TypeOK
<1>14. MetaExpires'
  BY <1>4, <1>10 DEF Debts, MetaExpires
<1> QED BY <1>8, <1>9, <1>11, <1>12, <1>13, <1>14 DEF Debts

\* SREM of a pruned member.
LEMMA SRemDebts ==
    ASSUME TypeOK, Shape, Turns, Debts, NEW c \in Client, SendSRem(c)
    PROVE  Debts'
<1> DEFINE h == Next1(c)
           R == ToSet(Tail(todo[c]))
<1>1. todo[c] # <<>> /\ h.do = "srem" /\ Continue(c, <<>>)
  BY DEF SendSRem, Is
<1>2. /\ Pending = {h} \cup R /\ h \in Cmds
      /\ \A r \in R : r \in Cmds /\ MayFollow(h, r)
  BY <1>1, Sending
<1>3. Pending' = R
  BY <1>1, SentOff
<1>4. h.tag \in Tag /\ h.key \in Key
  BY <1>1, <1>2, CommandFields
<1>5. /\ \A t \in Tag : tagSet'[t] = IF t = h.tag THEN tagSet[t] \ {h.key} ELSE tagSet[t]
      /\ UNCHANGED <<exp, keyTags, tagsExp, now, given, dirty, lapsed>>
  BY <1>4 DEF SendSRem, TypeOK
<1> HIDE DEF h, R
<1>6. \A r \in R : r.do \in {"prune", "pruneCheck"}
  BY <1>1, <1>2 DEF MayFollow, CleansAll
<1>7. /\ SetsFollowed' /\ TagsGiven' /\ SkipsFollowed' /\ UntagsAll'
      /\ MetaTogether' /\ ScansAll' /\ MetaDeleted'
  BY <1>3, <1>6 DEF SetsFollowed, TagsGiven, SkipsFollowed, UntagsAll, MetaTogether,
                    ScansAll, MetaDeleted
<1>8. \A k \in Key : /\ ~Doomed(k) /\ ~ToClean(k) /\ ~Forgotten(k) /\ ~Cleaned(k)'
                     /\ k = h.key => Cleaned(k)
                     /\ \A t \in Tag : /\ ~Untagged(k, t) /\ ~Wiped(t)' /\ ~Retagged(k, t)
                                       /\ Dropped(k, t) => t = h.tag /\ k = h.key
  BY <1>1, <1>2, <1>3, <1>6
  DEF Doomed, ToClean, CleansAll, Untagged, Dropped, Forgotten, Cleaned, Wiped, Retagged
<1>9. Reached'
  <2> SUFFICES ASSUME NEW k \in Key \ dirty, NEW t \in Tag, Live(k), t \in given[k]
               PROVE  k \in tagSet'[t]
    BY <1>5, <1>8 DEF Reached, Live
  <2>1. k \in tagSet[t] /\ ~Cleaned(k)
    BY <1>8 DEF Debts, Reached
  <2> QED BY <1>5, <1>8, <2>1
<1>10. OnlyReached'
  <2> SUFFICES ASSUME NEW t \in Tag, NEW k \in tagSet'[t], k \notin lapsed,
                      Live(k), t \notin given[k]
               PROVE  FALSE
    BY <1>5 DEF OnlyReached, Live
  <2>1. k \in tagSet[t] /\ k \in Key
    BY <1>5 DEF TypeOK
  <2> QED BY <1>8, <2>1 DEF Debts, OnlyReached
<1>11. Tracked'
  <2> SUFFICES ASSUME NEW t \in Tag, NEW k \in tagSet'[t], k \notin lapsed
               PROVE  t \in keyTags[k]
    BY <1>5 DEF Tracked
  <2>1. k \in tagSet[t] /\ k \in Key /\ ~(t = h.tag /\ k = h.key)
    BY <1>5 DEF TypeOK
  <2> QED BY <1>8, <2>1 DEF Debts, Tracked
<1>12. MetaExpires'
  BY <1>5, <1>8 DEF Debts, MetaExpires
<1> QED BY <1>7, <1>9, <1>10, <1>11, <1>12 DEF Debts

\* SSCAN of a tag to invalidate: every member will be looked up.
LEMMA TagScanDebts ==
    ASSUME TypeOK, Shape, Turns, Debts, NEW c \in Client, SendTagScan(c)
    PROVE  Debts'
<1> DEFINE h == Next1(c)
           t0 == h.tag
<1>1. todo[c] # <<>> /\ h.do = "tagScan"
  BY DEF SendTagScan, Is
<1>2. Pending = {h}
  <2>1. \A r \in ToSet(Tail(todo[c])) : MayFollow(h, r)
    BY <1>1, Sending
  <2>2. ToSet(Tail(todo[c])) = {}
    BY <1>1, <2>1 DEF MayFollow
  <2> QED BY <1>1, <2>2, Sending
<1>3. PICK q \in Seq(Cmds) :
          /\ todo' = [todo EXCEPT ![c] = q]
          /\ \A a \in ToSet(q) : \/ a.do = "tagCheck" /\ a.tag = t0
                                 \/ a = DelCmd({}, {}, {}) \/ a = DelTagCmd(t0)
          /\ \A k \in tagSet[t0] :
                \E a \in ToSet(q) : a.do = "tagCheck" /\ a.tag = t0 /\ a.key = k
  BY TagScanQueue
<1>4. Pending' = ToSet(q)
  <2>1. \A d \in Client : d # c => todo[d] = <<>>
    BY <1>1, PendingBusy
  <2> QED BY <1>3, <2>1, PendingNext
<1>5. UNCHANGED <<exp, keyTags, tagsExp, tagSet, now, given, dirty, lapsed>>
  BY DEF SendTagScan, redis
<1> HIDE DEF h
<1>6. \A a \in Pending' :
          \/ a.do = "tagCheck"
          \/ a.do = "del" /\ a.keys = {} /\ a.metaKeys = {} /\ a.metaTags = {}
          \/ a.do = "delTag" /\ a.tag = t0
  BY <1>3, <1>4 DEF DelCmd, DelTagCmd
<1>7. /\ SetsFollowed' /\ TagsGiven' /\ SkipsFollowed' /\ UntagsAll'
      /\ MetaTogether' /\ ScansAll' /\ MetaDeleted'
  BY <1>6 DEF SetsFollowed, TagsGiven, SkipsFollowed, UntagsAll, MetaTogether,
              ScansAll, MetaDeleted
<1>8. \A k \in Key : /\ ~Doomed(k) /\ ~ToClean(k) /\ ~Forgotten(k) /\ ~Cleaned(k)'
                     /\ \A t \in Tag : /\ ~Untagged(k, t) /\ ~Dropped(k, t)
                                       /\ ~Retagged(k, t)
                                       /\ Wiped(t)' => t = t0
  BY <1>1, <1>2, <1>6
  DEF Doomed, ToClean, CleansAll, Untagged, Dropped, Forgotten, Cleaned, Wiped, Retagged
<1>9. Reached'
  <2> SUFFICES ASSUME NEW k \in Key \ dirty, NEW t \in Tag, Live(k), t \in given[k]
               PROVE  k \in tagSet[t] /\ (t = t0 => LookedUp(k, t)')
    BY <1>5, <1>8 DEF Reached, Live
  <2>1. k \in tagSet[t]
    BY <1>8 DEF Debts, Reached
  <2>2. t = t0 => LookedUp(k, t)'
    BY <1>3, <1>4, <2>1 DEF LookedUp
  <2> QED BY <2>1, <2>2
<1>10. OnlyReached'
  BY <1>5, <1>8 DEF Debts, OnlyReached, Live, TypeOK
<1>11. Tracked'
  BY <1>5, <1>8 DEF Debts, Tracked, TypeOK
<1>12. MetaExpires'
  BY <1>5, <1>8 DEF Debts, MetaExpires
<1> QED BY <1>7, <1>9, <1>10, <1>11, <1>12 DEF Debts

\* EXISTS of a member to invalidate: a live one is cleaned up and deleted, the
\* others are cleaned up, and the tag's set is deleted at the end anyway.
LEMMA TagCheckDebts ==
    ASSUME TypeOK, Shape, Turns, Debts, NEW c \in Client, SendTagCheck(c)
    PROVE  Debts'
<1> DEFINE h == Next1(c)
           R == ToSet(Tail(todo[c]))
           m == SMembersCmd(h.key, h.tag)
<1>1. todo[c] # <<>> /\ h.do = "tagCheck"
  BY DEF SendTagCheck, Is
<1>2. /\ Pending = {h} \cup R /\ h \in Cmds
      /\ \A r \in R : r \in Cmds /\ MayFollow(h, r)
  BY <1>1, Sending
<1>3. PICK q \in Seq(Cmds) :
          /\ todo' = [todo EXCEPT ![c] = q]
          /\ \A a \in R : a.do # "del" => a \in ToSet(q)
          /\ \A b \in R : b.do = "del" =>
                \E a \in ToSet(q) : a.do = "del" /\ b.keys \subseteq a.keys
          /\ \A a \in ToSet(q) :
                \/ a \in R
                \/ a = m
                \/ /\ a.do = "del" /\ a.metaKeys = {} /\ a.metaTags = {}
                   /\ \E b \in R : b.do = "del" /\ a.keys = b.keys \cup {h.key}
          /\ m \in ToSet(q)
          /\ \E a \in R : a.do = "delTag" /\ a.tag = h.tag
          /\ Live(h.key) => \E a \in ToSet(q) : a.do = "del" /\ h.key \in a.keys
  BY TagCheckQueue
<1>4. Pending' = ToSet(q)
  <2>1. \A d \in Client : d # c => todo[d] = <<>>
    BY <1>1, PendingBusy
  <2> QED BY <1>3, <2>1, PendingNext
<1>5. UNCHANGED <<exp, keyTags, tagsExp, tagSet, now, given, dirty, lapsed>>
  BY DEF SendTagCheck, redis
<1>6. h.key \in Key /\ h.tag \in Tag /\ h.tag # NoTag
  BY <1>1, <1>2, CommandFields, NoTagAssumption
<1>7. m.do = "smembers" /\ m.key = h.key /\ m.skip = h.tag
  BY DEF SMembersCmd
<1> HIDE DEF h, R, m
<1>8. \A r \in R : /\ r.do \in {"smembers", "tagCheck", "delTag", "del"}
                   /\ r.do = "smembers" => r.skip = h.tag
  BY <1>1, <1>2 DEF MayFollow, CleansAll
<1>9. \A a \in Pending' : /\ a.do \in {"smembers", "tagCheck", "delTag", "del"}
                          /\ a.do = "smembers" => a.skip = h.tag
  BY <1>3, <1>4, <1>7, <1>8
<1>10. /\ SetsFollowed' /\ TagsGiven' /\ UntagsAll' /\ ScansAll'
  BY <1>9 DEF SetsFollowed, TagsGiven, UntagsAll, ScansAll
<1>11. \A k \in Key : /\ ~ToClean(k) /\ (Doomed(k) => Doomed(k)')
                      /\ Forgotten(k) => Forgotten(k)'
                      /\ Cleaned(k)' => Cleaned(k) \/ k = h.key
                      /\ k = h.key => Forgotten(k)' /\ (Live(k) => Doomed(k)')
                      /\ \A t \in Tag : /\ ~Untagged(k, t) /\ ~Retagged(k, t)
                                        /\ LookedUp(k, t) => k = h.key \/ LookedUp(k, t)'
                                        /\ Dropped(k, t) => Dropped(k, t)'
                                        /\ Wiped(t)' => Wiped(t)
  <2> SUFFICES ASSUME NEW k \in Key
               PROVE  /\ ~ToClean(k) /\ (Doomed(k) => Doomed(k)')
                      /\ Forgotten(k) => Forgotten(k)'
                      /\ Cleaned(k)' => Cleaned(k) \/ k = h.key
                      /\ k = h.key => Forgotten(k)' /\ (Live(k) => Doomed(k)')
                      /\ \A t \in Tag : /\ ~Untagged(k, t) /\ ~Retagged(k, t)
                                        /\ LookedUp(k, t) => k = h.key \/ LookedUp(k, t)'
                                        /\ Dropped(k, t) => Dropped(k, t)'
                                        /\ Wiped(t)' => Wiped(t)
    OBVIOUS
  <2>1. ~ToClean(k)
    BY <1>1, <1>2, <1>6, <1>8 DEF ToClean, CleansAll
  <2>2. Doomed(k) => Doomed(k)'
    BY <1>1, <1>2, <1>3, <1>4, <1>8 DEF Doomed
  <2>3. Forgotten(k) => Forgotten(k)'
    BY <1>1, <1>2, <1>3, <1>4 DEF Forgotten
  <2>4. Cleaned(k)' => Cleaned(k) \/ k = h.key
    BY <1>2, <1>3, <1>4, <1>7 DEF Cleaned
  <2>5. k = h.key => Forgotten(k)'
    BY <1>3, <1>4, <1>7 DEF Forgotten
  <2>6. k = h.key => (Live(k) => Doomed(k)')
    BY <1>3, <1>4 DEF Doomed
  <2>7. ASSUME NEW t \in Tag
        PROVE  /\ ~Untagged(k, t) /\ ~Retagged(k, t)
               /\ LookedUp(k, t) => k = h.key \/ LookedUp(k, t)'
               /\ Dropped(k, t) => Dropped(k, t)'
               /\ Wiped(t)' => Wiped(t)
    <3>1. ~Untagged(k, t) /\ ~Retagged(k, t)
      BY <1>1, <1>2, <1>8 DEF Untagged, Retagged
    <3>2. LookedUp(k, t) => k = h.key \/ LookedUp(k, t)'
      BY <1>2, <1>3, <1>4 DEF LookedUp
    <3>3. Dropped(k, t) => Dropped(k, t)'
      BY <1>1, <1>2, <1>3, <1>4 DEF Dropped
    <3>4. Wiped(t)' => Wiped(t)
      BY <1>2, <1>3, <1>4, <1>7 DEF Wiped
    <3> QED BY <3>1, <3>2, <3>3, <3>4
  <2> QED BY <2>1, <2>2, <2>3, <2>4, <2>5, <2>6, <2>7
<1>12. SkipsFollowed'
  <2>1. PICK b \in R : b.do = "delTag" /\ b.tag = h.tag
    BY <1>3
  <2>2. b \in Pending'
    BY <1>3, <1>4, <2>1
  <2> QED BY <1>9, <2>1, <2>2 DEF SkipsFollowed, Dropped
<1>13. Reached'
  <2> SUFFICES ASSUME NEW k \in Key \ dirty, NEW t \in Tag, Live(k), t \in given[k],
                      ~Doomed(k)'
               PROVE  k \in tagSet[t] /\ ~Cleaned(k)' /\ (Wiped(t)' => LookedUp(k, t)')
    BY <1>5 DEF Reached, Live
  <2>1. k \in tagSet[t] /\ ~Cleaned(k) /\ (Wiped(t) => LookedUp(k, t))
    BY <1>11 DEF Debts, Reached
  <2> QED BY <1>11, <2>1
<1>14. OnlyReached'
  BY <1>5, <1>11 DEF Debts, OnlyReached, Live, TypeOK
<1>15. Tracked'
  BY <1>5, <1>11 DEF Debts, Tracked, TypeOK
<1>16. MetaTogether'
  <2> SUFFICES ASSUME NEW a \in Pending', a.do = "del", a.metaKeys # {}
               PROVE  \A t \in Tag : tagSet[t] = {} \/ t \in a.metaTags
    BY <1>5 DEF MetaTogether
  <2>1. a \in R
    BY <1>3, <1>4, <1>7
  <2> QED BY <1>2, <2>1 DEF Debts, MetaTogether
<1>17. MetaExpires'
  BY <1>5, <1>11 DEF Debts, MetaExpires
<1>18. MetaDeleted'
  <2> SUFFICES ASSUME NEW a \in Pending', a.do = "del", NEW k \in a.keys
               PROVE  keyTags[k] = {} \/ tagsExp[k] # Never \/ Forgotten(k)'
    BY <1>5 DEF MetaDeleted
  <2>1. k = h.key \/ \E b \in R : b.do = "del" /\ k \in b.keys
    BY <1>3, <1>4, <1>7
  <2>2. k \in Key
    BY <1>2, <1>6, <2>1, CommandFields
  <2>3. CASE k = h.key
    BY <1>11, <2>2, <2>3
  <2>4. CASE \E b \in R : b.do = "del" /\ k \in b.keys
    <3>1. keyTags[k] = {} \/ tagsExp[k] # Never \/ Forgotten(k)
      BY <1>2, <2>4 DEF Debts, MetaDeleted
    <3> QED BY <1>11, <2>2, <3>1
  <2> QED BY <2>1, <2>3, <2>4
<1> QED BY <1>10, <1>12, <1>13, <1>14, <1>15, <1>16, <1>17, <1>18 DEF Debts

\* DEL: of the keys, and of all the metadata if of any.
LEMMA DelDebts ==
    ASSUME TypeOK, Shape, Turns, Debts, NEW c \in Client, SendDel(c)
    PROVE  Debts'
<1> DEFINE h == Next1(c)
           R == ToSet(Tail(todo[c]))
<1>1. todo[c] # <<>> /\ h.do = "del" /\ Continue(c, <<>>)
  BY DEF SendDel, Is
<1>2. /\ Pending = {h} \cup R /\ h \in Cmds
      /\ \A r \in R : r \in Cmds /\ MayFollow(h, r)
  BY <1>1, Sending
<1>3. Pending' = R
  BY <1>1, SentOff
<1>4. /\ \A k \in Key : /\ exp'[k] = IF k \in h.keys THEN Gone ELSE exp[k]
                        /\ keyTags'[k] = IF k \in h.metaKeys THEN {} ELSE keyTags[k]
                        /\ tagsExp'[k] = IF k \in h.metaKeys THEN Never ELSE tagsExp[k]
      /\ \A t \in Tag : tagSet'[t] = IF t \in h.metaTags THEN {} ELSE tagSet[t]
      /\ UNCHANGED <<now, given, dirty, lapsed>>
  BY DEF SendDel
<1> HIDE DEF h, R
<1>5. \A r \in R : r.do = "delTag"
  BY <1>1, <1>2 DEF MayFollow, CleansAll
<1>6. /\ SetsFollowed' /\ TagsGiven' /\ SkipsFollowed' /\ UntagsAll'
      /\ MetaTogether' /\ ScansAll' /\ MetaDeleted'
  BY <1>3, <1>5 DEF SetsFollowed, TagsGiven, SkipsFollowed, UntagsAll, MetaTogether,
                    ScansAll, MetaDeleted
<1>7. \A k \in Key : /\ Doomed(k) <=> k \in h.keys
                     /\ ~ToClean(k) /\ ~Forgotten(k) /\ ~Cleaned(k)'
                     /\ \A t \in Tag : /\ ~Untagged(k, t) /\ ~Retagged(k, t)
                                       /\ ~LookedUp(k, t)
                                       /\ Dropped(k, t) => Dropped(k, t)'
                                       /\ Wiped(t)' \/ t \in h.metaTags => Wiped(t)
  BY <1>1, <1>2, <1>3, <1>5
  DEF Doomed, ToClean, CleansAll, Untagged, Dropped, Forgotten, Cleaned, Wiped, Retagged,
      LookedUp
<1>8. Reached'
  <2> SUFFICES ASSUME NEW k \in Key \ dirty, NEW t \in Tag, Live(k)', t \in given[k]
               PROVE  k \in tagSet'[t] /\ ~Wiped(t)'
    BY <1>4, <1>7 DEF Reached
  <2>1. Live(k) /\ k \notin h.keys
    BY <1>4 DEF Live
  <2>2. k \in tagSet[t] /\ ~Wiped(t)
    BY <1>7, <2>1 DEF Debts, Reached
  <2> QED BY <1>4, <1>7, <2>2
<1>9. OnlyReached'
  <2> SUFFICES ASSUME NEW t \in Tag, NEW k \in tagSet'[t], k \notin lapsed,
                      Live(k)', t \notin given[k]
               PROVE  FALSE
    BY <1>4 DEF OnlyReached
  <2>1. k \in tagSet[t] /\ k \in Key
    BY <1>4 DEF TypeOK
  <2>2. Live(k) /\ k \notin h.keys
    BY <1>4, <2>1 DEF Live
  <2> QED BY <1>7, <2>1, <2>2 DEF Debts, OnlyReached
<1>10. Tracked'
  <2> SUFFICES ASSUME NEW t \in Tag, NEW k \in tagSet'[t], k \notin lapsed,
                      ~Dropped(k, t)'
               PROVE  t \in keyTags'[k]
    BY <1>4 DEF Tracked
  <2>1. k \in tagSet[t] /\ k \in Key /\ t \notin h.metaTags
    BY <1>4 DEF TypeOK
  <2>2. t \in keyTags[k]
    BY <1>7, <2>1 DEF Debts, Tracked
  <2>3. k \notin h.metaKeys
    BY <1>1, <1>2, <2>1 DEF Debts, MetaTogether
  <2> QED BY <1>4, <2>1, <2>2, <2>3
<1>11. MetaExpires'
  <2> SUFFICES ASSUME NEW k \in Key \ dirty, keyTags'[k] # {}, tagsExp'[k] = Never
               PROVE  exp'[k] = Never
    BY <1>4 DEF MetaExpires
  <2>1. keyTags[k] # {} /\ tagsExp[k] = Never
    BY <1>4
  <2>2. exp[k] = Never
    BY <1>7, <2>1 DEF Debts, MetaExpires
  <2>3. k \notin h.keys
    BY <1>1, <1>2, <1>7, <2>1 DEF Debts, MetaDeleted
  <2> QED BY <1>4, <2>2, <2>3
<1> QED BY <1>6, <1>8, <1>9, <1>10, <1>11 DEF Debts

\* DEL of a tag's set: whoever was in it has been looked up.
LEMMA DelTagDebts ==
    ASSUME TypeOK, Shape, Turns, Debts, NEW c \in Client, SendDelTag(c)
    PROVE  Debts'
<1> DEFINE h == Next1(c)
<1>1. todo[c] # <<>> /\ h.do = "delTag" /\ Continue(c, <<>>)
  BY DEF SendDelTag, Is
<1>2. Pending = {h} /\ h \in Cmds /\ Pending' = {}
  <2>1. \A r \in ToSet(Tail(todo[c])) : MayFollow(h, r)
    BY <1>1, Sending
  <2>2. ToSet(Tail(todo[c])) = {}
    BY <1>1, <2>1 DEF MayFollow
  <2> QED BY <1>1, <2>2, Sending, SentOff
<1>3. h.tag \in Tag
  BY <1>1, <1>2, CommandFields
<1>4. /\ \A t \in Tag : tagSet'[t] = IF t = h.tag THEN {} ELSE tagSet[t]
      /\ UNCHANGED <<exp, keyTags, tagsExp, now, given, dirty, lapsed>>
  BY <1>3 DEF SendDelTag, TypeOK
<1> HIDE DEF h
<1>5. /\ SetsFollowed' /\ TagsGiven' /\ SkipsFollowed' /\ UntagsAll'
      /\ MetaTogether' /\ ScansAll' /\ MetaDeleted'
  BY <1>2 DEF SetsFollowed, TagsGiven, SkipsFollowed, UntagsAll, MetaTogether,
              ScansAll, MetaDeleted
<1>6. \A k \in Key : /\ ~Doomed(k) /\ ~ToClean(k) /\ ~Forgotten(k) /\ ~Cleaned(k)'
                     /\ \A t \in Tag : /\ ~Untagged(k, t) /\ ~Retagged(k, t)
                                       /\ ~LookedUp(k, t) /\ ~Wiped(t)'
                                       /\ Dropped(k, t) => t = h.tag
                                       /\ t = h.tag => Wiped(t)
  BY <1>1, <1>2
  DEF Doomed, ToClean, CleansAll, Untagged, Dropped, Forgotten, Cleaned, Wiped, Retagged,
      LookedUp
<1>7. Reached'
  <2> SUFFICES ASSUME NEW k \in Key \ dirty, NEW t \in Tag, Live(k), t \in given[k]
               PROVE  k \in tagSet'[t]
    BY <1>4, <1>6 DEF Reached, Live
  <2>1. k \in tagSet[t] /\ ~Wiped(t)
    BY <1>6 DEF Debts, Reached
  <2> QED BY <1>4, <1>6, <2>1
<1>8. OnlyReached'
  <2> SUFFICES ASSUME NEW t \in Tag, NEW k \in tagSet'[t], k \notin lapsed,
                      Live(k), t \notin given[k]
               PROVE  FALSE
    BY <1>4 DEF OnlyReached, Live
  <2>1. k \in tagSet[t] /\ k \in Key
    BY <1>4 DEF TypeOK
  <2> QED BY <1>6, <2>1 DEF Debts, OnlyReached
<1>9. Tracked'
  <2> SUFFICES ASSUME NEW t \in Tag, NEW k \in tagSet'[t], k \notin lapsed
               PROVE  t \in keyTags[k]
    BY <1>4 DEF Tracked
  <2>1. k \in tagSet[t] /\ k \in Key /\ t # h.tag
    BY <1>4 DEF TypeOK
  <2> QED BY <1>6, <2>1 DEF Debts, Tracked
<1>10. MetaExpires'
  BY <1>4, <1>6 DEF Debts, MetaExpires
<1> QED BY <1>5, <1>7, <1>8, <1>9, <1>10 DEF Debts

\* SCAN: the matching keys will be cleaned up and deleted, with all the metadata if
\* the pattern matches any.
LEMMA ScanDebts ==
    ASSUME TypeOK, Shape, Turns, Debts, NEW c \in Client, SendScan(c)
    PROVE  Debts'
<1> DEFINE h == Next1(c)
<1>1. todo[c] # <<>> /\ h.do = "scan"
  BY DEF SendScan, Is
<1>2. Pending = {h}
  <2>1. \A r \in ToSet(Tail(todo[c])) : MayFollow(h, r)
    BY <1>1, Sending
  <2>2. ToSet(Tail(todo[c])) = {}
    BY <1>1, <2>1 DEF MayFollow
  <2> QED BY <1>1, <2>2, Sending
<1>3. PICK q \in Seq(Cmds), d \in Cmds :
          /\ todo' = [todo EXCEPT ![c] = q]
          /\ d.do = "del" /\ d.keys = {k \in h.keys : Live(k)}
          /\ d.metaKeys # {} => \A t \in Tag : tagSet[t] = {} \/ t \in d.metaTags
          /\ \A a \in ToSet(q) : \/ a = d
                                 \/ CleansAll(a) /\ a.key \in d.keys
          /\ d \in ToSet(q)
          /\ \A k \in d.keys : \E a \in ToSet(q) : CleansAll(a) /\ a.key = k
          /\ d.metaTags # {} => h.meta
  BY ScanQueue
<1>4. Pending' = ToSet(q)
  <2>1. \A e \in Client : e # c => todo[e] = <<>>
    BY <1>1, PendingBusy
  <2> QED BY <1>3, <2>1, PendingNext
<1>5. UNCHANGED <<exp, keyTags, tagsExp, tagSet, now, given, dirty, lapsed>>
  BY DEF SendScan, redis
<1> HIDE DEF h
<1>6. h.meta => h.keys = Key
  BY <1>1, <1>2 DEF Debts, ScansAll
<1>7. /\ SetsFollowed' /\ TagsGiven' /\ SkipsFollowed' /\ UntagsAll' /\ ScansAll'
  BY <1>3, <1>4 DEF SetsFollowed, TagsGiven, SkipsFollowed, UntagsAll, ScansAll, CleansAll
<1>8. MetaTogether'
  BY <1>3, <1>4, <1>5 DEF MetaTogether, CleansAll
<1>9. MetaDeleted'
  BY <1>3, <1>4, <1>5 DEF MetaDeleted, Forgotten, CleansAll
<1>10. \A k \in Key : /\ ~Doomed(k) /\ ~ToClean(k) /\ ~Forgotten(k)
                      /\ Cleaned(k)' => k \in d.keys
                      /\ k \in d.keys => Doomed(k)'
                      /\ \A t \in Tag : /\ ~Untagged(k, t) /\ ~Dropped(k, t)
                                        /\ ~Retagged(k, t)
                                        /\ Wiped(t)' => t \in d.metaTags
  BY <1>1, <1>2, <1>3, <1>4
  DEF Doomed, ToClean, CleansAll, Untagged, Dropped, Forgotten, Cleaned, Wiped, Retagged
<1>11. Reached'
  <2> SUFFICES ASSUME NEW k \in Key \ dirty, NEW t \in Tag, Live(k), t \in given[k],
                      k \notin d.keys
               PROVE  k \in tagSet[t] /\ ~Cleaned(k)' /\ ~Wiped(t)'
    BY <1>5, <1>10 DEF Reached, Live
  <2>1. k \in tagSet[t]
    BY <1>10 DEF Debts, Reached
  <2>2. ~h.meta
    BY <1>3, <1>6
  <2> QED BY <1>3, <1>10, <2>1, <2>2
<1>12. OnlyReached'
  BY <1>5, <1>10 DEF Debts, OnlyReached, Live, TypeOK
<1>13. Tracked'
  BY <1>5, <1>10 DEF Debts, Tracked, TypeOK
<1>14. MetaExpires'
  BY <1>5, <1>10 DEF Debts, MetaExpires
<1> QED BY <1>7, <1>8, <1>9, <1>11, <1>12, <1>13, <1>14 DEF Debts

\* A call queues its commands; nothing else was pending, or calls would overlap.
LEMMA CallDebts ==
    ASSUME TypeOK, Shape, Debts, NEW c \in Client,
           \A d \in Client \ {c} : todo[d] = <<>>,
           NEW q \in Seq(Cmds), Fresh(ToSet(q)), Call(c, q)
    PROVE  Debts'
<1> DEFINE Q == ToSet(q)
<1>1. todo[c] = <<>> /\ todo' = [todo EXCEPT ![c] = q]
  BY DEF Call
<1>2. UNCHANGED <<exp, keyTags, tagsExp, tagSet, now, given, dirty, lapsed>>
  BY DEF Call, redis
<1>3. Pending = {}
  BY <1>1, NoCommand DEF Pending
<1>4. Pending' = Q
  BY <1>1, PendingNext
<1> HIDE DEF Q
<1>5. Fresh(Q)
  BY DEF Q
<1>6. SetsFollowed'
  BY <1>4, <1>5 DEF SetsFollowed, Fresh, ToClean, CleansAll
<1>7. TagsGiven' /\ SkipsFollowed' /\ UntagsAll' /\ MetaTogether' /\ ScansAll'
  BY <1>4, <1>5
  DEF TagsGiven, SkipsFollowed, UntagsAll, MetaTogether, ScansAll, Fresh, CleansAll
<1>8. \A k \in Key : /\ ~Doomed(k) /\ ~ToClean(k) /\ ~Forgotten(k)
                     /\ Cleaned(k)' => Doomed(k)'
                     /\ \A t \in Tag : /\ ~Untagged(k, t) /\ ~Dropped(k, t)
                                       /\ ~Retagged(k, t) /\ ~Wiped(t)'
  BY <1>3, <1>4, <1>5
  DEF Doomed, ToClean, Untagged, Dropped, Forgotten, Cleaned, Wiped, Retagged, Fresh
<1>9. Reached'
  BY <1>2, <1>8 DEF Debts, Reached, Live
<1>10. OnlyReached'
  BY <1>2, <1>8 DEF Debts, OnlyReached, Live, TypeOK
<1>11. Tracked'
  BY <1>2, <1>8 DEF Debts, Tracked, TypeOK
<1>12. MetaExpires'
  BY <1>2, <1>8 DEF Debts, MetaExpires
<1>13. MetaDeleted'
  BY <1>4, <1>5 DEF MetaDeleted, Forgotten, Fresh, CleansAll
<1> QED BY <1>6, <1>7, <1>9, <1>10, <1>11, <1>12, <1>13 DEF Debts

\* FLUSHDB leaves nothing to owe.
LEMMA ClearDebts ==
    ASSUME NEW c \in Client, \A d \in Client \ {c} : todo[d] = <<>>, Clear(c)
    PROVE  Debts'
<1>1. /\ UNCHANGED <<todo, given, dirty, lapsed>>
      /\ \A k \in Key : exp'[k] = Gone /\ keyTags'[k] = {} /\ tagsExp'[k] = Never
      /\ \A t \in Tag : tagSet'[t] = {}
  BY DEF Clear
<1>2. Pending' = {}
  BY <1>1, NoCommand DEF Pending, Clear
<1>3. /\ SetsFollowed' /\ TagsGiven' /\ SkipsFollowed' /\ UntagsAll'
      /\ MetaTogether' /\ ScansAll' /\ MetaDeleted'
  BY <1>2 DEF SetsFollowed, TagsGiven, SkipsFollowed, UntagsAll, MetaTogether,
              ScansAll, MetaDeleted
<1>4. Reached' /\ OnlyReached' /\ Tracked' /\ MetaExpires'
  BY <1>1 DEF Reached, OnlyReached, Tracked, MetaExpires, Live
<1> QED BY <1>3, <1>4 DEF Debts

\* A process dies: what its commands handled is marked.
LEMMA CrashDebts ==
    ASSUME TypeOK, Shape, Turns, Debts, NEW c \in Client, Crash(c)
    PROVE  Debts'
<1> DEFINE H == Handled(todo[c])
<1>1. todo[c] # <<>> /\ todo' = [todo EXCEPT ![c] = <<>>]
  BY DEF Crash
<1>2. Pending = ToSet(todo[c]) /\ \A d \in Client : d # c => todo[d] = <<>>
  BY <1>1, PendingBusy
<1>3. Pending' = {}
  BY <1>1, <1>2, NoCommand, PendingNext
<1>4. /\ UNCHANGED <<exp, keyTags, tagsExp, tagSet, given>>
      /\ dirty' = dirty \cup H
      /\ lapsed' = lapsed \cup H \cup {k \in Key : \E t \in Tag \ keyTags[k] : k \in tagSet[t]}
  BY DEF Crash, redis
<1>5. \A a \in Pending :
          /\ a.do \in {"set", "del"} => a.keys \subseteq H
          /\ a.do \in {"smembers", "untag", "tag", "srem"} => a.key \in H
  <2> SUFFICES ASSUME NEW a \in ToSet(todo[c])
               PROVE  /\ a.do \in {"set", "del"} => a.keys \subseteq H
                      /\ a.do \in {"smembers", "untag", "tag", "srem"} => a.key \in H
    BY <1>2
  <2>1. PICK i \in 1..Len(todo[c]) : a = todo[c][i]
    BY DEF ToSet, Shape
  <2> QED BY <2>1 DEF Handled
<1> HIDE DEF H
<1>6. /\ SetsFollowed' /\ TagsGiven' /\ SkipsFollowed' /\ UntagsAll'
      /\ MetaTogether' /\ ScansAll' /\ MetaDeleted'
  BY <1>3 DEF SetsFollowed, TagsGiven, SkipsFollowed, UntagsAll, MetaTogether,
              ScansAll, MetaDeleted
<1>7. \A k \in Key : /\ Doomed(k) \/ ToClean(k) \/ Forgotten(k) => k \in H
                     /\ ~Cleaned(k)'
                     /\ \A t \in Tag : /\ Untagged(k, t) \/ Retagged(k, t) => k \in H
                                       /\ ~Wiped(t)'
  BY <1>3, <1>5
  DEF Doomed, ToClean, CleansAll, Untagged, Retagged, Forgotten, Cleaned, Wiped
<1>8. Reached'
  <2> SUFFICES ASSUME NEW k \in Key, k \notin dirty, k \notin H, NEW t \in Tag, Live(k), t \in given[k]
               PROVE  k \in tagSet[t]
    BY <1>4, <1>7 DEF Reached, Live
  <2> QED BY <1>7 DEF Debts, Reached
<1>9. OnlyReached'
  <2> SUFFICES ASSUME NEW t \in Tag, NEW k \in tagSet[t], k \notin lapsed, k \notin H,
                      Live(k), t \notin given[k]
               PROVE  FALSE
    BY <1>4 DEF OnlyReached, Live
  <2>1. k \in Key
    BY DEF TypeOK
  <2> QED BY <1>7, <2>1 DEF Debts, OnlyReached
<1>10. Tracked'
  BY <1>4 DEF Tracked, TypeOK
<1>11. MetaExpires'
  BY <1>4, <1>7 DEF Debts, MetaExpires
<1> QED BY <1>6, <1>8, <1>9, <1>10, <1>11 DEF Debts

\* Redis drops what has expired.
LEMMA TickDebts ==
    ASSUME TypeOK, Shape, Debts, Tick
    PROVE  Debts'
<1>1. /\ \A k \in Key :
             /\ exp'[k] = exp[k] \/ (exp'[k] = Gone /\ exp[k] # Never)
             /\ \/ keyTags'[k] = keyTags[k] /\ tagsExp'[k] = tagsExp[k]
                \/ keyTags'[k] = {} /\ tagsExp'[k] = Never /\ k \in lapsed'
      /\ lapsed \subseteq lapsed'
      /\ UNCHANGED <<tagSet, todo, given, dirty>>
  BY DEF Tick, Never, TypeOK
<1>2. Pending' = Pending
  BY <1>1 DEF Pending
<1>3. Pending \subseteq Cmds
  <2> SUFFICES ASSUME NEW c \in Client, NEW a \in ToSet(todo[c])
               PROVE  a \in Cmds
    BY DEF Pending
  <2>1. \A i \in DOMAIN todo[c] : todo[c][i] \in Cmds
    BY DEF Shape
  <2> QED BY <2>1 DEF ToSet
<1>4. \A k \in Key : /\ Doomed(k) <=> Doomed(k)'
                     /\ ToClean(k) <=> ToClean(k)'
                     /\ Forgotten(k) <=> Forgotten(k)'
                     /\ Cleaned(k) <=> Cleaned(k)'
                     /\ Live(k)' => Live(k)
                     /\ \A t \in Tag : /\ Untagged(k, t) <=> Untagged(k, t)'
                                       /\ Retagged(k, t) <=> Retagged(k, t)'
                                       /\ Dropped(k, t) <=> Dropped(k, t)'
                                       /\ LookedUp(k, t) <=> LookedUp(k, t)'
                                       /\ Wiped(t) <=> Wiped(t)'
  BY <1>1, <1>2
  DEF Doomed, ToClean, CleansAll, Untagged, Retagged, Dropped, LookedUp, Forgotten,
      Cleaned, Wiped, Live
<1>5. SetsFollowed' /\ ScansAll' /\ SkipsFollowed'
  BY <1>2 DEF Debts, SetsFollowed, ScansAll, SkipsFollowed, ToClean, Dropped
<1>6. TagsGiven'
  <2> SUFFICES ASSUME NEW a \in Pending, a.do = "tag", ~ \E b \in Pending : b.do = "set"
               PROVE  a.tags \subseteq given[a.key] /\ (a.ttl = 0 => exp'[a.key] = Never)
    BY <1>1, <1>2 DEF TagsGiven
  <2>1. a.key \in Key
    BY <1>3, CommandFields
  <2>2. a.tags \subseteq given[a.key] /\ (a.ttl = 0 => exp[a.key] = Never)
    BY DEF Debts, TagsGiven
  <2> QED BY <1>1, <2>1, <2>2
<1>7. Reached'
  BY <1>1, <1>4 DEF Debts, Reached
<1>8. OnlyReached'
  BY <1>1, <1>4 DEF Debts, OnlyReached, TypeOK
<1>9. Tracked'
  BY <1>1, <1>4 DEF Debts, Tracked, TypeOK
<1>10. UntagsAll'
  <2> SUFFICES ASSUME NEW a \in Pending, a.do = "untag", a.key \notin lapsed',
                      NEW t \in keyTags'[a.key] \ a.tags
               PROVE  Dropped(a.key, t)'
    BY <1>2 DEF UntagsAll
  <2>1. a.key \in Key
    BY <1>3, CommandFields
  <2>2. keyTags'[a.key] = keyTags[a.key] /\ a.key \notin lapsed
    BY <1>1, <2>1
  <2>3. Dropped(a.key, t)
    BY <2>2 DEF Debts, UntagsAll
  <2> QED BY <1>2, <2>3 DEF Dropped
<1>11. MetaTogether'
  BY <1>1, <1>2 DEF Debts, MetaTogether
<1>12. MetaExpires'
  BY <1>1, <1>4 DEF Debts, MetaExpires
<1>13. MetaDeleted'
  <2> SUFFICES ASSUME NEW a \in Pending, a.do = "del", NEW k \in a.keys
               PROVE  keyTags'[k] = {} \/ tagsExp'[k] # Never \/ Forgotten(k)'
    BY <1>2 DEF MetaDeleted
  <2>1. k \in Key
    BY <1>3, CommandFields
  <2>2. keyTags[k] = {} \/ tagsExp[k] # Never \/ Forgotten(k)
    BY DEF Debts, MetaDeleted
  <2> QED BY <1>1, <1>4, <2>1, <2>2
<1> QED BY <1>5, <1>6, <1>7, <1>8, <1>9, <1>10, <1>11, <1>12, <1>13 DEF Debts

LEMMA TurnsStep ==
    ASSUME Shape, Turns, [Next]_vars, [InTurn]_vars
    PROVE  Turns'
<1>1. CASE UNCHANGED todo
  BY <1>1 DEF Turns
<1>2. ASSUME NEW c \in Client, NEW q, todo' = [todo EXCEPT ![c] = q],
             \A d \in Client \ {c} : todo[d] = <<>>
      PROVE  Turns'
  <2>1. \A d \in Client \ {c} : todo'[d] = <<>>
    BY <1>2 DEF Shape
  <2> QED BY <2>1 DEF Turns
<1>3. ASSUME NEW c \in Client, Invoke(c), InTurn
      PROVE  Turns'
  <2>1. CASE Clear(c)
    BY <1>1, <2>1 DEF Clear
  <2>2. ASSUME NEW q \in Seq(Cmds), Call(c, q)
        PROVE  Turns'
    BY <1>2, <1>3, <2>2 DEF Call, InTurn
  <2> QED BY <1>3, <2>1, <2>2, Called
<1>4. ASSUME NEW c \in Client, Send(c)
      PROVE  Turns'
  <2>1. todo[c] # <<>>
    BY <1>4 DEF Send, Is, SendSet, SendSMembers, SendUntag, SendTag, SendPruneScan,
                SendPruneCheck, SendSRem, SendTagScan, SendTagCheck, SendDel, SendDelTag,
                SendScan
  <2>2. \E q : todo' = [todo EXCEPT ![c] = q]
    BY <1>4 DEF Send, Continue, SendSet, SendSMembers, SendUntag, SendTag, SendPruneScan,
                SendPruneCheck, SendSRem, SendTagScan, SendTagCheck, SendDel, SendDelTag,
                SendScan
  <2> QED BY <1>2, <2>1, <2>2 DEF Turns
<1>5. ASSUME NEW c \in Client, Crash(c)
      PROVE  Turns'
  BY <1>2, <1>5 DEF Crash, Turns
<1> QED BY <1>1, <1>3, <1>4, <1>5 DEF Next, Tick, vars

LEMMA DebtsStep ==
    ASSUME TypeOK, Shape, Turns, Debts, [Next]_vars, [InTurn]_vars
    PROVE  Debts'
<1>1. ASSUME NEW c \in Client, Invoke(c), InTurn
      PROVE  Debts'
  <2>1. \A d \in Client \ {c} : todo[d] = <<>>
    BY <1>1 DEF InTurn
  <2> QED BY <1>1, <2>1, Called, ClearDebts, CallDebts
<1>2. ASSUME NEW c \in Client, Send(c)
      PROVE  Debts'
  BY <1>2, SetDebts, SMembersDebts, UntagDebts, TagDebts, PruneScanDebts, PruneCheckDebts,
     SRemDebts, TagScanDebts, TagCheckDebts, DelDebts, DelTagDebts, ScanDebts DEF Send
<1>3. ASSUME NEW c \in Client, Crash(c)
      PROVE  Debts'
  BY <1>3, CrashDebts
<1>4. CASE Tick
  BY <1>4, TickDebts
<1>5. CASE UNCHANGED vars
  BY <1>5 DEF vars, redis, Debts, Pending, SetsFollowed, TagsGiven, SkipsFollowed, Reached,
              OnlyReached, Tracked, UntagsAll, MetaTogether, ScansAll, MetaExpires,
              MetaDeleted, Doomed, ToClean, Retagged, Untagged, Cleaned, Forgotten,
              Dropped, LookedUp, Wiped, Live
<1> QED BY <1>1, <1>2, <1>3, <1>4, <1>5 DEF Next

LEMMA DebtsInit == Init => Turns /\ Debts
<1> SUFFICES ASSUME Init PROVE Turns /\ Debts
  OBVIOUS
<1>1. \A c \in Client : todo[c] = <<>>
  BY DEF Init
<1>2. Pending = {}
  BY <1>1, NoCommand DEF Pending
<1>3. /\ SetsFollowed /\ TagsGiven /\ SkipsFollowed /\ UntagsAll
      /\ MetaTogether /\ ScansAll /\ MetaDeleted
  BY <1>2 DEF SetsFollowed, TagsGiven, SkipsFollowed, UntagsAll, MetaTogether,
              ScansAll, MetaDeleted
<1>4. Reached /\ OnlyReached /\ Tracked /\ MetaExpires
  BY DEF Init, Reached, OnlyReached, Tracked, MetaExpires, Live
<1> QED BY <1>1, <1>3, <1>4 DEF Turns, Debts

-----------------------------------------------------------------------------
(* What an invalidation under way will delete.                             *)

LEMMA NothingAimed ==
    ASSUME \A b \in Pending' : b.do # "delTag"
    PROVE  Aiming'
BY DEF Aiming

\* Of the commands that do not belong to an invalidation, none is sent while one is
\* under way.
LEMMA OthersAim ==
    ASSUME TypeOK, Shape, Turns, NEW c \in Client,
           \/ SendSet(c) \/ SendTag(c) \/ SendPruneScan(c) \/ SendPruneCheck(c)
           \/ SendSRem(c) \/ SendScan(c) \/ SendDelTag(c)
    PROVE  Aiming'
<1> DEFINE h == Next1(c)
           R == ToSet(Tail(todo[c]))
<1>1. /\ todo[c] # <<>>
      /\ h.do \in {"set", "tag", "prune", "pruneCheck", "srem", "scan", "delTag"}
  BY DEF Is, SendSet, SendTag, SendPruneScan, SendPruneCheck, SendSRem, SendScan, SendDelTag
<1>2. \A r \in R : MayFollow(h, r)
  BY <1>1, Sending
<1>3. \A r \in R : r.do # "delTag"
  BY <1>1, <1>2 DEF MayFollow, CleansAll
<1>4. CASE SendSet(c) \/ SendTag(c) \/ SendSRem(c) \/ SendDelTag(c)
  <2>1. Continue(c, <<>>)
    BY <1>4 DEF SendSet, SendTag, SendSRem, SendDelTag
  <2>2. Pending' = R
    BY <1>1, <2>1, SentOff
  <2> QED BY <1>3, <2>2, NothingAimed
<1>5. CASE SendPruneScan(c)
  <2>1. PICK more \in Seq(Cmds) : Continue(c, more) /\ \A a \in ToSet(more) : a.do = "pruneCheck"
    BY <1>5, PruneScanMore
  <2>2. Pending' = ToSet(more) \cup R
    BY <1>1, <2>1, Sent
  <2> QED BY <1>3, <2>1, <2>2, NothingAimed
<1>6. CASE SendPruneCheck(c)
  <2>1. PICK more \in Seq(Cmds) :
            /\ Continue(c, more)
            /\ ToSet(more) = IF Live(h.key) THEN {}
                             ELSE {SMembersCmd(h.key, h.tag), SRemCmd(h.tag, h.key)}
    BY <1>6, PruneCheckMore
  <2>2. Pending' = ToSet(more) \cup R
    BY <1>1, <2>1, Sent
  <2>3. \A a \in ToSet(more) : a.do # "delTag"
    BY <2>1 DEF SMembersCmd, SRemCmd
  <2> QED BY <1>3, <2>2, <2>3, NothingAimed
<1>7. CASE SendScan(c)
  <2>1. PICK q \in Seq(Cmds), d \in Cmds :
            /\ todo' = [todo EXCEPT ![c] = q]
            /\ d.do = "del"
            /\ \A a \in ToSet(q) : a = d \/ CleansAll(a)
    BY <1>7, ScanQueue
  <2>2. \A e \in Client : e # c => todo[e] = <<>>
    BY <1>1, PendingBusy
  <2>3. Pending' = ToSet(q)
    BY <2>1, <2>2, PendingNext
  <2> QED BY <2>1, <2>3, NothingAimed DEF CleansAll
<1> QED BY <1>4, <1>5, <1>6, <1>7

\* The scan of the tag's set: its members will be looked up, and as yet none is
\* to be deleted.
LEMMA TagScanAims ==
    ASSUME TypeOK, Shape, Turns, NEW c \in Client, SendTagScan(c)
    PROVE  Aiming'
<1> DEFINE t == Next1(c).tag
<1>1. todo[c] # <<>>
  BY DEF SendTagScan, Is
<1>2. PICK q \in Seq(Cmds) :
          /\ todo' = [todo EXCEPT ![c] = q]
          /\ \A a \in ToSet(q) : \/ a.do = "tagCheck" /\ a.tag = t /\ a.key \in tagSet[t]
                                 \/ a = DelCmd({}, {}, {}) \/ a = DelTagCmd(t)
  BY TagScanQueue
<1>3. Pending' = ToSet(q)
  <2>1. \A d \in Client : d # c => todo[d] = <<>>
    BY <1>1, PendingBusy
  <2> QED BY <1>2, <2>1, PendingNext
<1>4. UNCHANGED tagSet
  BY DEF SendTagScan, redis
<1> HIDE DEF t
<1>5. \A a \in Pending' :
          \/ a.do = "tagCheck" /\ a.key \in tagSet[t]
          \/ a.do = "del" /\ a.keys = {}
          \/ a.do = "delTag" /\ a.tag = t
  BY <1>2, <1>3 DEF DelCmd, DelTagCmd
<1> QED BY <1>4, <1>5 DEF Aiming

\* The look-up: a member of the tag's set whose reverse metadata never lapsed was
\* written with the tag, or it would be about to leave the set.
LEMMA TagCheckAims ==
    ASSUME TypeOK, Shape, Turns, Debts, Aiming, NEW c \in Client, SendTagCheck(c)
    PROVE  Aiming'
<1> DEFINE h == Next1(c)
           R == ToSet(Tail(todo[c]))
           m == SMembersCmd(h.key, h.tag)
<1>1. todo[c] # <<>> /\ h.do = "tagCheck"
  BY DEF SendTagCheck, Is
<1>2. /\ Pending = {h} \cup R /\ h \in Cmds
      /\ \A r \in R : r \in Cmds /\ MayFollow(h, r)
  BY <1>1, Sending
<1>3. PICK q \in Seq(Cmds) :
          /\ todo' = [todo EXCEPT ![c] = q]
          /\ \A a \in ToSet(q) :
                \/ a \in R
                \/ a = m
                \/ /\ a.do = "del" /\ a.metaKeys = {} /\ a.metaTags = {}
                   /\ \E b \in R : b.do = "del" /\ a.keys = b.keys \cup {h.key}
  BY TagCheckQueue
<1>4. Pending' = ToSet(q)
  <2>1. \A d \in Client : d # c => todo[d] = <<>>
    BY <1>1, PendingBusy
  <2> QED BY <1>3, <2>1, PendingNext
<1>5. UNCHANGED <<exp, tagSet, given, lapsed>>
  BY DEF SendTagCheck, redis
<1>6. h.key \in Key /\ h.tag \in Tag /\ h.tag # NoTag
  BY <1>1, <1>2, CommandFields, NoTagAssumption
<1>7. m.do = "smembers" /\ m.key = h.key /\ m.skip = h.tag
  BY DEF SMembersCmd
<1> HIDE DEF h, R, m
<1>8. \A r \in R : /\ r.do \in {"smembers", "tagCheck", "delTag", "del"}
                   /\ r.do = "smembers" => r.skip = h.tag
                   /\ r.do = "delTag" => r.tag = h.tag
  BY <1>1, <1>2 DEF MayFollow, CleansAll
<1> SUFFICES ASSUME NEW b \in Pending', b.do = "delTag", NEW a \in Pending'
             PROVE  /\ a.do = "tagCheck" => a.key \in tagSet[b.tag]
                    /\ a.do = "smembers" => a.skip = b.tag
                    /\ a.do # "untag"
                    /\ a.do = "del" =>
                          \A k \in a.keys \ lapsed : Live(k) => b.tag \in given[k]
  BY <1>5 DEF Aiming, Live
<1>9. b \in R /\ b.tag = h.tag
  BY <1>3, <1>4, <1>7, <1>8
<1>10. CASE a \in R
  BY <1>2, <1>8, <1>9, <1>10 DEF Aiming
<1>11. CASE a = m
  BY <1>7, <1>9, <1>11
<1>12. CASE a \notin R /\ a # m
  <2>1. PICK d \in R : a.do = "del" /\ d.do = "del" /\ a.keys = d.keys \cup {h.key}
    BY <1>3, <1>4, <1>12
  <2>2. \A k \in d.keys \ lapsed : Live(k) => b.tag \in given[k]
    BY <1>2, <1>9, <2>1 DEF Aiming
  <2>3. ASSUME h.key \notin lapsed, Live(h.key), b.tag \notin given[h.key]
        PROVE  FALSE
    <3>1. h.key \in tagSet[b.tag]
      BY <1>1, <1>2, <1>9 DEF Aiming
    <3>2. Doomed(h.key) \/ ToClean(h.key) \/ Untagged(h.key, b.tag)
      BY <1>6, <1>9, <2>3, <3>1 DEF Debts, OnlyReached
    <3>3. ~ToClean(h.key) /\ ~Untagged(h.key, b.tag)
      BY <1>1, <1>2, <1>6, <1>8 DEF ToClean, CleansAll, Untagged
    <3>4. PICK e \in R : e.do = "del" /\ h.key \in e.keys
      BY <1>1, <1>2, <1>8, <3>2, <3>3 DEF Doomed
    <3> QED BY <1>2, <1>9, <2>3, <3>4 DEF Aiming
  <2> QED BY <2>1, <2>2, <2>3
<1> QED BY <1>10, <1>11, <1>12

\* The clean-up of a key behind it lists the other tags, and takes it out of them.
LEMMA CleanUpAims ==
    ASSUME TypeOK, Shape, Turns, Aiming, NEW c \in Client, SendSMembers(c) \/ SendUntag(c)
    PROVE  Aiming'
<1> DEFINE h == Next1(c)
           R == ToSet(Tail(todo[c]))
           u == UntagCmd(h.key, keyTags[h.key] \ {h.skip})
<1>1. todo[c] # <<>> /\ h.do \in {"smembers", "untag"}
  BY DEF SendSMembers, SendUntag, Is
<1>2. /\ Pending = {h} \cup R /\ h \in Cmds
      /\ \A r \in R : r \in Cmds /\ MayFollow(h, r)
  BY <1>1, Sending
<1>3. u.do = "untag" /\ u.tags = keyTags[h.key] \ {h.skip}
  BY DEF UntagCmd
<1>4. UNCHANGED <<exp, given, lapsed>>
  BY DEF SendSMembers, SendUntag, redis
<1>5. ASSUME SendSMembers(c)
      PROVE  h.do = "smembers" /\ UNCHANGED tagSet /\ Pending' \subseteq {u} \cup R
  <2>1. PICK more \in Seq(Cmds) :
            /\ Continue(c, more)
            /\ ToSet(more) = IF keyTags[h.key] = {} THEN {} ELSE {u}
    BY <1>5, SMembersMore
  <2>2. Pending' = ToSet(more) \cup R
    BY <1>1, <2>1, Sent
  <2> QED BY <1>5, <2>1, <2>2 DEF SendSMembers, Is, redis
<1>6. ASSUME SendUntag(c)
      PROVE  /\ h.do = "untag" /\ Pending' = R
             /\ \A t \in Tag : t \notin h.tags => tagSet'[t] = tagSet[t]
  <2>1. Continue(c, <<>>)
    BY <1>6 DEF SendUntag
  <2>2. Pending' = R
    BY <1>1, <2>1, SentOff
  <2> QED BY <1>6, <2>2 DEF SendUntag, Is
<1> HIDE DEF h, R, u
<1> SUFFICES ASSUME NEW b \in Pending', b.do = "delTag", NEW a \in Pending'
             PROVE  /\ a.do = "tagCheck" => a.key \in tagSet'[b.tag]
                    /\ a.do = "smembers" => a.skip = b.tag
                    /\ a.do = "untag" => b.tag \notin a.tags
                    /\ a.do = "del" =>
                          \A k \in a.keys \ lapsed : Live(k) => b.tag \in given[k]
  BY <1>4 DEF Aiming, Live
<1>7. b \in R /\ b \in Pending /\ b.tag \in Tag
  BY <1>2, <1>3, <1>5, <1>6, CommandFields
<1>8. /\ h.do = "smembers" => h.skip = b.tag
      /\ h.do = "untag" => b.tag \notin h.tags
  BY <1>2, <1>7 DEF Aiming
<1>9. tagSet'[b.tag] = tagSet[b.tag]
  BY <1>5, <1>6, <1>7, <1>8
<1>10. CASE a \in R
  BY <1>2, <1>7, <1>9, <1>10 DEF Aiming
<1>11. CASE a = u /\ SendSMembers(c)
  BY <1>3, <1>5, <1>8, <1>11
<1> QED BY <1>5, <1>6, <1>10, <1>11

\* Behind a deletion is at most that of the tag's set.
LEMMA DelAims ==
    ASSUME TypeOK, Shape, Turns, NEW c \in Client, SendDel(c)
    PROVE  Aiming'
<1> DEFINE h == Next1(c)
           R == ToSet(Tail(todo[c]))
<1>1. todo[c] # <<>> /\ h.do = "del" /\ Continue(c, <<>>)
  BY DEF SendDel, Is
<1>2. \A r \in R : MayFollow(h, r)
  BY <1>1, Sending
<1>3. Pending' = R
  BY <1>1, SentOff
<1>4. \A r \in R : r.do = "delTag"
  BY <1>1, <1>2 DEF MayFollow, CleansAll
<1> QED BY <1>3, <1>4 DEF Aiming

LEMMA AimingStep ==
    ASSUME TypeOK, Shape, Turns, Debts, Aiming, [Next]_vars, [InTurn]_vars
    PROVE  Aiming'
<1>1. ASSUME NEW c \in Client, Invoke(c), InTurn
      PROVE  Aiming'
  <2>1. \A d \in Client : d # c => todo[d] = <<>>
    BY <1>1 DEF InTurn
  <2>2. CASE Clear(c)
    <3>1. Pending' = {}
      BY <2>1, <2>2, NoCommand DEF Pending, Clear
    <3> QED BY <3>1, NothingAimed
  <2>3. ASSUME NEW q \in Seq(Cmds), Fresh(ToSet(q)), Call(c, q)
        PROVE  Aiming'
    <3>1. Pending' = ToSet(q)
      BY <2>1, <2>3, PendingNext DEF Call
    <3> QED BY <2>3, <3>1, NothingAimed DEF Fresh
  <2> QED BY <1>1, <2>2, <2>3, Called
<1>2. ASSUME NEW c \in Client, Send(c)
      PROVE  Aiming'
  BY <1>2, OthersAim, TagScanAims, TagCheckAims, CleanUpAims, DelAims DEF Send
<1>3. ASSUME NEW c \in Client, Crash(c)
      PROVE  Aiming'
  <2>1. todo[c] # <<>> /\ todo' = [todo EXCEPT ![c] = <<>>]
    BY <1>3 DEF Crash
  <2>2. \A d \in Client : d # c => todo[d] = <<>>
    BY <2>1, PendingBusy
  <2>3. Pending' = {}
    BY <2>1, <2>2, NoCommand, PendingNext
  <2> QED BY <2>3, NothingAimed
<1>4. CASE Tick
  <2>1. /\ UNCHANGED <<tagSet, todo, given>> /\ lapsed \subseteq lapsed'
        /\ \A k \in Key : Live(k)' => Live(k)
    BY <1>4 DEF Tick, Live
  <2>2. Pending' = Pending
    BY <2>1 DEF Pending
  <2>3. \A a \in Pending : a \in Cmds
    <3> SUFFICES ASSUME NEW c \in Client, NEW a \in ToSet(todo[c])
                 PROVE  a \in Cmds
      BY DEF Pending
    <3>1. todo[c] \in Seq(Cmds)
      BY DEF Shape
    <3> QED BY <3>1 DEF ToSet
  <2> SUFFICES ASSUME NEW b \in Pending, b.do = "delTag", NEW a \in Pending
               PROVE  /\ a.do = "tagCheck" => a.key \in tagSet[b.tag]
                      /\ a.do = "smembers" => a.skip = b.tag
                      /\ a.do = "untag" => b.tag \notin a.tags
                      /\ a.do = "del" =>
                            \A k \in a.keys \ lapsed' : Live(k)' => b.tag \in given[k]
    BY <2>1, <2>2 DEF Aiming
  <2>4. a.do = "del" => a.keys \subseteq Key
    BY <2>3, CommandFields
  <2> QED BY <2>1, <2>4 DEF Aiming
<1>5. CASE UNCHANGED vars
  BY <1>5 DEF vars, redis, Aiming, Pending, Live
<1> QED BY <1>1, <1>2, <1>3, <1>4, <1>5 DEF Next

-----------------------------------------------------------------------------
(* The properties: what is owed between calls is nothing.                  *)

LEMMA NothingOwed ==
    ASSUME TypeOK, Debts, Idle
    PROVE  Indexed /\ IndexedOnly /\ MetadataExpires
<1>1. Pending = {}
  BY NoCommand DEF Pending, Idle
<1>2. \A k \in Key : /\ ~Doomed(k) /\ ~ToClean(k) /\ ~Forgotten(k)
                     /\ \A t \in Tag : ~Untagged(k, t) /\ ~Retagged(k, t)
  BY <1>1 DEF Doomed, ToClean, Untagged, Forgotten, Retagged
<1>3. Indexed
  BY <1>2 DEF Debts, Reached, Indexed
<1>4. IndexedOnly
  BY <1>2 DEF Debts, OnlyReached, IndexedOnly, TypeOK
<1>5. MetadataExpires
  BY <1>2 DEF Debts, MetaExpires, MetadataExpires, Live, Never, Gone
<1> QED BY <1>3, <1>4, <1>5

\* With only the deletion of the tag's set left, nobody is still to be looked up or
\* deleted, so nobody is left that was written with the tag.
LEMMA NobodyLeft ==
    ASSUME TypeOK, Shape, Turns, Debts
    PROVE  Invalidated
<1> SUFFICES ASSUME NEW c \in Client, Is(c, "delTag"),
                    NEW k \in Key \ dirty, Live(k), Next1(c).tag \in given[k]
             PROVE  FALSE
  BY DEF Invalidated
<1> DEFINE h == Next1(c)
<1>1. todo[c] # <<>> /\ h.do = "delTag"
  BY DEF Is
<1>2. Pending = {h} /\ h \in Cmds
  <2>1. \A r \in ToSet(Tail(todo[c])) : MayFollow(h, r)
    BY <1>1, Sending
  <2>2. ToSet(Tail(todo[c])) = {}
    BY <1>1, <2>1 DEF MayFollow
  <2> QED BY <1>1, <2>2, Sending
<1>3. h.tag \in Tag
  BY <1>1, <1>2, CommandFields
<1>4. ~Doomed(k) /\ ~Retagged(k, h.tag) /\ ~LookedUp(k, h.tag) /\ Wiped(h.tag)
  BY <1>1, <1>2 DEF Doomed, Retagged, LookedUp, Wiped
<1> QED BY <1>3, <1>4 DEF Debts, Reached

\* A deletion with one command behind it is that of an invalidation.
LEMMA OnlyAimedAt ==
    ASSUME Shape, Aiming
    PROVE  Aimed
<1> SUFFICES ASSUME NEW c \in Client, Is(c, "del"), Len(todo[c]) = 2,
                    NEW k \in Next1(c).keys \ lapsed, Live(k)
             PROVE  todo[c][2].tag \in given[k]
  BY DEF Aimed
<1> DEFINE q == todo[c]
<1>1. q \in Seq(Cmds) /\ Len(q) = 2 /\ Ordered(q) /\ q[1].do = "del" /\ Next1(c) = q[1]
  BY DEF Shape, Is, Next1
<1> HIDE DEF q
<1>2. 1 \in DOMAIN q /\ 2 \in DOMAIN q /\ MayFollow(q[1], q[2])
  BY <1>1 DEF Ordered
<1>3. q[2].do = "delTag"
  BY <1>1, <1>2 DEF MayFollow, CleansAll
<1>4. q[1] \in Pending /\ q[2] \in Pending
  BY <1>2 DEF Pending, ToSet, q
<1> QED BY <1>1, <1>3, <1>4 DEF Aiming, q

\* The inductive invariant of calls that take turns.
IInv == TypeOK /\ Shape /\ Turns /\ Debts /\ Aiming

LEMMA IndexInvariant == Spec /\ [][InTurn]_vars => []IInv
<1>1. Init => IInv
  <2>1. ASSUME Init
        PROVE  Aiming
    <3>1. \A c \in Client : todo[c] = <<>>
      BY <2>1 DEF Init
    <3>2. Pending = {}
      BY <3>1, NoCommand DEF Pending
    <3> QED BY <3>2 DEF Aiming
  <2> QED BY <2>1, TypeInit, DebtsInit DEF IInv
<1>2. IInv /\ [Next]_vars /\ [InTurn]_vars => IInv'
  BY TypeStep, TurnsStep, DebtsStep, AimingStep DEF IInv
<1> QED BY <1>1, <1>2, PTL DEF Spec

LEMMA WhatIsOwed ==
    IInv => InvalidationReachesAll /\ ReachesOnlyWhileTracked /\ MetadataExpires
<1>1. IInv => InvalidationReachesAll
  BY NothingOwed, NobodyLeft DEF IInv, InvalidationReachesAll
<1>2. IInv => ReachesOnlyWhileTracked
  BY NothingOwed, OnlyAimedAt DEF IInv, ReachesOnlyWhileTracked
<1>3. IInv => MetadataExpires
  <2>1. ~Idle => MetadataExpires
    BY DEF MetadataExpires
  <2> QED BY <2>1, NothingOwed DEF IInv
<1> QED BY <1>1, <1>2, <1>3

\* While calls take turns, an entry is always in the sets of its tags when no call
\* runs, and an invalidation that has deleted what it found leaves no entry that was
\* written with its tag, whatever expires in the middle of a method and wherever a
\* process dies; only a key whose own write or deletion a crash cut short may be
\* missed.
THEOREM InvalidationReachesAllCorrect ==
    Spec /\ [][InTurn]_vars => []InvalidationReachesAll
BY IndexInvariant, WhatIsOwed, PTL

\* While calls take turns, a tag reaches no entry last written without it, and an
\* invalidation is never about to delete one, if the key's reverse metadata neither
\* expired nor was left by a dead process.
THEOREM ReachesOnlyWhileTrackedCorrect ==
    Spec /\ [][InTurn]_vars => []ReachesOnlyWhileTracked
BY IndexInvariant, WhatIsOwed, PTL

\* While calls take turns, no reverse metadata without expiry outlives its entry.
THEOREM MetadataExpiresCorrect ==
    Spec /\ [][InTurn]_vars => []MetadataExpires
BY IndexInvariant, WhatIsOwed, PTL

\* One client awaits each of its calls, so its calls take turns: the three
\* properties hold without a further assumption.
THEOREM OneClientCorrect ==
    ASSUME \A c, d \in Client : c = d
    PROVE  Spec => [](InvalidationReachesAll /\ ReachesOnlyWhileTracked /\ MetadataExpires)
<1>1. InTurn
  BY DEF InTurn
<1> QED BY <1>1, InvalidationReachesAllCorrect, ReachesOnlyWhileTrackedCorrect,
           MetadataExpiresCorrect, PTL

=============================================================================
