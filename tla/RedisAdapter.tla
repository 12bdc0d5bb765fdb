----------------------------- MODULE RedisAdapter -----------------------------
(***************************************************************************)
(* The Redis cache adapter of src/src/redis-adapter.ts and its tag index.  *)
(*                                                                         *)
(* Redis executes one command at a time; an adapter method is a chain of   *)
(* awaited commands.  A client's `todo` lists the commands its current     *)
(* method has still to send; each step sends the first one, and what the   *)
(* method does with the answer, up to the next command, belongs to the     *)
(* same step.  Commands of different clients interleave, and the clock may *)
(* tick between any two.  A pipeline is one step, and an SSCAN or SCAN     *)
(* answers with the whole set at once, as Redis does for small ones.       *)
(*                                                                         *)
(* Values do not matter here: a key is absent or has an expiry time.       *)
(***************************************************************************)
EXTENDS Integers, Sequences, FiniteSets, SequencesExt

CONSTANTS
    Key, Tag, Client,
    Ttl,            \* ttl arguments in clock ticks; 0 is "none"
    PruneBatch,     \* TAG_PRUNE_BATCH_SIZE
    MayCrash,       \* may a client's process die in the middle of a method?
    MaxTime         \* bound on the clock

ASSUME RedisAssumption ==
    /\ Ttl \subseteq Nat
    /\ PruneBatch \in Nat \ {0}
    /\ MayCrash \in BOOLEAN
    /\ MaxTime \in Nat
    /\ IsFiniteSet(Key) /\ IsFiniteSet(Tag)

VARIABLES
    exp,        \* per key: when its value expires, Never, or Gone
    keyTags,    \* per key: the Redis set key-tags:<key>
    tagsExp,    \* per key: when that set expires, or Never
    tagSet,     \* per tag: the Redis set tag:<tag>
    now,
    todo,       \* per client: the commands still to send
    \* history:
    given,      \* per key: the tags of the last write
    dirty,      \* keys that a method was handling when its process died
    lapsed      \* keys whose reverse metadata ever expired, or was left by a
                \* process that died

redis == <<exp, keyTags, tagsExp, tagSet>>
vars == <<redis, now, todo, given, dirty, lapsed>>

Gone == -2
Never == -1

Live(k) == exp[k] # Gone

\* Mutant: the ttl is taken for a point in time.
DeadlineAbsolute(ttl) == IF ttl > 0 THEN ttl ELSE Never

\* When a command that passes `ttl` now makes its key expire.
Deadline(ttl) == IF ttl > 0 THEN now + ttl ELSE Never

-----------------------------------------------------------------------------
(* The commands of each method.                                            *)

NoTag == <<>>   \* no tag to skip

ASSUME NoTagAssumption == NoTag \notin Tag

SetCmd(k, tags, ttl)  == [do |-> "set", keys |-> {k}, tags |-> tags, ttl |-> ttl]
MSetCmd(K, ttl)       == [do |-> "set", keys |-> K, tags |-> {}, ttl |-> ttl]
SMembersCmd(k, skip)  == [do |-> "smembers", key |-> k, skip |-> skip]
UntagCmd(k, ts)       == [do |-> "untag", key |-> k, tags |-> ts]
TagCmd(k, ts, ttl)    == [do |-> "tag", key |-> k, tags |-> ts, ttl |-> ttl]
PruneScanCmd(t, n)    == [do |-> "prune", tag |-> t, max |-> n]
PruneCheckCmd(t, k)   == [do |-> "pruneCheck", tag |-> t, key |-> k]
SRemCmd(t, k)         == [do |-> "srem", tag |-> t, key |-> k]
TagScanCmd(t)         == [do |-> "tagScan", tag |-> t]
TagCheckCmd(t, k)     == [do |-> "tagCheck", tag |-> t, key |-> k]
DelCmd(K, mk, mt)     == [do |-> "del", keys |-> K, metaKeys |-> mk, metaTags |-> mt]
DelTagCmd(t)          == [do |-> "delTag", tag |-> t]
ScanCmd(K, meta)      == [do |-> "scan", keys |-> K, meta |-> meta]

\* Mutant: an untagged write leaves the tags alone.
ReplaceIfTagged(k, tags, ttl) ==
    IF tags = {} THEN <<>> ELSE <<SMembersCmd(k, NoTag), TagCmd(k, tags, ttl)>>

\* Mutant: the old tags are cleaned up after the new ones are added.
ReplaceTagsSwapped(k, tags, ttl) ==
    (IF tags = {} THEN <<>> ELSE <<TagCmd(k, tags, ttl)>>) \o <<SMembersCmd(k, NoTag)>>

\* _replaceTagsForKey
ReplaceTags(k, tags, ttl) ==
    <<SMembersCmd(k, NoTag)>> \o (IF tags = {} THEN <<>> ELSE <<TagCmd(k, tags, ttl)>>)

\* _pruneTouchedTags
PruneTouched(ts) == [i \in 1..Len(ts) |-> PruneScanCmd(ts[i], PruneBatch)]

\* _deleteKeys: clean the index entries of each key, then delete them all.
DeleteKeys(ks) ==
    [i \in 1..Len(ks) |-> SMembersCmd(ks[i], NoTag)] \o <<DelCmd(ToSet(ks), {}, {})>>

-----------------------------------------------------------------------------
Init ==
    /\ exp = [k \in Key |-> Gone]
    /\ keyTags = [k \in Key |-> {}]
    /\ tagsExp = [k \in Key |-> Never]
    /\ tagSet = [t \in Tag |-> {}]
    /\ now = 0
    /\ todo = [c \in Client |-> <<>>]
    /\ given = [k \in Key |-> {}]
    /\ dirty = {}
    /\ lapsed = {}

(* Calling a method.                                                       *)

Call(c, commands) ==
    /\ todo[c] = <<>>
    /\ todo' = [todo EXCEPT ![c] = commands]
    /\ UNCHANGED <<redis, now, given, dirty, lapsed>>

Set(c, k, ts, ttl) ==
    Call(c, <<SetCmd(k, ToSet(ts), ttl)>> \o ReplaceTags(k, ToSet(ts), ttl)
            \o PruneTouched(ts))

SetMany(c, ks, ttl) ==
    /\ ks # <<>>
    /\ Call(c, <<MSetCmd(ToSet(ks), ttl)>>
               \o [i \in 1..Len(ks) |-> SMembersCmd(ks[i], NoTag)])

\* del() and delMany()
DelMany(c, ks) == ks # <<>> /\ Call(c, DeleteKeys(ks))

\* A pattern is the set of keys it matches, and whether it also matches the
\* adapter's own metadata keys, as "*" does.
DelPattern(c, K, meta) == Call(c, <<ScanCmd(K, meta)>>)

InvalidateByTag(c, t) == Call(c, <<TagScanCmd(t)>>)

PruneTagMetadata(c, t) == Call(c, <<PruneScanCmd(t, Cardinality(Key))>>)

\* clear() is the single command FLUSHDB.
Clear(c) ==
    /\ todo[c] = <<>>
    /\ exp' = [k \in Key |-> Gone]
    /\ keyTags' = [k \in Key |-> {}]
    /\ tagsExp' = [k \in Key |-> Never]
    /\ tagSet' = [t \in Tag |-> {}]
    /\ UNCHANGED <<now, todo, given, dirty, lapsed>>

-----------------------------------------------------------------------------
(* Sending a command.                                                      *)

Next1(c) == Head(todo[c])
Is(c, what) == todo[c] # <<>> /\ Next1(c).do = what

\* The client goes on with `more`, and then the rest.
Continue(c, more) == todo' = [todo EXCEPT ![c] = more \o Tail(@)]

\* SET of a key, or the pipeline of them in setMany().
SendSet(c) ==
    /\ Is(c, "set")
    /\ LET cmd == Next1(c) IN
       /\ exp' = [k \in Key |-> IF k \in cmd.keys THEN Deadline(cmd.ttl) ELSE exp[k]]
       /\ given' = [k \in Key |-> IF k \in cmd.keys THEN cmd.tags ELSE given[k]]
       /\ dirty' = dirty \ cmd.keys
    /\ Continue(c, <<>>)
    /\ UNCHANGED <<keyTags, tagsExp, tagSet, now, lapsed>>

\* SMEMBERS of key-tags; without any tag the clean-up ends here.
SendSMembers(c) ==
    /\ Is(c, "smembers")
    /\ LET cmd == Next1(c) IN
       Continue(c, IF keyTags[cmd.key] = {} THEN <<>>
                   ELSE <<UntagCmd(cmd.key, keyTags[cmd.key] \ {cmd.skip})>>)
    /\ UNCHANGED <<redis, now, given, dirty, lapsed>>

\* The pipeline SREM ..., DEL key-tags.
SendUntag(c) ==
    /\ Is(c, "untag")
    /\ LET cmd == Next1(c) IN
       /\ tagSet' = [t \in Tag |-> IF t \in cmd.tags THEN tagSet[t] \ {cmd.key}
                                                     ELSE tagSet[t]]
       /\ keyTags' = [keyTags EXCEPT ![cmd.key] = {}]
       /\ tagsExp' = [tagsExp EXCEPT ![cmd.key] = Never]
    /\ Continue(c, <<>>)
    /\ UNCHANGED <<exp, now, given, dirty, lapsed>>

\* Mutant: the reverse metadata gets no expiry.
SendTagForever(c) ==
    /\ Is(c, "tag")
    /\ LET cmd == Next1(c) IN
       /\ tagSet' = [t \in Tag |-> IF t \in cmd.tags THEN tagSet[t] \cup {cmd.key}
                                                     ELSE tagSet[t]]
       /\ keyTags' = [keyTags EXCEPT ![cmd.key] = @ \cup cmd.tags]
    /\ Continue(c, <<>>)
    /\ UNCHANGED <<exp, tagsExp, now, given, dirty, lapsed>>

\* The pipeline SADD ..., SADD key-tags, PEXPIRE key-tags.
SendTag(c) ==
    /\ Is(c, "tag")
    /\ LET cmd == Next1(c) IN
       /\ tagSet' = [t \in Tag |-> IF t \in cmd.tags THEN tagSet[t] \cup {cmd.key}
                                                     ELSE tagSet[t]]
       /\ keyTags' = [keyTags EXCEPT ![cmd.key] = @ \cup cmd.tags]
       /\ tagsExp' = IF cmd.ttl > 0 THEN [tagsExp EXCEPT ![cmd.key] = now + cmd.ttl]
                                    ELSE tagsExp
    /\ Continue(c, <<>>)
    /\ UNCHANGED <<exp, now, given, dirty, lapsed>>

\* SSCAN of a tag in _pruneTagMetadata: at most `max` members are visited.
SendPruneScan(c) ==
    /\ Is(c, "prune")
    /\ LET cmd == Next1(c) IN
       \E ks \in SetToSeqs(tagSet[cmd.tag]) :
           Continue(c, [i \in 1..(IF Len(ks) < cmd.max THEN Len(ks) ELSE cmd.max)
                            |-> PruneCheckCmd(cmd.tag, ks[i])])
    /\ UNCHANGED <<redis, now, given, dirty, lapsed>>

\* EXISTS of a member: a missing key is cleaned up and leaves the tag.
SendPruneCheck(c) ==
    /\ Is(c, "pruneCheck")
    /\ LET cmd == Next1(c) IN
       Continue(c, IF Live(cmd.key) THEN <<>>
                   ELSE <<SMembersCmd(cmd.key, cmd.tag), SRemCmd(cmd.tag, cmd.key)>>)
    /\ UNCHANGED <<redis, now, given, dirty, lapsed>>

SendSRem(c) ==
    /\ Is(c, "srem")
    /\ LET cmd == Next1(c) IN
       tagSet' = [tagSet EXCEPT ![cmd.tag] = @ \ {cmd.key}]
    /\ Continue(c, <<>>)
    /\ UNCHANGED <<exp, keyTags, tagsExp, now, given, dirty, lapsed>>

\* SSCAN of the tag in invalidateByTag: each member will be looked up, those
\* that exist deleted together, and the tag's set deleted at the end.
SendTagScan(c) ==
    /\ Is(c, "tagScan")
    /\ LET t == Next1(c).tag IN
       \E ks \in SetToSeqs(tagSet[t]) :
           Continue(c, [i \in 1..Len(ks) |-> TagCheckCmd(t, ks[i])]
                       \o <<DelCmd({}, {}, {}), DelTagCmd(t)>>)
    /\ UNCHANGED <<redis, now, given, dirty, lapsed>>

\* Mutant: of the members that exist only the last is deleted.
SendTagCheckLast(c) ==
    /\ Is(c, "tagCheck")
    /\ LET cmd  == Next1(c)
           rest == Tail(todo[c])
           n    == Len(rest)
           unindex == SMembersCmd(cmd.key, cmd.tag)
       IN  todo' = [todo EXCEPT ![c] =
                       IF Live(cmd.key)
                       THEN SubSeq(rest, 1, n - 2)
                            \o <<unindex, DelCmd({cmd.key}, {}, {}), rest[n]>>
                       ELSE <<unindex>> \o rest]
    /\ UNCHANGED <<redis, now, given, dirty, lapsed>>

\* EXISTS of a member: if it exists it joins the keys to clean up and delete
\* after the last EXISTS; a missing key is cleaned up at once.
SendTagCheck(c) ==
    /\ Is(c, "tagCheck")
    /\ LET cmd  == Next1(c)
           rest == Tail(todo[c])
           n    == Len(rest)
           del  == rest[n - 1]
           unindex == SMembersCmd(cmd.key, cmd.tag)
       IN  todo' = [todo EXCEPT ![c] =
                       IF Live(cmd.key)
                       THEN SubSeq(rest, 1, n - 2)
                            \o <<unindex, DelCmd(del.keys \cup {cmd.key}, {}, {}), rest[n]>>
                       ELSE <<unindex>> \o rest]
    /\ UNCHANGED <<redis, now, given, dirty, lapsed>>

\* DEL of keys, and of the metadata a delPattern() matched. (With no key to
\* delete no command is sent.)
SendDel(c) ==
    /\ Is(c, "del")
    /\ LET cmd == Next1(c) IN
       /\ exp' = [k \in Key |-> IF k \in cmd.keys THEN Gone ELSE exp[k]]
       /\ keyTags' = [k \in Key |-> IF k \in cmd.metaKeys THEN {} ELSE keyTags[k]]
       /\ tagsExp' = [k \in Key |-> IF k \in cmd.metaKeys THEN Never ELSE tagsExp[k]]
       /\ tagSet' = [t \in Tag |-> IF t \in cmd.metaTags THEN {} ELSE tagSet[t]]
    /\ Continue(c, <<>>)
    /\ UNCHANGED <<now, given, dirty, lapsed>>

SendDelTag(c) ==
    /\ Is(c, "delTag")
    /\ tagSet' = [tagSet EXCEPT ![Next1(c).tag] = {}]
    /\ Continue(c, <<>>)
    /\ UNCHANGED <<exp, keyTags, tagsExp, now, given, dirty, lapsed>>

\* SCAN MATCH in delPattern: the matching keys that exist, and perhaps the
\* metadata keys that do.
SendScan(c) ==
    /\ Is(c, "scan")
    /\ LET cmd == Next1(c)
           mk  == IF cmd.meta THEN {k \in Key : keyTags[k] # {}} ELSE {}
           mt  == IF cmd.meta THEN {t \in Tag : tagSet[t] # {}} ELSE {}
       IN  \E ks \in SetToSeqs({k \in cmd.keys : Live(k)}) :
               Continue(c, [i \in 1..Len(ks) |-> SMembersCmd(ks[i], NoTag)]
                           \o <<DelCmd(ToSet(ks), mk, mt)>>)
    /\ UNCHANGED <<redis, now, given, dirty, lapsed>>

-----------------------------------------------------------------------------
\* Redis drops what has expired.
Tick ==
    /\ now < MaxTime
    /\ now' = now + 1
    /\ LET dead(e) == e \in Nat /\ e <= now + 1 IN
       /\ exp' = [k \in Key |-> IF dead(exp[k]) THEN Gone ELSE exp[k]]
       /\ keyTags' = [k \in Key |-> IF dead(tagsExp[k]) THEN {} ELSE keyTags[k]]
       /\ tagsExp' = [k \in Key |-> IF dead(tagsExp[k]) THEN Never ELSE tagsExp[k]]
    /\ lapsed' = lapsed \cup {k \in Key : tagsExp[k] \in Nat /\ tagsExp[k] <= now + 1}
    /\ UNCHANGED <<tagSet, todo, given, dirty>>

\* The keys whose value and index the commands still to send would have
\* brought together.
Handled(cmds) ==
    UNION {LET cmd == cmds[i] IN
           IF cmd.do \in {"set", "del"} THEN cmd.keys
           ELSE IF cmd.do \in {"smembers", "untag", "tag", "srem"} THEN {cmd.key}
           ELSE {} : i \in 1..Len(cmds)}

\* The process dies between two commands of a method and is started again.
Crash(c) ==
    /\ MayCrash
    /\ todo[c] # <<>>
    /\ dirty' = dirty \cup Handled(todo[c])
    /\ lapsed' = lapsed \cup Handled(todo[c])
                        \cup {k \in Key : \E t \in Tag \ keyTags[k] : k \in tagSet[t]}
    /\ todo' = [todo EXCEPT ![c] = <<>>]
    /\ UNCHANGED <<redis, now, given>>

\* The lists of distinct tags or keys a caller can pass.
Lists(S) == UNION {SetToSeqs(T) : T \in SUBSET S}

Invoke(c) ==
    \/ \E k \in Key, ts \in Lists(Tag), ttl \in Ttl : Set(c, k, ts, ttl)
    \/ \E ks \in Lists(Key), ttl \in Ttl : SetMany(c, ks, ttl)
    \/ \E ks \in Lists(Key) : DelMany(c, ks)
    \/ \E k \in Key : DelPattern(c, {k}, FALSE)
    \/ DelPattern(c, Key, TRUE)
    \/ \E t \in Tag : InvalidateByTag(c, t) \/ PruneTagMetadata(c, t)
    \/ Clear(c)

Send(c) ==
    \/ SendSet(c) \/ SendSMembers(c) \/ SendUntag(c) \/ SendTag(c)
    \/ SendPruneScan(c) \/ SendPruneCheck(c) \/ SendSRem(c)
    \/ SendTagScan(c) \/ SendTagCheck(c) \/ SendDel(c) \/ SendDelTag(c)
    \/ SendScan(c)

Next ==
    \/ \E c \in Client : Invoke(c) \/ Send(c) \/ Crash(c)
    \/ Tick

Spec == Init /\ [][Next]_vars

-----------------------------------------------------------------------------
(* Properties.                                                             *)

\* The commands of each kind.
SetCmds == [do : {"set"}, keys : SUBSET Key, tags : SUBSET Tag, ttl : Ttl]
SMembersCmds == [do : {"smembers"}, key : Key, skip : Tag \cup {NoTag}]
UntagCmds == [do : {"untag"}, key : Key, tags : SUBSET Tag]
TagCmds == [do : {"tag"}, key : Key, tags : (SUBSET Tag) \ {{}}, ttl : Ttl]
PruneCmds == [do : {"prune"}, tag : Tag, max : Nat]
PruneCheckCmds == [do : {"pruneCheck"}, tag : Tag, key : Key]
SRemCmds == [do : {"srem"}, tag : Tag, key : Key]
TagScanCmds == [do : {"tagScan"}, tag : Tag]
TagCheckCmds == [do : {"tagCheck"}, tag : Tag, key : Key]
DelCmds == [do : {"del"}, keys : SUBSET Key, metaKeys : SUBSET Key,
            metaTags : SUBSET Tag]
DelTagCmds == [do : {"delTag"}, tag : Tag]
ScanCmds == [do : {"scan"}, keys : SUBSET Key, meta : BOOLEAN]

Cmds == SetCmds \cup SMembersCmds \cup UntagCmds \cup TagCmds \cup PruneCmds
        \cup PruneCheckCmds \cup SRemCmds \cup TagScanCmds \cup TagCheckCmds
        \cup DelCmds \cup DelTagCmds \cup ScanCmds

\* Types; what will expire, expires in the future.
TypeOK ==
    /\ exp \in [Key -> Int] /\ tagsExp \in [Key -> Int]
    /\ \A k \in Key : exp[k] \in {Gone, Never} \/ exp[k] > now
    /\ \A k \in Key : tagsExp[k] = Never \/ (tagsExp[k] > now /\ keyTags[k] # {})
    /\ keyTags \in [Key -> SUBSET Tag]
    /\ tagSet \in [Tag -> SUBSET Key]
    /\ now \in 0..MaxTime
    /\ todo \in [Client -> Seq(Cmds)]
    /\ given \in [Key -> SUBSET Tag]
    /\ dirty \subseteq Key
    /\ lapsed \subseteq Key

\* No method is running.
Idle == \A c \in Client : todo[c] = <<>>

\* Every entry is in the set of each tag it was last written with.
Indexed ==
    \A k \in Key \ dirty, t \in Tag : Live(k) /\ t \in given[k] => k \in tagSet[t]

\* An invalidation that has deleted what it found, and has only the tag's set
\* left to delete, has left no entry that was last written with the tag.
Invalidated ==
    \A c \in Client : Is(c, "delTag") =>
        \A k \in Key \ dirty : Live(k) => Next1(c).tag \notin given[k]

\* Between calls every entry is listed under its tags, and invalidateByTag
\* "Deletes cache entries attached to a tag" (README.md:423), all of them,
\* although it is one command after another and entries expire, and processes
\* die, between them.  Only a key whose write or deletion a crash cut short may
\* be missed, and no other key with it.
InvalidationReachesAll == (Idle => Indexed) /\ Invalidated

\* Between calls, a tag's set holds no live entry that was last written
\* without the tag: "set(key, value, ttl) without tags clears any previous tag
\* relationship for the same key" (README.md:216).
InvalidationReachesOnly ==
    Idle => \A t \in Tag : \A k \in tagSet[t] : Live(k) => t \in given[k]

\* A tag's set holds no live entry that was last written without the tag,
\* among the keys whose reverse metadata never lapsed.
IndexedOnly ==
    \A t \in Tag : \A k \in tagSet[t] \ lapsed : Live(k) => t \in given[k]

\* An invalidation is about to delete no entry that was last written without
\* the tag.
Aimed ==
    \A c \in Client : Is(c, "del") /\ Len(todo[c]) = 2 =>
        \A k \in Next1(c).keys \ lapsed : Live(k) => todo[c][2].tag \in given[k]

\* The same, for keys whose reverse metadata never expired and was never left
\* half-cleaned by a dead process: then the old tags can always be found and
\* left, whatever else happens, and an invalidation deletes no newer entry.
ReachesOnlyWhileTracked == (Idle => IndexedOnly) /\ Aimed

\* The reverse metadata of an entry that is gone does not stay for ever: "the
\* reverse key-tags metadata receives the same TTL" (README.md:429).
MetadataExpires ==
    Idle => \A k \in Key \ dirty :
                keyTags[k] # {} => Live(k) \/ tagsExp[k] # Never

=============================================================================
