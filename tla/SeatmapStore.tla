----------------------------- MODULE SeatmapStore -----------------------------
(***************************************************************************)
(* The seatmaps of a venue in MongoDB: versions that are saved once, the   *)
(* one that is published, the cache of the mobile rendering and the        *)
(* snapshots events are sold by.  No operation is a transaction: each      *)
(* database command is a step here and any of them may be the last.        *)
(***************************************************************************)
EXTENDS Naturals, FiniteSets, FiniteSetsExt

CONSTANTS
    MapVersions,    \* seatmap versions of the venue
    MapEvents,      \* events sold by a snapshot
    MapCalls,       \* calls of the repository, each made once
    MaxFailures     \* bound: calls that die half-way

ASSUME MapAssumption == IsFiniteSet(MapCalls) /\ MaxFailures \in Nat

VARIABLES
    hashing,    \* FALSE in a build where require('crypto') throws
    legacy,     \* versions stored without a hash, before this code
    stored,     \* versions in the collection
    published,  \* is_published
    publishedAt,\* published_at, 0 if missing
    hadPublished,\* a version has been published
    changelog,  \* versions with an entry in the version history
    mobile,     \* version in the mobile cache
    snapshots,  \* per event: the version of its snapshot
    mapCall,    \* where each call stands
    failures,   \* calls that died
    interrupted,\* the last publication unpublished all and published nothing
    unflushed,  \* a call ended after its writes and before it emptied the cache
    lateFill    \* the cache was filled with what was read before a later write

mapVars == <<hashing, legacy, stored, published, publishedAt, hadPublished, changelog,
             mobile, snapshots, mapCall, failures, interrupted, unflushed, lateFill>>

NoMap == "no seatmap"

\* A date no publication of these calls reaches, and those of all the rest.
Future == Cardinality(MapCalls) + 1
Stamps == (0..Cardinality(MapCalls)) \cup {Future}

\* at is the call's next command; version the one it is about or has read.
IdleMap == [at |-> "idle", op |-> "none", version |-> NoMap, event |-> NoMap, overtaken |-> FALSE]

MapTypeOK ==
    /\ legacy \cup published \cup changelog \subseteq stored
    /\ stored \subseteq MapVersions
    /\ publishedAt \in [MapVersions -> Stamps]
    /\ hadPublished \in BOOLEAN
    /\ mobile \in stored \cup {NoMap}
    /\ snapshots \in [MapEvents -> stored \cup {NoMap}]
    /\ \A c \in MapCalls :
         /\ mapCall[c].at \in {"idle", "find", "insert", "log", "unpublish", "publish",
                               "flush", "cached", "latest", "fill", "snapshot", "done"}
         /\ mapCall[c].at \in {"fill", "snapshot"} => mapCall[c].version \in stored \ legacy
    /\ failures \in 0..MaxFailures

MapInit ==
    /\ hashing \in BOOLEAN
    /\ legacy \in SUBSET MapVersions /\ stored = legacy
    /\ published = {} /\ changelog = {}
    /\ publishedAt = [v \in MapVersions |-> 0]
    /\ hadPublished = FALSE
    /\ mobile = NoMap
    /\ snapshots = [e \in MapEvents |-> NoMap]
    /\ mapCall = [c \in MapCalls |-> IdleMap]
    /\ failures = 0
    /\ interrupted = FALSE /\ unflushed = FALSE /\ lateFill = FALSE

\* findOne of the published ones, sorted by published_at from the latest
Latest == {v \in published : \A w \in published : publishedAt[w] <= publishedAt[v]}

\* The current date, after every one that is not in the future.
NextStamp == 1 + Max({0} \cup ({publishedAt[v] : v \in MapVersions} \ {Future}))

MapAt(c, at) == mapCall[c].at = at
MapGoes(c, at) == mapCall' = [mapCall EXCEPT ![c].at = at]
MapsKept == UNCHANGED <<hashing, legacy, stored, published, publishedAt, hadPublished, changelog>>
CacheKept == UNCHANGED <<mobile, snapshots, failures, interrupted, unflushed, lateFill>>

\* The call writes and goes on; a call that has read the latest version and not
\* cached it yet is overtaken.
MapWrites(c, at) ==
    mapCall' = [d \in MapCalls |->
      IF d = c THEN [mapCall[d] EXCEPT !.at = at]
      ELSE IF mapCall[d].at = "fill" THEN [mapCall[d] EXCEPT !.overtaken = TRUE]
      ELSE mapCall[d]]

\* A slip: the other versions are unpublished last, and the new one with them.
WriteAfterSwapped(at) ==
    [start |-> "publish", publish |-> "unpublish", unpublish |-> "flush"][at]

\* publishSeatmap: updateMany, then updateOne, then the cache.
WriteAfter(at) == [start |-> "unpublish", unpublish |-> "publish", publish |-> "flush"][at]

Ask(c, op, at, v, e) ==
    /\ MapAt(c, "idle")
    /\ mapCall' = [mapCall EXCEPT ![c] = [@ EXCEPT !.op = op, !.at = at, !.version = v, !.event = e]]
    /\ MapsKept /\ CacheKept

\* saveSeatmap computes the hash first.
AskSave(c, v) == Ask(c, "save", IF hashing THEN "find" ELSE "done", v, NoMap)
AskPublish(c, v) == Ask(c, "publish", WriteAfter("start"), v, NoMap)
AskMobile(c) == Ask(c, "mobile", "cached", NoMap, NoMap)
AskSnapshot(c, e) == Ask(c, "snapshot", "latest", NoMap, e)

-----------------------------------------------------------------------------
(* Saving and publishing *)

FindVersion(c) ==
    /\ MapAt(c, "find")
    /\ MapGoes(c, IF mapCall[c].version \in stored THEN "done" ELSE "insert")
    /\ MapsKept /\ CacheKept

\* insertOne, refused by the unique index for a version another call has just
\* saved.  is_published and published_at are the caller's: the date may be
\* missing, older than others, equal to one, the current one or a future one.
InsertVersion(c, flag, stamp) ==
    LET v == mapCall[c].version IN
    /\ MapAt(c, "insert")
    /\ stamp \in (0..NextStamp) \cup {Future}
    /\ IF v \in stored
       THEN MapGoes(c, "done") /\ UNCHANGED <<stored, published, publishedAt, hadPublished>>
       ELSE /\ stored' = stored \cup {v}
            /\ published' = IF flag THEN published \cup {v} ELSE published
            /\ publishedAt' = [publishedAt EXCEPT ![v] = stamp]
            /\ hadPublished' = (hadPublished \/ flag)
            /\ MapWrites(c, "log")
    /\ UNCHANGED <<hashing, legacy, changelog>> /\ CacheKept

LogVersion(c) ==
    /\ MapAt(c, "log")
    /\ changelog' = changelog \cup {mapCall[c].version}
    /\ MapGoes(c, "flush")
    /\ UNCHANGED <<hashing, legacy, stored, published, publishedAt, hadPublished>> /\ CacheKept

UnpublishAll(c) ==
    /\ MapAt(c, "unpublish")
    /\ published' = {}
    /\ MapWrites(c, WriteAfter("unpublish"))
    /\ UNCHANGED <<hashing, legacy, stored, publishedAt, hadPublished, changelog>> /\ CacheKept

\* No version matches: publishSeatmap returns before it empties the cache.
PublishOne(c) ==
    LET v == mapCall[c].version
        found == v \in stored
    IN  /\ MapAt(c, "publish")
        /\ published' = IF found THEN published \cup {v} ELSE published
        /\ publishedAt' = IF found THEN [publishedAt EXCEPT ![v] = NextStamp] ELSE publishedAt
        /\ hadPublished' = (hadPublished \/ found)
        /\ IF found THEN MapWrites(c, WriteAfter("publish")) ELSE MapGoes(c, "done")
        /\ interrupted' = ~found
        /\ unflushed' = (unflushed \/ ~found)
        /\ UNCHANGED <<hashing, legacy, stored, changelog, mobile, snapshots, failures, lateFill>>

\* A slip: the seatmap's cache is not emptied.
CacheAfterKept == mobile

\* invalidateCache ends saveSeatmap and publishSeatmap.
CacheAfter == NoMap

Flush(c) ==
    /\ MapAt(c, "flush")
    /\ mobile' = CacheAfter
    /\ unflushed' = FALSE /\ lateFill' = FALSE
    /\ MapGoes(c, "done")
    /\ MapsKept /\ UNCHANGED <<snapshots, failures, interrupted>>

-----------------------------------------------------------------------------
(* Reading *)

ReadCache(c) ==
    /\ MapAt(c, "cached")
    /\ MapGoes(c, IF mobile = NoMap THEN "latest" ELSE "done")
    /\ MapsKept /\ CacheKept

\* A slip: the stored hash is not checked.
ReadLatestUnchecked(c) ==
    /\ MapAt(c, "latest")
    /\ \/ \E v \in Latest :
            mapCall' = [mapCall EXCEPT ![c].version = v,
                         ![c].at = IF mapCall[c].op = "mobile" THEN "fill" ELSE "snapshot"]
       \/ Latest = {} /\ MapGoes(c, "done")
    /\ MapsKept /\ CacheKept

\* getLatestSeatmap, with the check of the stored hash
ReadLatest(c) ==
    /\ MapAt(c, "latest")
    /\ \/ \E v \in Latest \ legacy :
            /\ hashing
            /\ mapCall' = [mapCall EXCEPT ![c].version = v,
                            ![c].at = IF mapCall[c].op = "mobile" THEN "fill" ELSE "snapshot"]
       \/ /\ ~hashing \/ Latest = {} \/ Latest \cap legacy # {}
          /\ MapGoes(c, "done")
    /\ MapsKept /\ CacheKept

FillCache(c) ==
    /\ MapAt(c, "fill")
    /\ mobile' = mapCall[c].version
    /\ lateFill' = mapCall[c].overtaken
    /\ unflushed' = (unflushed /\ lateFill')
    /\ MapGoes(c, "done")
    /\ MapsKept /\ UNCHANGED <<snapshots, failures, interrupted>>

\* After an hour a cached map counts as absent.
CacheExpires ==
    /\ mobile # NoMap
    /\ mobile' = NoMap
    /\ unflushed' = FALSE /\ lateFill' = FALSE
    /\ MapsKept /\ UNCHANGED <<snapshots, mapCall, failures, interrupted>>

\* insertOne of the snapshot, whose event_id is unique
WriteSnapshot(c) ==
    LET e == mapCall[c].event IN
    /\ MapAt(c, "snapshot")
    /\ snapshots' = IF snapshots[e] = NoMap THEN [snapshots EXCEPT ![e] = mapCall[c].version]
                    ELSE snapshots
    /\ MapGoes(c, "done")
    /\ MapsKept /\ UNCHANGED <<mobile, failures, interrupted, unflushed, lateFill>>

\* MongoDB or the process fails: the writes made so far remain.
CallDies(c) ==
    /\ mapCall[c].at \notin {"idle", "done"}
    /\ failures < MaxFailures
    /\ failures' = failures + 1
    /\ interrupted' = (interrupted \/ mapCall[c].at = "publish")
    /\ unflushed' = (unflushed \/ mapCall[c].at \in {"log", "publish", "flush"})
    /\ MapGoes(c, "done")
    /\ MapsKept /\ UNCHANGED <<mobile, snapshots, lateFill>>

MapNext ==
    \/ \E c \in MapCalls :
         \/ \E v \in MapVersions : AskSave(c, v) \/ AskPublish(c, v)
         \/ AskMobile(c) \/ \E e \in MapEvents : AskSnapshot(c, e)
         \/ FindVersion(c) \/ \E flag \in BOOLEAN, stamp \in Stamps : InsertVersion(c, flag, stamp)
         \/ LogVersion(c) \/ UnpublishAll(c) \/ PublishOne(c) \/ Flush(c)
         \/ ReadCache(c) \/ ReadLatest(c) \/ FillCache(c) \/ WriteSnapshot(c)
         \/ CallDies(c)
    \/ CacheExpires

MapSpec == MapInit /\ [][MapNext]_mapVars

-----------------------------------------------------------------------------
\* A venue that has had a published seatmap has one, except while publishSeatmap
\* is between its two writes, or after the last such call ended there.
PublishedUnlessInterrupted ==
    published = {} /\ hadPublished =>
        interrupted \/ \E c \in MapCalls : MapAt(c, "publish")

\* The cached rendering is of the published seatmap, except while a save or a
\* publication has not emptied the cache yet, after one ended before that, or
\* when getMobileSeatmap stored what it had read before a later write.
StaleMapsComeFromRaces ==
    mobile # NoMap /\ mobile \notin Latest =>
        \/ unflushed \/ lateFill
        \/ \E c \in MapCalls : mapCall[c].at \in {"log", "publish", "flush"}
=============================================================================
