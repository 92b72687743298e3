----------------------------- MODULE CacheServer -----------------------------
(***************************************************************************)
(* The Actions cache of a host, a process of its own                       *)
(* (internal/cacheserver): the requests of the guests, whose identity is   *)
(* the record published at the address of their connection (Leases.tla),   *)
(* the entries with their blobs and the index on disk, the janitor, and    *)
(* the size cap.                                                           *)
(* A key stands for repository, ref, key and version; a blob and a block   *)
(* for one unit of size; of UsedAt only "older than maxIncompleteAge" is   *)
(* kept, so any complete entry may be the least recently used one.         *)
(***************************************************************************)
EXTENDS Integers, FiniteSets, FiniteSetsExt, Leases

CONSTANTS
    Keys,
    Handlers,    \* goroutines of http.Server: a bound
    MaxId,       \* how many entries are made: a bound
    MaxSize,     \* -max-size
    MaxCrashes,  \* how often the process dies: a bound
    NoEntry, NoBlob, Idle

ASSUME CacheAssumption ==
    /\ {MaxId, MaxSize} \subseteq Nat \ {0} /\ MaxCrashes \in Nat

VARIABLES
    entries,     \* every Entry this process has made; a removed one may still be
                 \* in a handler's hands
    staged,      \* ids with bytes that are not finalized
    nextID,
    handler,     \* the requests being served
    client,      \* how far each guest's save is
    index, blobs, blocks,   \* on disk
    stale,       \* reservations whose UsedAt is older than maxIncompleteAge
    crashes, up

memory == <<entries, staged, nextID, stale>>
disk == <<index, blobs, blocks>>
server == <<memory, handler, client, disk, crashes, up>>
vars == <<leases, server>>

Ids == 1..MaxId
States == {"reserved", "complete", "reclaimed", "evicted"}
Entry == [by : Runners, key : Keys, state : States]
Blob == [by : Runners, whole : BOOLEAN]
Ops == {"create", "upload", "block", "commit", "finalize"}
Request == [op : Ops, by : Runners, addr : Addrs, key : Keys, id : Ids \cup {0},
            at : {"auth", "io", "write"}]
Uploads == {"upload", "block", "commit"}
Parts == {"none", "part", "whole"}
Progress == {"new", "reserved", "staged", "uploaded", "saved"}

ASSUME NothingAssumption == NoEntry \notin Entry /\ NoBlob \notin Blob /\ Idle \notin Request

CacheTypeOK ==
    /\ LeasesTypeOK
    /\ entries \in [Ids -> Entry \cup {NoEntry}]
    /\ index \in [Ids -> Entry \cup {NoEntry}]
    /\ blobs \in [Ids -> Blob \cup {NoBlob}]
    /\ blocks \in [Ids -> Parts]
    /\ staged \subseteq Ids /\ stale \subseteq Ids
    /\ nextID \in 1..MaxId + 1
    /\ handler \in [Handlers -> Request \cup {Idle}]
    /\ client \in [Runners -> [at : Progress, id : Ids \cup {0}]]

Is(id, state) == entries[id] # NoEntry /\ entries[id].state = state
Reserved == {id \in Ids : Is(id, "reserved")}
Complete == {id \in Ids : Is(id, "complete")}
Live == Reserved \cup Complete
LiveOf(key) == {id \in Live : entries[id].key = key}

\* What save writes: the entries that are in the map.
Indexed(map) == [id \in Ids |-> IF map[id] # NoEntry /\ map[id].state \in {"reserved", "complete"}
                                THEN map[id] ELSE NoEntry]
Save(ok) == index' = IF ok THEN Indexed(entries') ELSE index

InState(ids, state) == [id \in Ids |-> IF id \in ids THEN [entries[id] EXCEPT !.state = state]
                                       ELSE entries[id]]
Without(files, ids, none) == [id \in Ids |-> IF id \in ids THEN none ELSE files[id]]

-----------------------------------------------------------------------------
(* Guests and their requests.                                              *)

\* Wrong: whoever is at the address now.
WhoIsThere(q) ==
    LET found == record[q.addr]
    IN IF found # NoRecord /\ found.rights = "granted" THEN found.gen ELSE Nobody

\* identity: the rights of the generation the connection was bound to when it was
\* opened, or none.
Authority(q) ==
    IF record[q.addr] = [gen |-> q.by, rights |-> "granted"] THEN q.by ELSE Nobody

\* Wrong: asks whose entry it is only once ioMu is held.
AnyOnes(q, id) == TRUE

\* owns.
Owns(q, id) == Authority(q) # Nobody /\ entries[id].by = Authority(q)

\* The toolkit in the guest makes one request after the other, but may send an
\* upload or a block again, and go on, while the first still runs; it finalizes
\* what it was told is uploaded.
Asks(op) ==
    CASE op = "create" -> {"new", "saved"}
      [] op \in {"upload", "block"} -> {"reserved", "staged"}
      [] op = "commit" -> {"staged"}
      [] op = "finalize" -> {"uploaded"}

Send(h, r, a, op, key) ==
    /\ handler[h] = Idle
    /\ occupant[a] = r /\ record[a] # NoRecord
    /\ client[r].at \in Asks(op)
    /\ \A g \in Handlers :
          handler[g] # Idle /\ handler[g].by = r =>
             handler[g].op \in {"upload", "block"} /\ op # "create"
    /\ client[r].at \in {"reserved", "staged", "uploaded"} =>
          entries[client[r].id] # NoEntry /\ key = entries[client[r].id].key
    /\ handler' = [handler EXCEPT ![h] =
          [op |-> op, by |-> r, addr |-> a, key |-> key, id |-> client[r].id,
           at |-> "auth"]]
    /\ UNCHANGED <<leases, memory, client, disk, crashes, up>>

Answer(h) == handler' = [handler EXCEPT ![h] = Idle]
To(h, at) == handler' = [handler EXCEPT ![h].at = at]
Tells(r, at, id) == client' = [client EXCEPT ![r] = [at |-> at, id |-> id]]

\* authEntry, and the start of handleFinalize: the entry is found, by its id or
\* its key, and the guest's own; its ioMu comes next.
FoundOwn(h) ==
    LET q == handler[h]
        found == IF q.op = "finalize" THEN LiveOf(q.key) \cap Reserved
                                      ELSE {q.id} \cap Live
        own == {id \in found : Owns(q, id)}
    IN /\ q # Idle /\ q.at = "auth" /\ q.op # "create"
       /\ IF own = {} THEN Answer(h)
          ELSE \E id \in own :
                  handler' = [handler EXCEPT ![h].at = "io", ![h].id = id]
       /\ UNCHANGED <<leases, memory, client, disk, crashes, up>>

\* Every upload holds ioMu while its body arrives; for that there is no deadline,
\* and nothing says that it ever ends.  A finalize holds it for a step.
Holds(h, id) == handler[h] # Idle /\ handler[h].id = id /\ handler[h].at = "write"

TakesIoMu(h) ==
    /\ handler[h] # Idle /\ handler[h].at = "io"
    /\ \A g \in Handlers : ~Holds(g, handler[h].id)

\* A create without rights; or rights that are gone when they are read again under
\* ioMu.
Refuse(h) ==
    /\ \/ /\ handler[h] # Idle /\ handler[h].op = "create"
          /\ Authority(handler[h]) = Nobody
       \/ /\ TakesIoMu(h)
          /\ Authority(handler[h]) # entries[handler[h].id].by
    /\ Answer(h)
    /\ UNCHANGED <<leases, memory, client, disk, crashes, up>>

\* Wrong: an upload that waited for ioMu goes on after a finalize.
StillOpen(id) == TRUE

\* Finalized entries are immutable.
MayWrite(id) == entries[id].state \notin {"complete", "evicted"}

Locked(h, op) ==
    /\ TakesIoMu(h)
    /\ handler[h].op = op
    /\ Authority(handler[h]) = entries[handler[h].id].by

TooLate(h) ==
    /\ \E op \in Uploads : Locked(h, op)
    /\ ~MayWrite(handler[h].id)
    /\ Answer(h)
    /\ UNCHANGED <<leases, memory, client, disk, crashes, up>>

-----------------------------------------------------------------------------
(* Entries.                                                                *)

\* Wrong: lets a stale reservation stand beside the new one.
NothingReclaimed(key) == {}

\* What a new reservation takes the place of: a stale one.
Replaced(key) == LiveOf(key)

\* What refuses a create: a complete entry, or a reservation that is not stale.
Taken(key) == {id \in LiveOf(key) : id \in Complete \/ id \notin stale}

Reserve(h, ok) ==
    LET q == handler[h]
        old == Replaced(q.key)
    IN /\ q # Idle /\ q.op = "create" /\ Authority(q) # Nobody
       /\ Answer(h)
       /\ IF Taken(q.key) # {} \/ nextID > MaxId
          THEN UNCHANGED <<memory, disk, client>>
          ELSE /\ nextID' = nextID + 1
               /\ blobs' = Without(blobs, old, NoBlob) /\ blocks' = Without(blocks, old, "none")
               /\ staged' = staged \ old /\ stale' = stale \ (old \cup {nextID})
               /\ entries' = [InState(old, "reclaimed") EXCEPT ![nextID] =
                     [by |-> Authority(q), key |-> q.key,
                      state |-> IF ok THEN "reserved" ELSE "reclaimed"]]
               /\ Save(ok)
               /\ IF ok THEN Tells(q.by, "reserved", nextID) ELSE UNCHANGED client
       /\ UNCHANGED <<leases, crashes, up>>

\* handleGetDownloadURL: a hit saves the index; its error is dropped.
GetURL(key) ==
    /\ LiveOf(key) \cap Complete # {}
    /\ index' = Indexed(entries)
    /\ UNCHANGED <<leases, memory, handler, client, blobs, blocks, crashes, up>>

\* handleUpload goes on under ioMu: writeFile truncates the blob, or the block; a
\* block list is only read ...
OpenUpload(h) ==
    LET q == handler[h]
    IN /\ \E op \in Uploads : Locked(h, op)
       /\ MayWrite(q.id)
       /\ To(h, "write")
       /\ blobs' = IF q.op = "upload"
                   THEN [blobs EXCEPT ![q.id] = [by |-> q.by, whole |-> FALSE]] ELSE blobs
       /\ blocks' = IF q.op = "block" THEN [blocks EXCEPT ![q.id] = "part"] ELSE blocks
       /\ UNCHANGED <<leases, memory, client, index, crashes, up>>

Writing(h, op) == handler[h] # Idle /\ handler[h].at = "write" /\ handler[h].op = op

\* ... and the body has come, whole unless it ends early or is too long.  What the
\* janitor unlinked meanwhile is written nowhere, and noted as staged even so.
WriteBlob(h, ok) ==
    LET q == handler[h]
    IN /\ Writing(h, "upload")
       /\ Answer(h)
       /\ IF ok
          THEN /\ blobs' = [blobs EXCEPT ![q.id] =
                      IF @ = NoBlob THEN @ ELSE [@ EXCEPT !.whole = TRUE]]
               /\ staged' = staged \cup {q.id}
               /\ Tells(q.by, "uploaded", q.id)
          ELSE /\ blobs' = [blobs EXCEPT ![q.id] = NoBlob]
               /\ staged' = staged \ {q.id}
               /\ UNCHANGED client
       /\ UNCHANGED <<leases, entries, nextID, stale, index, blocks, crashes, up>>

\* uploadBlock; what was staged stays noted when a block sent again fails.
PutBlock(h, ok) ==
    LET q == handler[h]
    IN /\ Writing(h, "block")
       /\ Answer(h)
       /\ IF ok THEN /\ blocks' = [blocks EXCEPT ![q.id] = IF @ = "none" THEN @ ELSE "whole"]
                     /\ staged' = staged \cup {q.id}
                     /\ Tells(q.by, "staged", q.id)
                ELSE /\ blocks' = [blocks EXCEPT ![q.id] = "none"]
                     /\ UNCHANGED <<staged, client>>
       /\ UNCHANGED <<leases, entries, nextID, stale, index, blobs, crashes, up>>

\* commitBlockList: assembled aside, and renamed over the blob; a block that a crash
\* cut short is taken as it is.  Blocks that pass the entry's cap are dropped.
CommitBlocks(h, ok) ==
    LET q == handler[h]
    IN /\ Writing(h, "commit")
       /\ Answer(h)
       /\ \/ /\ ok /\ blocks[q.id] # "none"
             /\ blobs' = [blobs EXCEPT ![q.id] = [by |-> q.by, whole |-> blocks[q.id] = "whole"]]
             /\ blocks' = [blocks EXCEPT ![q.id] = "none"]
             /\ staged' = staged \cup {q.id}
             /\ Tells(q.by, "uploaded", q.id)
          \/ /\ ~ok /\ blocks[q.id] # "none"
             /\ blocks' = [blocks EXCEPT ![q.id] = "none"]
             /\ staged' = staged \ {q.id}
             /\ UNCHANGED <<blobs, client>>
          \/ /\ ~ok \/ blocks[q.id] = "none"
             /\ UNCHANGED <<blobs, blocks, staged, client>>
       /\ UNCHANGED <<leases, entries, nextID, stale, index, crashes, up>>

-----------------------------------------------------------------------------
(* Finalizing and the size cap.                                            *)

\* Wrong: finalizes an entry that has left the map.
AnyEntry(id) == Is(id, "reserved") \/ Is(id, "reclaimed")

StillReserved(id) == Is(id, "reserved")
SizeOK(id) == blobs[id] # NoBlob /\ blobs[id].whole

\* Wrong: forgets that the finalized entry takes room too.
OthersOnly(id) == Cardinality(Complete \ {id}) + Cardinality(staged \ {id})

\* What evictLRU counts: complete entries and staged bytes, the finalized entry's
\* among the former.
Total(id) == Cardinality(Complete \cup {id}) + Cardinality(staged \ {id})

Least(i, j) == IF i < j THEN i ELSE j

\* evictLRU(id): as many others as it takes.
Victims(id) ==
    LET others == Complete \ {id}
        excess == Least(Total(id) - MaxSize, Cardinality(others))
    IN IF excess <= 0 THEN {{}} ELSE kSubset(excess, others)

Finalize(h, ok) ==
    LET q == handler[h]
    IN /\ Locked(h, "finalize")
       /\ Answer(h)
       /\ IF StillReserved(q.id) /\ SizeOK(q.id)
          THEN \E gone \in Victims(q.id) :
                  /\ entries' = [InState(gone, "evicted") EXCEPT ![q.id].state =
                        IF @ = "reserved" THEN "complete" ELSE @]
                  /\ blobs' = Without(blobs, gone, NoBlob)
                  /\ blocks' = Without(blocks, gone, "none")
                  /\ staged' = staged \ (gone \cup {q.id}) /\ stale' = stale \ {q.id}
                  /\ Save(ok)
                  /\ IF ok THEN Tells(q.by, "saved", q.id) ELSE UNCHANGED client
          ELSE UNCHANGED <<entries, blobs, blocks, staged, stale, index, client>>
       /\ UNCHANGED <<leases, nextID, crashes, up>>

-----------------------------------------------------------------------------
(* The janitor and the process.                                            *)

\* A reservation that never gets any further is 30 minutes old at last.
GrowsOld(id) ==
    /\ id \in Reserved /\ id \notin stale
    /\ stale' = stale \cup {id}
    /\ UNCHANGED <<leases, entries, staged, nextID, handler, client, disk, crashes, up>>

\* Wrong: skips an entry whose upload is under way.
LeftAlone == {id \in Reserved \cap stale : \A h \in Handlers : ~Holds(h, id)}

Abandoned == Reserved \cap stale

\* gc takes mu but no ioMu: an upload may be under way.
Gc(ok) ==
    /\ Abandoned # {}
    /\ entries' = InState(Abandoned, "reclaimed")
    /\ blobs' = Without(blobs, Abandoned, NoBlob)
    /\ blocks' = Without(blocks, Abandoned, "none")
    /\ staged' = staged \ Abandoned /\ stale' = stale \ Abandoned
    /\ Save(ok)
    /\ UNCHANGED <<leases, nextID, handler, client, crashes, up>>

Crash ==
    /\ up /\ crashes < MaxCrashes
    /\ up' = FALSE /\ crashes' = crashes + 1
    /\ handler' = [h \in Handlers |-> Idle]
    /\ UNCHANGED <<leases, memory, client, disk>>

\* New: load.
Restart ==
    /\ ~up /\ up' = TRUE
    /\ entries' = index
    /\ nextID' = Max({0} \cup {id \in Ids : index[id] # NoEntry}) + 1
    /\ staged' = {}
    /\ UNCHANGED <<leases, stale, handler, client, disk, crashes>>

Init ==
    /\ LeasesInit
    /\ entries = [id \in Ids |-> NoEntry] /\ index = [id \in Ids |-> NoEntry]
    /\ blobs = [id \in Ids |-> NoBlob]
    /\ blocks = [id \in Ids |-> "none"]
    /\ staged = {} /\ stale = {}
    /\ nextID = 1
    /\ handler = [h \in Handlers |-> Idle]
    /\ client = [r \in Runners |-> [at |-> "new", id |-> 0]]
    /\ crashes = 0 /\ up = TRUE

\* What Leases allows, but for the daemon's own end.
Machines ==
    \E a \in Addrs, r \in Runners :
        \/ Arrives(a, r) \/ Publishes(a, r) \/ Leaves(a, r)
        \/ \E rights \in {"granted", "refused"} : Answers(a, r, rights)

HandlerSteps(h) ==
    \/ Refuse(h) \/ FoundOwn(h) \/ TooLate(h) \/ OpenUpload(h)
    \/ \E ok \in BOOLEAN :
          \/ Reserve(h, ok) \/ WriteBlob(h, ok)
          \/ PutBlock(h, ok) \/ CommitBlocks(h, ok) \/ Finalize(h, ok)

Next ==
    \/ Machines /\ UNCHANGED server
    \/ /\ up
       /\ \/ \E h \in Handlers : HandlerSteps(h)
          \/ \E h \in Handlers, r \in Runners, a \in Addrs, op \in Ops, key \in Keys :
                Send(h, r, a, op, key)
          \/ \E key \in Keys : GetURL(key)
          \/ \E id \in Ids : GrowsOld(id)
          \/ \E ok \in BOOLEAN : Gc(ok)
    \/ Crash \/ Restart

Spec == Init /\ [][Next]_vars

\* Time passes, the janitor comes by, and a process that died is started again.
\* No guest ever has to send, or to finish, anything.
Fairness ==
    /\ \A id \in Ids : WF_vars(up /\ GrowsOld(id))
    /\ WF_vars(up /\ \E ok \in BOOLEAN : Gc(ok))
    /\ WF_vars(Restart)

FairSpec == Spec /\ Fairness

-----------------------------------------------------------------------------
(* Properties.                                                             *)

\* A key has one entry, so that a Finalize, which names only the key, finishes its
\* caller's own reservation.
OneEntryPerKey == \A key \in Keys : Cardinality(LiveOf(key)) <= 1

\* The blob of a complete entry is all of what its reserver uploaded: no upload
\* sent twice, delayed past the finalize or cut off by a crash is published.
CompleteIsWhole ==
    \A id \in Complete :
        blobs[id] \in {NoBlob, [by |-> entries[id].by, whole |-> TRUE]}

\* A job that was told its cache is saved finds it there: at that moment the
\* entry is in the map, on disk and in the index.
SavedIsThere ==
    [][ \A r \in Runners :
          client'[r].at = "saved" /\ client[r].at # "saved" =>
             /\ client'[r].id \in Complete'
             /\ blobs'[client'[r].id] # NoBlob
             /\ index'[client'[r].id] = entries'[client'[r].id] ]_vars

\* An entry is made, and published, for the job that asked, however late its
\* request runs and whoever is at its address by then.
ActsForItself ==
    [][ \A h \in Handlers, id \in Ids :
          /\ handler[h] # Idle /\ handler'[h] = Idle
          /\ (id \in Live') # (id \in Live) \/ (id \in Complete') # (id \in Complete)
          /\ id \in Live'
          => entries'[id].by = handler[h].by ]_vars

\* After a finalize, complete entries and the uploads still under way fit the cap,
\* or there is nothing left to evict.
FitsTheCap ==
    [][ Complete' \ Complete # {} /\ up =>
          \/ Cardinality(Complete') + Cardinality(staged') <= MaxSize
          \/ Cardinality(Complete') = 1 ]_vars

\* The wait for an upload's body has no limit, and only requests of the same guest
\* share it: a guest whose connection stalls holds up nobody else's, though a
\* finalize finds its entry by the key, and an address is used again.
StallsOwnOnly ==
    \A g, h \in Handlers :
        /\ handler[g] # Idle /\ handler[h] # Idle
        /\ handler[h].at = "io" /\ Holds(g, handler[h].id)
        => handler[h].by = handler[g].by

\* No reservation keeps its key for ever, though its job is gone, or an upload
\* under way never gets its body and never gives up ioMu, and though saves fail
\* or the process dies.
KeysComeFree == \A id \in Ids : []<>~Is(id, "reserved")

\* "it becomes restorable once FinalizeCacheEntryUpload marks it Complete"
CompleteRestorable == up => \A id \in Complete : blobs[id] # NoBlob
=============================================================================
