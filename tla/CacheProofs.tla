----------------------------- MODULE CacheProofs ------------------------------
(***************************************************************************)
(* Theorems about CacheServer.tla, for any numbers of guests, keys,        *)
(* requests at a time, entries and crashes, and any size cap.              *)
(***************************************************************************)
EXTENDS CacheServer, FiniteSetTheorems, WellFoundedInduction, TLAPS

\* The entries in the map, and those on disk, have each a key of its own.
OneLive ==
    /\ \A id, other \in Live : entries[id].key = entries[other].key => id = other
    /\ \A id, other \in Ids :
          index[id] # NoEntry /\ index[other] # NoEntry /\ index[id].key = index[other].key
          => id = other
    /\ \A id \in Ids : index[id] # NoEntry => index[id].state \in {"reserved", "complete"}

\* No id in use is given out again.
Numbered == \A id \in Ids : entries[id] # NoEntry \/ index[id] # NoEntry => id < nextID

\* The index may be behind: a save that failed leaves an entry reserved there.
IndexAgrees ==
    \A id \in Ids : index[id] # NoEntry =>
        /\ entries[id] # NoEntry
        /\ index[id].by = entries[id].by /\ index[id].key = entries[id].key
        /\ index[id].state = "complete" => entries[id].state \in {"complete", "evicted"}

\* What is complete, or was and may be again after a restart.
OwnBlob(id) == blobs[id] \in {NoBlob, [by |-> entries[id].by, whole |-> TRUE]}
Whole == \A id \in Ids : Is(id, "complete") \/ Is(id, "evicted") => OwnBlob(id)

\* A reservation is its guest's only one, and the guest has not finished it.
Reservers ==
    \A id \in Ids, r \in Runners :
        \/ Is(id, "reserved") /\ entries[id].by = r
        \/ index[id] # NoEntry /\ index[id].state = "reserved" /\ index[id].by = r
        => client[r].id = id /\ client[r].at \in {"reserved", "staged", "uploaded"}

Serves(h, r) == handler[h] # Idle /\ handler[h].by = r
BlobBy(id, r) == blobs[id] = NoBlob \/ blobs[id].by = r

\* What a guest is about to finalize, it uploaded itself.
Uploaded ==
    \A r \in Runners :
        /\ \/ client[r].at = "uploaded"
           \/ \E h \in Handlers : Serves(h, r) /\ handler[h].op = "finalize"
        /\ client[r].id \in Ids /\ entries[client[r].id] # NoEntry
        /\ entries[client[r].id].by = r
        => BlobBy(client[r].id, r)

\* A request is about the entry its guest is at; a create is alone.
Requests ==
    /\ \A r \in Runners : client[r].at # "new" => client[r].id \in Ids
    /\ \A h \in Handlers : handler[h] # Idle =>
          /\ handler[h].id = client[handler[h].by].id
          /\ handler[h].op = "create" =>
                /\ handler[h].at = "auth"
                /\ client[handler[h].by].at \in {"new", "saved"}
                /\ \A g \in Handlers : Serves(g, handler[h].by) => g = h
          /\ handler[h].op # "create" => handler[h].id \in Ids
          /\ handler[h].at = "io" =>
                entries[handler[h].id] # NoEntry /\ entries[handler[h].id].by = handler[h].by
    /\ ~up => \A h \in Handlers : handler[h] = Idle

\* The upload that holds ioMu is alone at its entry, which is not complete; a blob
\* that it writes is its guest's.
Writers ==
    \A h \in Handlers : handler[h] # Idle /\ handler[h].at = "write" =>
        /\ handler[h].op \in Uploads
        /\ entries[handler[h].id] # NoEntry /\ entries[handler[h].id].by = handler[h].by
        /\ entries[handler[h].id].state \in {"reserved", "reclaimed"}
        /\ handler[h].op = "upload" => BlobBy(handler[h].id, handler[h].by)
        /\ \A g \in Handlers : Holds(g, handler[h].id) => g = h

StoreInv == OneLive /\ Numbered /\ IndexAgrees
SaveInv == Whole /\ Reservers /\ Uploaded /\ Requests /\ Writers
CacheInv == CacheTypeOK /\ StoreInv /\ SaveInv

-----------------------------------------------------------------------------
(* Types.                                                                  *)

LEMMA IdsFacts == IsFiniteSet(Ids) /\ Ids \subseteq Nat /\ MaxId \in Nat \ {0}
<1>1. MaxId \in Nat \ {0}
  BY CacheAssumption
<1> QED
  BY <1>1, FS_Interval DEF Ids

LEMMA InStateTypes ==
  ASSUME CacheTypeOK, NEW ids \in SUBSET Ids, NEW state \in States,
         \A id \in ids : entries[id] # NoEntry
  PROVE  InState(ids, state) \in [Ids -> Entry \cup {NoEntry}]
BY DEF InState, CacheTypeOK, Entry

LEMMA IndexedTypes ==
  ASSUME NEW map \in [Ids -> Entry \cup {NoEntry}]
  PROVE  Indexed(map) \in [Ids -> Entry \cup {NoEntry}]
BY DEF Indexed

LEMMA LiveFacts ==
  ASSUME CacheTypeOK
  PROVE  /\ Live \subseteq Ids /\ \A id \in Live : entries[id] \in Entry
         /\ \A key : LiveOf(key) \subseteq Live
BY DEF Live, LiveOf, Reserved, Complete, Is, CacheTypeOK

\* A request is a record of Request.
LEMMA RequestTypes ==
  ASSUME CacheTypeOK, NEW h \in Handlers, handler[h] # Idle
  PROVE  /\ handler[h] \in Request
         /\ Authority(handler[h]) \in {handler[h].by, Nobody}
BY DEF CacheTypeOK, Authority

LEMMA MachinesTypes == CacheTypeOK /\ Machines /\ UNCHANGED server => CacheTypeOK'
<1> SUFFICES ASSUME CacheTypeOK, Machines, UNCHANGED server PROVE CacheTypeOK'
  OBVIOUS
<1> USE LeasesAssumption DEF CacheTypeOK, LeasesTypeOK, Records
<1>1. ASSUME NEW a \in Addrs, NEW r \in Runners,
             \/ Arrives(a, r) \/ Publishes(a, r) \/ Leaves(a, r)
             \/ \E rights \in {"granted", "refused"} : Answers(a, r, rights)
      PROVE  LeasesTypeOK'
  <2>1. CASE Arrives(a, r) \/ Leaves(a, r)
    BY <2>1 DEF Arrives, Leaves
  <2>2. CASE Publishes(a, r)
    BY <2>2 DEF Publishes, Published
  <2>3. CASE \E rights \in {"granted", "refused"} : Answers(a, r, rights)
    BY <2>3 DEF Answers, Published
  <2> QED
    BY <1>1, <2>1, <2>2, <2>3
<1>2. LeasesTypeOK'
  BY <1>1 DEF Machines
<1> QED
  BY <1>2 DEF server, memory, disk

\* What a handler does with its request.
LEMMA HandlerTypes ==
  ASSUME CacheTypeOK, NEW h \in Handlers, handler[h] # Idle,
         \/ Answer(h)
         \/ \E at \in {"io", "write"} : To(h, at)
         \/ \E id \in Ids : handler' = [handler EXCEPT ![h].at = "io", ![h].id = id]
  PROVE  handler' \in [Handlers -> Request \cup {Idle}]
<1>1. handler[h] \in Request
  BY RequestTypes
<1> QED
  BY <1>1 DEF Answer, To, CacheTypeOK, Request

LEMMA TellsTypes ==
  ASSUME CacheTypeOK, NEW r \in Runners, NEW at \in Progress, NEW id \in Ids, Tells(r, at, id)
  PROVE  client' \in [Runners -> [at : Progress, id : Ids \cup {0}]]
BY DEF Tells, CacheTypeOK

\* An entry that a request may write to.
LEMMA LockedFacts ==
  ASSUME CacheTypeOK, Requests, NEW h \in Handlers, NEW op \in Ops \ {"create"}, Locked(h, op)
  PROVE  LET q == handler[h]
         IN /\ q \in Request /\ q.op = op /\ q.at = "io" /\ q.id \in Ids /\ q.by \in Runners
            /\ entries[q.id] \in Entry /\ entries[q.id] # NoEntry
            /\ entries[q.id].by = q.by /\ Authority(q) = q.by
            /\ \A g \in Handlers : ~Holds(g, q.id)
<1>1. /\ handler[h] # Idle /\ handler[h].op = op /\ handler[h].at = "io"
      /\ Authority(handler[h]) = entries[handler[h].id].by
      /\ \A g \in Handlers : ~Holds(g, handler[h].id)
  BY DEF Locked, TakesIoMu
<1>2. handler[h] \in Request
  BY <1>1, RequestTypes
<1>3. handler[h].id \in Ids /\ entries[handler[h].id] # NoEntry /\ entries[handler[h].id].by = handler[h].by
  BY <1>1, <1>2 DEF Requests
<1> QED
  BY <1>1, <1>2, <1>3 DEF CacheTypeOK, Request

LEMMA SendTypes ==
  ASSUME CacheTypeOK, NEW h \in Handlers, NEW r \in Runners, NEW a \in Addrs, NEW op \in Ops,
         NEW key \in Keys, Send(h, r, a, op, key)
  PROVE  CacheTypeOK'
<1> DEFINE q == [op |-> op, by |-> r, addr |-> a, key |-> key, id |-> client[r].id, at |-> "auth"]
<1>1. q \in Request /\ handler' = [handler EXCEPT ![h] = q]
  BY DEF Send, Request, CacheTypeOK
<1> HIDE DEF q
<1> QED
  BY <1>1 DEF Send, memory, disk, leases, CacheTypeOK, LeasesTypeOK

LEMMA RefuseTypes ==
  ASSUME CacheTypeOK, NEW h \in Handlers, Refuse(h) \/ FoundOwn(h) \/ TooLate(h)
  PROVE  CacheTypeOK'
<1>1. handler[h] # Idle /\ UNCHANGED <<leases, memory, client, disk>>
  BY DEF Refuse, FoundOwn, TooLate, Locked, TakesIoMu
<1>2. \/ Answer(h)
      \/ \E id \in Ids : handler' = [handler EXCEPT ![h].at = "io", ![h].id = id]
  BY LiveFacts DEF Refuse, FoundOwn, TooLate
<1>3. handler' \in [Handlers -> Request \cup {Idle}]
  BY <1>1, <1>2, HandlerTypes
<1> QED
  BY <1>1, <1>3 DEF memory, disk, leases, CacheTypeOK, LeasesTypeOK

LEMMA OpenTypes ==
  ASSUME CacheTypeOK, Requests, NEW h \in Handlers, OpenUpload(h)
  PROVE  CacheTypeOK'
<1>1. PICK op \in Uploads : Locked(h, op)
  BY DEF OpenUpload
<1>2. handler[h] \in Request /\ handler[h] # Idle /\ handler[h].id \in Ids /\ handler[h].by \in Runners
  BY <1>1, LockedFacts, NothingAssumption DEF Uploads, Ops
<1>3. handler' \in [Handlers -> Request \cup {Idle}]
  BY <1>2, HandlerTypes DEF OpenUpload
<1>4. [by |-> handler[h].by, whole |-> FALSE] \in Blob
  BY <1>2 DEF Blob
<1>5. blobs' \in [Ids -> Blob \cup {NoBlob}] /\ blocks' \in [Ids -> Parts]
  BY <1>2, <1>4 DEF OpenUpload, Parts, CacheTypeOK
<1> QED
  BY <1>3, <1>5 DEF OpenUpload, memory, leases, CacheTypeOK, LeasesTypeOK

LEMMA WriteTypes ==
  ASSUME CacheTypeOK, Requests, Writers, NEW h \in Handlers, NEW ok \in BOOLEAN,
         WriteBlob(h, ok) \/ PutBlock(h, ok) \/ CommitBlocks(h, ok)
  PROVE  CacheTypeOK'
<1>1. handler[h] # Idle /\ handler[h].at = "write" /\ Answer(h)
  BY DEF WriteBlob, PutBlock, CommitBlocks, Writing
<1>2. handler[h] \in Request /\ handler[h].id \in Ids /\ handler[h].by \in Runners
  BY <1>1, RequestTypes DEF Requests, Writers, Request, Uploads
<1>3. handler' \in [Handlers -> Request \cup {Idle}]
  BY <1>1, HandlerTypes
<1>4. /\ UNCHANGED <<leases, entries, nextID, stale, index>>
      /\ \/ UNCHANGED client
         \/ Tells(handler[h].by, "staged", handler[h].id)
         \/ Tells(handler[h].by, "uploaded", handler[h].id)
  BY DEF WriteBlob, PutBlock, CommitBlocks
<1>5. client' \in [Runners -> [at : Progress, id : Ids \cup {0}]]
  BY <1>2, <1>4, TellsTypes DEF Progress, CacheTypeOK
<1>6. /\ blobs' \in [Ids -> Blob \cup {NoBlob}]
      /\ blocks' \in [Ids -> Parts] /\ staged' \subseteq Ids
  <2>1. \A whole \in BOOLEAN : [by |-> handler[h].by, whole |-> whole] \in Blob
    BY <1>2 DEF Blob
  <2>2. CASE WriteBlob(h, ok)
    <3>1. blobs[handler[h].id] # NoBlob => [blobs[handler[h].id] EXCEPT !.whole = TRUE] \in Blob
      BY <1>2 DEF CacheTypeOK, Blob
    <3> QED
      BY <1>2, <2>2, <3>1 DEF WriteBlob, CacheTypeOK
  <2>3. CASE PutBlock(h, ok)
    BY <1>2, <2>3 DEF PutBlock, Parts, CacheTypeOK
  <2>4. CASE CommitBlocks(h, ok)
    <3> DEFINE blob == [by |-> handler[h].by, whole |-> blocks[handler[h].id] = "whole"]
    <3>1. \/ UNCHANGED blobs
          \/ blobs' = [blobs EXCEPT ![handler[h].id] = blob]
      BY <2>4 DEF CommitBlocks
    <3>2. blob \in Blob
      BY <2>1
    <3> HIDE DEF blob
    <3>3. blobs' \in [Ids -> Blob \cup {NoBlob}]
      BY <3>1, <3>2 DEF CacheTypeOK
    <3>4. blocks' \in [Ids -> Parts] /\ staged' \subseteq Ids
      BY <1>2, <2>4 DEF CommitBlocks, Parts, CacheTypeOK
    <3> QED
      BY <3>3, <3>4
  <2> QED
    BY <2>2, <2>3, <2>4
<1> QED
  BY <1>3, <1>4, <1>5, <1>6 DEF leases, CacheTypeOK, LeasesTypeOK

\* Entries leave the map for good, or finish.
Reclaims(id) == entries[id] # NoEntry /\ entries'[id] = [entries[id] EXCEPT !.state = "reclaimed"]

\* A create that is not refused: what it makes, and what it takes the place of.
Makes(h, ok) ==
    LET q == handler[h]
    IN /\ nextID \in Ids /\ nextID' = nextID + 1 /\ Replaced(q.key) \subseteq Reserved \cap stale
       /\ entries' \in [Ids -> Entry \cup {NoEntry}]
       /\ entries'[nextID] =
            [by |-> q.by, key |-> q.key, state |-> IF ok THEN "reserved" ELSE "reclaimed"]
       /\ \A id \in Ids \ {nextID} :
            IF id \in Replaced(q.key) THEN Reclaims(id) ELSE entries'[id] = entries[id]
       /\ blobs' = Without(blobs, Replaced(q.key), NoBlob)
       /\ blocks' = Without(blocks, Replaced(q.key), "none")
       /\ staged' = staged \ Replaced(q.key) /\ stale' = stale \ (Replaced(q.key) \cup {nextID})
       /\ Save(ok)
       /\ IF ok THEN Tells(q.by, "reserved", nextID) ELSE UNCHANGED client

LEMMA ReserveFacts ==
  ASSUME CacheTypeOK, NEW h \in Handlers, NEW ok \in BOOLEAN, Reserve(h, ok)
  PROVE  /\ handler[h] \in Request /\ handler[h] # Idle /\ handler[h].op = "create"
         /\ handler[h].by \in Runners /\ Authority(handler[h]) = handler[h].by
         /\ Answer(h) /\ UNCHANGED <<leases, crashes, up>>
         /\ UNCHANGED <<memory, disk, client>> \/ Makes(h, ok)
<1> DEFINE q == handler[h]
           old == Replaced(q.key)
<1>1. /\ q # Idle /\ q.op = "create" /\ Authority(q) # Nobody
      /\ Answer(h) /\ UNCHANGED <<leases, crashes, up>>
  BY DEF Reserve
<1>2. q \in Request /\ q.by \in Runners /\ q.key \in Keys /\ Authority(q) = q.by
  BY <1>1, RequestTypes DEF Request
<1>3. SUFFICES ASSUME ~(Taken(q.key) # {} \/ nextID > MaxId) PROVE Makes(h, ok)
  BY <1>1, <1>2 DEF Reserve
<1>4. /\ nextID' = nextID + 1
      /\ blobs' = Without(blobs, old, NoBlob) /\ blocks' = Without(blocks, old, "none")
      /\ staged' = staged \ old /\ stale' = stale \ (old \cup {nextID})
      /\ entries' = [InState(old, "reclaimed") EXCEPT ![nextID] =
            [by |-> q.by, key |-> q.key, state |-> IF ok THEN "reserved" ELSE "reclaimed"]]
      /\ Save(ok)
      /\ IF ok THEN Tells(q.by, "reserved", nextID) ELSE UNCHANGED client
  BY <1>2, <1>3 DEF Reserve
<1>5. nextID \in Ids
  BY <1>3, IdsFacts DEF CacheTypeOK, Ids
<1>6. old \subseteq Reserved \cap stale
  BY <1>3 DEF Replaced, Taken, LiveOf, Live
<1>7. old \subseteq Ids /\ \A id \in old : entries[id] # NoEntry
  BY <1>6 DEF Reserved, Is
<1>8. InState(old, "reclaimed") \in [Ids -> Entry \cup {NoEntry}]
  BY <1>7, InStateTypes DEF States
<1>9. [by |-> q.by, key |-> q.key, state |-> IF ok THEN "reserved" ELSE "reclaimed"] \in Entry
  BY <1>2 DEF Entry, States
<1>10. /\ entries' \in [Ids -> Entry \cup {NoEntry}]
       /\ entries'[nextID] = [by |-> q.by, key |-> q.key, state |-> IF ok THEN "reserved" ELSE "reclaimed"]
       /\ \A id \in Ids \ {nextID} : entries'[id] = InState(old, "reclaimed")[id]
  BY <1>4, <1>5, <1>8, <1>9
<1>11. \A id \in Ids \ {nextID} : IF id \in old THEN Reclaims(id) ELSE entries'[id] = entries[id]
  BY <1>7, <1>10 DEF InState, Reclaims
<1> QED
  BY <1>4, <1>5, <1>6, <1>10, <1>11 DEF Makes

\* A finalize that is not refused: the entry it completes and those it evicts.
Finishes(h, gone, ok) ==
    LET q == handler[h]
    IN /\ q.id \in Reserved /\ SizeOK(q.id) /\ gone \subseteq Complete /\ q.id \notin gone
       /\ entries' \in [Ids -> Entry \cup {NoEntry}]
       /\ entries'[q.id] = [entries[q.id] EXCEPT !.state = "complete"]
       /\ \A id \in gone : entries'[id] = [entries[id] EXCEPT !.state = "evicted"]
       /\ \A id \in Ids \ (gone \cup {q.id}) : entries'[id] = entries[id]
       /\ blobs' = Without(blobs, gone, NoBlob)
       /\ blocks' = Without(blocks, gone, "none")
       /\ staged' = staged \ (gone \cup {q.id}) /\ stale' = stale \ {q.id}
       /\ Save(ok)
       /\ IF ok THEN Tells(q.by, "saved", q.id) ELSE UNCHANGED client

LEMMA FinalizeFacts ==
  ASSUME CacheTypeOK, Requests, NEW h \in Handlers, NEW ok \in BOOLEAN, Finalize(h, ok)
  PROVE  /\ Locked(h, "finalize") /\ Answer(h) /\ UNCHANGED <<leases, nextID, crashes, up>>
         /\ \/ UNCHANGED <<entries, blobs, blocks, staged, stale, index, client>>
            \/ \E gone \in Victims(handler[h].id) : Finishes(h, gone, ok)
<1> DEFINE q == handler[h]
<1>1. Locked(h, "finalize") /\ Answer(h) /\ UNCHANGED <<leases, nextID, crashes, up>>
  BY DEF Finalize
<1>2. q.id \in Ids /\ entries[q.id] \in Entry
  BY <1>1, LockedFacts DEF Ops
<1>3. SUFFICES ASSUME StillReserved(q.id), SizeOK(q.id)
               PROVE  \E gone \in Victims(q.id) : Finishes(h, gone, ok)
  BY <1>1 DEF Finalize
<1>4. PICK gone \in Victims(q.id) :
        /\ entries' = [InState(gone, "evicted") EXCEPT ![q.id].state =
              IF @ = "reserved" THEN "complete" ELSE @]
        /\ blobs' = Without(blobs, gone, NoBlob)
        /\ blocks' = Without(blocks, gone, "none")
        /\ staged' = staged \ (gone \cup {q.id}) /\ stale' = stale \ {q.id}
        /\ Save(ok)
        /\ IF ok THEN Tells(q.by, "saved", q.id) ELSE UNCHANGED client
  BY <1>3 DEF Finalize
<1>5. gone \subseteq Complete \ {q.id}
  BY DEF Victims, kSubset
<1>6. gone \subseteq Ids /\ \A id \in gone : entries[id] # NoEntry
  BY <1>5 DEF Complete, Is
<1>7. InState(gone, "evicted") \in [Ids -> Entry \cup {NoEntry}]
  BY <1>6, InStateTypes DEF States
<1>8. /\ InState(gone, "evicted")[q.id] = entries[q.id]
      /\ q.id \in Reserved /\ entries[q.id].state = "reserved"
  BY <1>2, <1>3, <1>5 DEF InState, StillReserved, Reserved, Is
<1>9. /\ entries' = [InState(gone, "evicted") EXCEPT ![q.id] = [entries[q.id] EXCEPT !.state = "complete"]]
      /\ [entries[q.id] EXCEPT !.state = "complete"] \in Entry
  BY <1>2, <1>4, <1>7, <1>8 DEF Entry, States
<1>10. /\ entries' \in [Ids -> Entry \cup {NoEntry}]
       /\ entries'[q.id] = [entries[q.id] EXCEPT !.state = "complete"]
       /\ \A id \in Ids \ {q.id} : entries'[id] = InState(gone, "evicted")[id]
  BY <1>2, <1>7, <1>9
<1>11. /\ \A id \in gone : entries'[id] = [entries[id] EXCEPT !.state = "evicted"]
       /\ \A id \in Ids \ (gone \cup {q.id}) : entries'[id] = entries[id]
  BY <1>5, <1>6, <1>10 DEF InState
<1> QED
  BY <1>3, <1>4, <1>5, <1>8, <1>10, <1>11 DEF Finishes

\* gc: what it takes out of the map.
LEMMA GcFacts ==
  ASSUME CacheTypeOK, NEW ok \in BOOLEAN, Gc(ok)
  PROVE  /\ entries' \in [Ids -> Entry \cup {NoEntry}]
         /\ \A id \in Ids : IF id \in Abandoned THEN Reclaims(id) ELSE entries'[id] = entries[id]
<1>1. Abandoned \subseteq Ids /\ \A id \in Abandoned : entries[id] # NoEntry
  BY DEF Abandoned, Reserved, Is
<1>2. entries' = InState(Abandoned, "reclaimed")
  BY DEF Gc
<1>3. entries' \in [Ids -> Entry \cup {NoEntry}]
  BY <1>1, <1>2, InStateTypes DEF States
<1> QED
  BY <1>1, <1>2, <1>3 DEF InState, Reclaims

LEMMA WithoutTypes ==
  ASSUME CacheTypeOK, NEW ids
  PROVE  /\ Without(blobs, ids, NoBlob) \in [Ids -> Blob \cup {NoBlob}]
         /\ Without(blocks, ids, "none") \in [Ids -> Parts]
BY DEF Without, Parts, CacheTypeOK

\* load takes up the numbering where the index ends.
LEMMA LoadFacts ==
  ASSUME CacheTypeOK
  PROVE  LET used == {0} \cup {id \in Ids : index[id] # NoEntry}
         IN /\ Max(used) \in 0..MaxId
            /\ \A id \in Ids : index[id] # NoEntry => id <= Max(used)
<1> DEFINE used == {0} \cup {id \in Ids : index[id] # NoEntry}
           low == {MaxId - id : id \in used}
<1>1. used \subseteq 0..MaxId /\ 0 \in used /\ MaxId \in Nat
  BY IdsFacts DEF Ids
<1>2. low \subseteq Nat /\ low # {}
  BY <1>1
<1>3. PICK n \in low : \A m \in low : n <= m
  <2> DEFINE less == {ss \in Nat \X Nat : ss[1] < ss[2]}
  <2>1. IsWellFoundedOn(less, Nat)
    BY NatLessThanWellFounded DEF OpToRel
  <2>2. PICK n \in low : \A m \in low : ~ (<<m, n>> \in less)
    BY <1>2, <2>1, WFMin
  <2>3. ASSUME NEW m \in low PROVE n <= m
    <3>1. m \in Nat /\ n \in Nat
      BY <1>2
    <3>2. m < n => <<m, n>> \in less
      BY <3>1
    <3> QED
      BY <2>2, <3>1, <3>2
  <2> QED
    BY <2>3
<1>4. \E x \in used : \A y \in used : x >= y
  <2>1. PICK x \in used : n = MaxId - x
    BY <1>3
  <2>2. ASSUME NEW y \in used PROVE x >= y
    <3>1. n <= MaxId - y
      BY <1>3
    <3>2. x \in Nat /\ y \in Nat
      BY <1>1
    <3> QED
      BY <1>1, <2>1, <3>1, <3>2
  <2> QED
    BY <2>2
<1>5. Max(used) \in used /\ \A y \in used : Max(used) >= y
  BY <1>4 DEF Max
<1> QED
  BY <1>1, <1>5

LEMMA EntryTypes ==
  ASSUME CacheTypeOK, CacheInv, NEW h \in Handlers, NEW ok \in BOOLEAN,
         Reserve(h, ok) \/ Finalize(h, ok)
  PROVE  CacheTypeOK'
<1>1. CASE Reserve(h, ok)
  <2>1. /\ handler[h] \in Request /\ handler[h] # Idle /\ handler[h].by \in Runners
        /\ Answer(h) /\ UNCHANGED leases
    BY <1>1, ReserveFacts
  <2>2. handler' \in [Handlers -> Request \cup {Idle}]
    BY <2>1, HandlerTypes
  <2>3. CASE UNCHANGED <<memory, disk, client>>
    BY <2>1, <2>2, <2>3 DEF memory, disk, leases, CacheTypeOK, LeasesTypeOK
  <2>4. CASE Makes(h, ok)
    <3>1. client' \in [Runners -> [at : Progress, id : Ids \cup {0}]]
      BY <2>1, <2>4, TellsTypes DEF Makes, Progress, CacheTypeOK
    <3>2. blobs' \in [Ids -> Blob \cup {NoBlob}] /\ blocks' \in [Ids -> Parts]
      BY <2>4, WithoutTypes DEF Makes
    <3>3. index' \in [Ids -> Entry \cup {NoEntry}] /\ entries' \in [Ids -> Entry \cup {NoEntry}]
      BY <2>4, IndexedTypes DEF Makes, Save, CacheTypeOK
    <3>4. nextID' \in 1..MaxId + 1
      BY <2>4, IdsFacts DEF Makes, Ids
    <3> QED
      BY <2>1, <2>2, <2>4, <3>1, <3>2, <3>3, <3>4 DEF Makes, leases, CacheTypeOK, LeasesTypeOK
  <2> QED
    BY <1>1, <2>3, <2>4, ReserveFacts
<1>2. CASE Finalize(h, ok)
  <2>1. /\ Locked(h, "finalize") /\ Answer(h) /\ UNCHANGED <<leases, nextID>>
    BY <1>2, FinalizeFacts DEF CacheInv, SaveInv
  <2>2. handler[h] \in Request /\ handler[h] # Idle /\ handler[h].id \in Ids /\ handler[h].by \in Runners
    BY <2>1, LockedFacts, NothingAssumption DEF Ops, CacheInv, SaveInv
  <2>3. handler' \in [Handlers -> Request \cup {Idle}]
    BY <2>1, <2>2, HandlerTypes
  <2>4. CASE UNCHANGED <<entries, blobs, blocks, staged, stale, index, client>>
    BY <2>1, <2>3, <2>4 DEF leases, CacheTypeOK, LeasesTypeOK
  <2>5. ASSUME NEW gone, Finishes(h, gone, ok) PROVE CacheTypeOK'
    <3>1. client' \in [Runners -> [at : Progress, id : Ids \cup {0}]]
      BY <2>2, <2>5, TellsTypes DEF Finishes, Progress, CacheTypeOK
    <3>2. blobs' \in [Ids -> Blob \cup {NoBlob}] /\ blocks' \in [Ids -> Parts]
      BY <2>5, WithoutTypes DEF Finishes
    <3>3. index' \in [Ids -> Entry \cup {NoEntry}] /\ entries' \in [Ids -> Entry \cup {NoEntry}]
      BY <2>5, IndexedTypes DEF Finishes, Save, CacheTypeOK
    <3> QED
      BY <2>1, <2>3, <2>5, <3>1, <3>2, <3>3 DEF Finishes, leases, CacheTypeOK, LeasesTypeOK
  <2> QED
    BY <1>2, <2>4, <2>5, FinalizeFacts DEF CacheInv, SaveInv
<1> QED
  BY <1>1, <1>2

LEMMA ServerTypes ==
  ASSUME CacheTypeOK,
         \/ \E key \in Keys : GetURL(key)
         \/ \E id \in Ids : GrowsOld(id)
         \/ \E ok \in BOOLEAN : Gc(ok)
         \/ Crash \/ Restart
  PROVE  CacheTypeOK'
<1> USE DEF memory, disk, leases
<1>1. ASSUME NEW key \in Keys, GetURL(key) PROVE CacheTypeOK'
  BY <1>1, IndexedTypes DEF GetURL, CacheTypeOK, LeasesTypeOK
<1>2. ASSUME NEW id \in Ids, GrowsOld(id) PROVE CacheTypeOK'
  BY <1>2 DEF GrowsOld, CacheTypeOK, LeasesTypeOK
<1>3. ASSUME NEW ok \in BOOLEAN, Gc(ok) PROVE CacheTypeOK'
  <2>1. entries' \in [Ids -> Entry \cup {NoEntry}]
    BY <1>3, GcFacts
  <2>2. index' \in [Ids -> Entry \cup {NoEntry}]
    BY <1>3, <2>1, IndexedTypes DEF Gc, Save, CacheTypeOK
  <2>3. blobs' \in [Ids -> Blob \cup {NoBlob}] /\ blocks' \in [Ids -> Parts]
    BY <1>3, WithoutTypes DEF Gc
  <2> QED
    BY <1>3, <2>1, <2>2, <2>3 DEF Gc, CacheTypeOK, LeasesTypeOK
<1>4. CASE Crash
  BY <1>4 DEF Crash, CacheTypeOK, LeasesTypeOK
<1>5. CASE Restart
  <2>1. nextID' \in 1..MaxId + 1
    BY <1>5, LoadFacts, IdsFacts DEF Restart
  <2> QED
    BY <1>5, <2>1 DEF Restart, CacheTypeOK, LeasesTypeOK
<1> QED
  BY <1>1, <1>2, <1>3, <1>4, <1>5

LEMMA NextTypes == CacheInv /\ [Next]_vars => CacheTypeOK'
<1> SUFFICES ASSUME CacheInv, [Next]_vars PROVE CacheTypeOK'
  OBVIOUS
<1>1. CASE UNCHANGED vars
  BY <1>1 DEF vars, server, memory, disk, leases, CacheInv, CacheTypeOK, LeasesTypeOK
<1>2. ASSUME NEW h \in Handlers, HandlerSteps(h) PROVE CacheTypeOK'
  BY <1>2, RefuseTypes, OpenTypes, WriteTypes, EntryTypes DEF HandlerSteps, CacheInv, SaveInv
<1>3. ASSUME NEW h \in Handlers, NEW r \in Runners, NEW a \in Addrs, NEW op \in Ops, NEW key \in Keys,
             Send(h, r, a, op, key)
      PROVE  CacheTypeOK'
  BY <1>3, SendTypes DEF CacheInv
<1> QED
  BY <1>1, <1>2, <1>3, MachinesTypes, ServerTypes DEF Next, CacheInv

-----------------------------------------------------------------------------
(* The entries and the index.                                              *)

\* An entry is its guest's and its key's for good, and goes one way.
Follows(id) ==
    \/ entries[id] = NoEntry /\ entries'[id] = NoEntry
    \/ /\ entries[id] # NoEntry /\ entries'[id] # NoEntry
       /\ entries'[id].by = entries[id].by /\ entries'[id].key = entries[id].key
       /\ \/ entries'[id].state = entries[id].state
          \/ entries[id].state = "reserved" /\ entries'[id].state \in {"complete", "reclaimed"}
          \/ entries[id].state = "complete" /\ entries'[id].state = "evicted"

LEMMA FollowStore ==
  ASSUME StoreInv, CacheTypeOK, CacheTypeOK', \A id \in Ids : Follows(id), UNCHANGED nextID,
         index' = index \/ index' = Indexed(entries')
  PROVE  StoreInv'
<1>1. \A id \in Ids : id \in Live' => id \in Live
  BY DEF Follows, Live, Reserved, Complete, Is
<1>2. \A id \in Live' : entries'[id].key = entries[id].key /\ id \in Ids /\ entries'[id] # NoEntry
  BY DEF Follows, Live, Reserved, Complete, Is
<1>3. \A id, other \in Live' : entries'[id].key = entries'[other].key => id = other
  BY <1>1, <1>2 DEF StoreInv, OneLive
<1>4. CASE index' = index
  <2>1. IndexAgrees'
    <3> SUFFICES ASSUME NEW id \in Ids, index[id] # NoEntry
                 PROVE  /\ entries'[id] # NoEntry
                        /\ index[id].by = entries'[id].by /\ index[id].key = entries'[id].key
                        /\ index[id].state = "complete" => entries'[id].state \in {"complete", "evicted"}
      BY <1>4 DEF IndexAgrees
    <3>1. /\ entries[id] # NoEntry
          /\ index[id].by = entries[id].by /\ index[id].key = entries[id].key
          /\ index[id].state = "complete" => entries[id].state \in {"complete", "evicted"}
      BY DEF StoreInv, IndexAgrees
    <3>2. Follows(id)
      OBVIOUS
    <3> QED
      BY <3>1, <3>2 DEF Follows
  <2>2. Numbered'
    BY <1>4 DEF Numbered, Follows, StoreInv
  <2> QED
    BY <1>3, <1>4, <2>1, <2>2 DEF StoreInv, OneLive
<1>5. CASE index' = Indexed(entries')
  <2>1. \A id \in Ids : index'[id] # NoEntry => id \in Live' /\ index'[id] = entries'[id]
    BY <1>5 DEF Indexed, Live, Reserved, Complete, Is
  <2>2. \A id \in Ids : index'[id] # NoEntry => index'[id].state \in {"reserved", "complete"}
    BY <1>5 DEF Indexed
  <2>3. Numbered'
    BY <2>1 DEF Numbered, Follows, StoreInv
  <2> QED
    BY <1>3, <2>1, <2>2, <2>3 DEF StoreInv, OneLive, IndexAgrees
<1> QED
  BY <1>4, <1>5

\* A create takes a fresh id, and its key from the stale reservation that had it.
LEMMA MakeStore ==
  ASSUME CacheInv, CacheTypeOK', NEW h \in Handlers, NEW ok \in BOOLEAN, Makes(h, ok),
         handler[h] \in Request
  PROVE  StoreInv'
<1> DEFINE q == handler[h]
           old == Replaced(q.key)
           n == nextID
<1>1. /\ n \in Ids /\ nextID' = n + 1 /\ old \subseteq Reserved
      /\ entries'[n] = [by |-> q.by, key |-> q.key, state |-> IF ok THEN "reserved" ELSE "reclaimed"]
      /\ \A id \in Ids \ {n} : IF id \in old THEN Reclaims(id) ELSE entries'[id] = entries[id]
      /\ index' = IF ok THEN Indexed(entries') ELSE index
  BY DEF Makes, Save
<1>2. entries[n] = NoEntry /\ index[n] = NoEntry /\ \A id \in Ids : entries[id] # NoEntry \/ index[id] # NoEntry => id < n
  BY <1>1, IdsFacts DEF CacheInv, StoreInv, Numbered
<1>3. n \in Nat /\ Ids \subseteq Nat
  BY <1>1, IdsFacts
<1>4. entries'[n] # NoEntry
  BY <1>1, NothingAssumption DEF Entry, Request, States
<1>5. \A id \in Ids \ {n} : Follows(id) /\ (id \in Live' <=> id \in Live \ old)
  <2> SUFFICES ASSUME NEW id \in Ids \ {n} PROVE Follows(id) /\ (id \in Live' <=> id \in Live \ old)
    OBVIOUS
  <2>1. CASE id \in old
    <3>1. entries[id] \in Entry /\ entries[id].state = "reserved" /\ Reclaims(id)
      BY <1>1, <2>1 DEF Reserved, Is, CacheInv, CacheTypeOK
    <3>2. entries'[id] = [entries[id] EXCEPT !.state = "reclaimed"] /\ entries'[id] \in Entry
      BY <3>1 DEF Reclaims, Entry, States
    <3>3. entries'[id] # NoEntry /\ entries[id] # NoEntry
      BY <3>1, <3>2, NothingAssumption
    <3>4. /\ entries'[id].by = entries[id].by /\ entries'[id].key = entries[id].key
          /\ entries'[id].state = "reclaimed"
      BY <3>1, <3>2 DEF Entry
    <3> QED
      BY <2>1, <3>1, <3>3, <3>4 DEF Follows, Live, Reserved, Complete, Is
  <2>2. CASE id \notin old
    BY <1>1, <2>2 DEF Follows, Live, Reserved, Complete, Is
  <2> QED
    BY <2>1, <2>2
<1>6. \A id \in Live' : id # n => id \in Live /\ entries'[id].key = entries[id].key /\ entries[id].key # q.key
  <2> SUFFICES ASSUME NEW id \in Live', id # n
               PROVE  id \in Live /\ entries'[id].key = entries[id].key /\ entries[id].key # q.key
    OBVIOUS
  <2>1. id \in Ids
    BY DEF Live, Reserved, Complete
  <2>2. id \in Live \ old
    BY <1>5, <2>1
  <2>3. entries'[id] = entries[id]
    BY <1>1, <2>1, <2>2
  <2> QED
    BY <2>2, <2>3 DEF Replaced, LiveOf
<1>7. \A id, other \in Live' : entries'[id].key = entries'[other].key => id = other
  <2>1. entries'[n].key = q.key
    BY <1>1
  <2> QED
    BY <1>6, <2>1 DEF CacheInv, StoreInv, OneLive
<1>8. CASE ok
  <2>1. index' = Indexed(entries')
    BY <1>1, <1>8
  <2>2. \A id \in Ids : index'[id] # NoEntry => id \in Live' /\ index'[id] = entries'[id]
    BY <2>1 DEF Indexed, Live, Reserved, Complete, Is
  <2>3. \A id \in Ids : index'[id] # NoEntry => index'[id].state \in {"reserved", "complete"}
    BY <2>1 DEF Indexed
  <2>4. Numbered'
    BY <1>1, <1>2, <1>3, <1>5, <2>2 DEF Numbered, Follows
  <2> QED
    BY <1>7, <2>2, <2>3, <2>4 DEF StoreInv, OneLive, IndexAgrees
<1>9. CASE ~ok
  <2>1. index' = index
    BY <1>1, <1>9
  <2>2. IndexAgrees'
    <3> SUFFICES ASSUME NEW id \in Ids, index[id] # NoEntry
                 PROVE  /\ entries'[id] # NoEntry
                        /\ index[id].by = entries'[id].by /\ index[id].key = entries'[id].key
                        /\ index[id].state = "complete" => entries'[id].state \in {"complete", "evicted"}
      BY <2>1 DEF IndexAgrees
    <3>1. /\ entries[id] # NoEntry
          /\ index[id].by = entries[id].by /\ index[id].key = entries[id].key
          /\ index[id].state = "complete" => entries[id].state \in {"complete", "evicted"}
      BY DEF CacheInv, StoreInv, IndexAgrees
    <3>2. Follows(id)
      BY <1>2, <1>5
    <3> QED
      BY <3>1, <3>2 DEF Follows
  <2>3. Numbered'
    BY <1>1, <1>2, <1>3, <1>5, <2>1 DEF Numbered, Follows
  <2> QED
    BY <1>7, <2>1, <2>2, <2>3 DEF CacheInv, StoreInv, OneLive
<1> QED
  BY <1>8, <1>9

LEMMA LoadStore == CacheInv /\ CacheTypeOK' /\ Restart => StoreInv'
<1> SUFFICES ASSUME CacheInv, CacheTypeOK', Restart PROVE StoreInv'
  OBVIOUS
<1>1. entries' = index /\ index' = index
  BY DEF Restart, disk
<1>2. \A id \in Ids : index[id] # NoEntry => id < nextID'
  BY LoadFacts, IdsFacts DEF Restart, CacheInv
<1>3. \A id \in Live' : id \in Ids /\ index[id] # NoEntry
  BY <1>1 DEF Live, Reserved, Complete, Is
<1> QED
  BY <1>1, <1>2, <1>3 DEF CacheInv, StoreInv, OneLive, Numbered, IndexAgrees

-----------------------------------------------------------------------------
(* Saves: blobs, guests and requests.                                      *)

\* Steps that end requests, or none.
Shrinks == \A g \in Handlers : handler'[g] # Idle => handler'[g] = handler[g]

\* A blob goes, or its reserver writes it while the entry is open.
BlobStep(id) ==
    \/ blobs'[id] = blobs[id] \/ blobs'[id] = NoBlob
    \/ /\ entries[id] # NoEntry /\ entries[id].state \notin {"complete", "evicted"}
       /\ blobs'[id].by = entries[id].by

\* An entry is complete when nobody writes to it and its blob is there.
CompletesWhole(id) ==
    Is(id, "reserved") /\ entries'[id].state = "complete" =>
       /\ blobs'[id] = [by |-> entries[id].by, whole |-> TRUE]
       /\ \A g \in Handlers : ~Holds(g, id)

\* A guest hears the answer to a request, and gets on.
ClientStep ==
    \/ UNCHANGED client
    \/ \E h \in Handlers, at \in {"staged", "uploaded", "saved"} :
         /\ handler[h] # Idle /\ handler[h].op # "create" /\ handler'[h] = Idle
         /\ Tells(handler[h].by, at, handler[h].id)
         /\ at = "uploaded" =>
              blobs'[handler[h].id] = NoBlob \/ blobs'[handler[h].id].by = handler[h].by
         /\ at = "saved" =>
              \A id \in Ids :
                 /\ entries'[id] # NoEntry /\ entries'[id].by = handler[h].by
                      => entries'[id].state # "reserved"
                 /\ index'[id] # NoEntry /\ index'[id].by = handler[h].by
                      => index'[id].state # "reserved"

\* A guest stays at its entry while its requests are served.
LEMMA SameId ==
  ASSUME CacheInv, ClientStep, NEW r \in Runners
  PROVE  /\ client'[r].id = client[r].id
         /\ client'[r] = client[r] \/ \E h \in Handlers :
              /\ Serves(h, r) /\ handler[h].op # "create" /\ handler'[h] = Idle
              /\ client[r].id \in Ids
              /\ client'[r].at \in {"staged", "uploaded", "saved"}
              /\ client'[r].at = "uploaded" =>
                   blobs'[client[r].id] = NoBlob \/ blobs'[client[r].id].by = r
              /\ client'[r].at = "saved" =>
                   \A id \in Ids :
                      /\ entries'[id] # NoEntry /\ entries'[id].by = r => entries'[id].state # "reserved"
                      /\ index'[id] # NoEntry /\ index'[id].by = r => index'[id].state # "reserved"
<1>1. CASE UNCHANGED client
  BY <1>1
<1>2. ASSUME NEW h \in Handlers, NEW at \in {"staged", "uploaded", "saved"},
             handler[h] # Idle, handler[h].op # "create", handler'[h] = Idle,
             client' = [client EXCEPT ![handler[h].by] = [at |-> at, id |-> handler[h].id]]
      PROVE  /\ handler[h].by \in Runners /\ handler[h].id \in Ids
             /\ handler[h].id = client[handler[h].by].id
             /\ client'[handler[h].by] = [at |-> at, id |-> handler[h].id]
             /\ handler[h].by # r => client'[r] = client[r]
  <2>1. handler[h] \in Request
    BY <1>2, RequestTypes DEF CacheInv
  <2>2. handler[h].by \in Runners
    BY <2>1 DEF Request
  <2>3. handler[h].id \in Ids /\ handler[h].id = client[handler[h].by].id
    BY <1>2 DEF CacheInv, SaveInv, Requests
  <2> QED
    BY <1>2, <2>2, <2>3 DEF CacheInv, CacheTypeOK
<1>3. CASE ~UNCHANGED client
  <2>1. PICK h \in Handlers, at \in {"staged", "uploaded", "saved"} :
         /\ handler[h] # Idle /\ handler[h].op # "create" /\ handler'[h] = Idle
         /\ client' = [client EXCEPT ![handler[h].by] = [at |-> at, id |-> handler[h].id]]
         /\ at = "uploaded" =>
              blobs'[handler[h].id] = NoBlob \/ blobs'[handler[h].id].by = handler[h].by
         /\ at = "saved" =>
              \A id \in Ids :
                 /\ entries'[id] # NoEntry /\ entries'[id].by = handler[h].by
                      => entries'[id].state # "reserved"
                 /\ index'[id] # NoEntry /\ index'[id].by = handler[h].by
                      => index'[id].state # "reserved"
    BY <1>3 DEF ClientStep, Tells
  <2>2. CASE handler[h].by # r
    BY <1>2, <2>1, <2>2
  <2>3. CASE handler[h].by = r
    <3>1. /\ handler[h].id = client[r].id /\ client[r].id \in Ids
          /\ client'[r].at = at /\ client'[r].id = client[r].id
      <4>1. /\ handler[h].id \in Ids /\ handler[h].id = client[handler[h].by].id
            /\ client'[handler[h].by] = [at |-> at, id |-> handler[h].id]
        BY <1>2, <2>1
      <4> QED
        BY <2>3, <4>1
    <3>2. Serves(h, r)
      BY <2>1, <2>3 DEF Serves
    <3> QED
      BY <2>1, <2>3, <3>1, <3>2
  <2> QED
    BY <2>2, <2>3
<1> QED
  BY <1>1, <1>3

LEMMA OnwardSave ==
  ASSUME CacheInv, CacheTypeOK', Shrinks, ClientStep,
         up' \/ \A h \in Handlers : handler'[h] = Idle,
         \A id \in Ids : Follows(id) /\ BlobStep(id) /\ CompletesWhole(id),
         index' = index \/ index' = Indexed(entries')
  PROVE  SaveInv'
<1> USE DEF CacheInv, SaveInv
<1>1. Whole'
  <2> SUFFICES ASSUME NEW id \in Ids, entries'[id] # NoEntry, entries'[id].state \in {"complete", "evicted"}
               PROVE  blobs'[id] \in {NoBlob, [by |-> entries'[id].by, whole |-> TRUE]}
    BY DEF Whole, OwnBlob, Is
  <2>1. entries[id] # NoEntry /\ entries'[id].by = entries[id].by
    BY DEF Follows
  <2>2. CASE entries[id].state \in {"complete", "evicted"}
    BY <2>1, <2>2 DEF Whole, OwnBlob, Is, BlobStep
  <2>3. CASE entries[id].state \notin {"complete", "evicted"}
    <3>1. entries[id].state = "reserved" /\ entries'[id].state = "complete"
      BY <2>1, <2>3 DEF Follows
    <3> QED
      BY <2>1, <3>1 DEF CompletesWhole, Is
  <2> QED
    BY <2>2, <2>3
<1>2. Reservers'
  <2> SUFFICES ASSUME NEW id \in Ids, NEW r \in Runners,
                      \/ entries'[id] # NoEntry /\ entries'[id].state = "reserved" /\ entries'[id].by = r
                      \/ index'[id] # NoEntry /\ index'[id].state = "reserved" /\ index'[id].by = r
               PROVE  client'[r].id = id /\ client'[r].at \in {"reserved", "staged", "uploaded"}
    BY DEF Reservers, Is
  <2>1. \/ entries[id] # NoEntry /\ entries[id].state = "reserved" /\ entries[id].by = r
        \/ index[id] # NoEntry /\ index[id].state = "reserved" /\ index[id].by = r
    <3>1. CASE entries'[id] # NoEntry /\ entries'[id].state = "reserved" /\ entries'[id].by = r
      BY <3>1 DEF Follows
    <3>2. CASE index' = index
      BY <3>1, <3>2
    <3>3. CASE index' = Indexed(entries')
      BY <3>1, <3>3 DEF Indexed
    <3> QED
      BY <3>2, <3>3
  <2>2. client[r].id = id /\ client[r].at \in {"reserved", "staged", "uploaded"}
    BY <2>1 DEF Reservers, Is
  <2> QED
    BY <2>2, SameId
<1>3. Uploaded'
  <2> SUFFICES ASSUME NEW r \in Runners,
                      \/ client'[r].at = "uploaded"
                      \/ \E h \in Handlers : handler'[h] # Idle /\ handler'[h].by = r /\ handler'[h].op = "finalize",
                      client[r].id \in Ids, entries'[client[r].id] # NoEntry,
                      entries'[client[r].id].by = r
               PROVE  blobs'[client[r].id] = NoBlob \/ blobs'[client[r].id].by = r
    BY SameId DEF Uploaded, Serves, BlobBy
  <2>1. entries[client[r].id] # NoEntry /\ entries[client[r].id].by = r
    BY DEF Follows
  <2>2. CASE client'[r].at = "uploaded" /\ client'[r] # client[r]
    BY <2>2, SameId
  <2>3. CASE ~(client'[r].at = "uploaded" /\ client'[r] # client[r])
    <3>1. \/ client[r].at = "uploaded"
          \/ \E h \in Handlers : Serves(h, r) /\ handler[h].op = "finalize"
      BY <2>3 DEF Shrinks, Serves
    <3>2. blobs[client[r].id] = NoBlob \/ blobs[client[r].id].by = r
      BY <2>1, <3>1 DEF Uploaded, BlobBy
    <3> QED
      BY <2>1, <3>2 DEF BlobStep
  <2> QED
    BY <2>2, <2>3
<1>4. Requests'
  <2>1. ASSUME NEW r \in Runners, client'[r].at # "new" PROVE client'[r].id \in Ids
    BY <2>1, SameId DEF Requests
  <2>2. ASSUME NEW h \in Handlers, handler'[h] # Idle
        PROVE  /\ handler'[h].id = client'[handler'[h].by].id
               /\ handler'[h].op = "create" =>
                    /\ handler'[h].at = "auth"
                    /\ client'[handler'[h].by].at \in {"new", "saved"}
                    /\ \A g \in Handlers : handler'[g] # Idle /\ handler'[g].by = handler'[h].by => g = h
               /\ handler'[h].op # "create" => handler'[h].id \in Ids
               /\ handler'[h].at = "io" =>
                    entries'[handler'[h].id] # NoEntry /\ entries'[handler'[h].id].by = handler'[h].by
    <3>1. handler'[h] = handler[h] /\ handler[h] # Idle
      BY <2>2 DEF Shrinks
    <3>2. handler[h].by \in Runners
      BY <3>1, RequestTypes DEF Request
    <3>3. handler'[h].id = client'[handler'[h].by].id
      BY <3>1, <3>2, SameId DEF Requests
    <3>4. ASSUME handler'[h].op = "create"
          PROVE  /\ handler'[h].at = "auth"
                 /\ client'[handler'[h].by].at \in {"new", "saved"}
                 /\ \A g \in Handlers : handler'[g] # Idle /\ handler'[g].by = handler'[h].by => g = h
      <4>1. /\ handler[h].at = "auth" /\ client[handler[h].by].at \in {"new", "saved"}
            /\ \A g \in Handlers : Serves(g, handler[h].by) => g = h
        BY <3>1, <3>4 DEF Requests
      <4>2. client'[handler[h].by] = client[handler[h].by]
        BY <2>2, <3>2, <4>1, SameId
      <4> QED
        BY <3>1, <4>1, <4>2 DEF Shrinks, Serves
    <3>5. /\ handler[h].op # "create" => handler[h].id \in Ids
          /\ handler[h].at = "io" =>
               entries[handler[h].id] # NoEntry /\ entries[handler[h].id].by = handler[h].by
      BY <3>1 DEF Requests
    <3>6. handler[h].at = "io" => handler[h].id \in Ids
      BY <3>1 DEF Requests
    <3> QED
      BY <3>1, <3>3, <3>4, <3>5, <3>6 DEF Follows
  <2> QED
    BY <2>1, <2>2 DEF Requests, Serves
<1>5. Writers'
  <2> SUFFICES ASSUME NEW h \in Handlers, handler'[h] # Idle, handler'[h].at = "write"
               PROVE  /\ handler'[h].op \in Uploads
                      /\ entries'[handler'[h].id] # NoEntry
                      /\ entries'[handler'[h].id].by = handler'[h].by
                      /\ entries'[handler'[h].id].state \in {"reserved", "reclaimed"}
                      /\ \/ handler'[h].op # "upload"
                         \/ blobs'[handler'[h].id] = NoBlob
                         \/ blobs'[handler'[h].id].by = handler'[h].by
                      /\ \A g \in Handlers :
                           handler'[g] # Idle /\ handler'[g].id = handler'[h].id /\ handler'[g].at = "write"
                           => g = h
    BY DEF Writers, BlobBy, Holds
  <2> DEFINE q == handler[h]
  <2>1. handler'[h] = q /\ q # Idle /\ q.at = "write"
    BY DEF Shrinks
  <2>2. /\ q.op \in Uploads /\ entries[q.id] # NoEntry /\ entries[q.id].by = q.by
        /\ entries[q.id].state \in {"reserved", "reclaimed"}
        /\ q.op # "upload" \/ blobs[q.id] = NoBlob \/ blobs[q.id].by = q.by
        /\ \A g \in Handlers : Holds(g, q.id) => g = h
    BY <2>1 DEF Writers, BlobBy
  <2>3. q.id \in Ids
    BY <2>1, <2>2 DEF Requests, Uploads
  <2>4. Holds(h, q.id)
    BY <2>1 DEF Holds
  <2>5. Follows(q.id) /\ BlobStep(q.id) /\ CompletesWhole(q.id)
    BY <2>3
  <2>6. /\ entries'[q.id] # NoEntry /\ entries'[q.id].by = q.by
        /\ entries'[q.id].state \in {"reserved", "reclaimed"}
    BY <2>2, <2>4, <2>5 DEF Follows, CompletesWhole, Is
  <2>7. q.op # "upload" \/ blobs'[q.id] = NoBlob \/ blobs'[q.id].by = q.by
    BY <2>2, <2>5 DEF BlobStep
  <2>8. \A g \in Handlers :
           handler'[g] # Idle /\ handler'[g].id = q.id /\ handler'[g].at = "write" => g = h
    BY <2>2 DEF Shrinks, Holds
  <2> QED
    BY <2>1, <2>2, <2>6, <2>7, <2>8
<1> QED
  BY <1>1, <1>2, <1>3, <1>4, <1>5

\* A request is answered.
LEMMA AnswerShrinks ==
  ASSUME CacheTypeOK, NEW h \in Handlers, Answer(h)
  PROVE  Shrinks /\ handler'[h] = Idle
BY DEF Answer, Shrinks, CacheTypeOK

\* Steps of the guests' machines, the janitor and the process, and requests that
\* are refused or only found.
LEMMA QuietSave ==
  ASSUME CacheInv, CacheTypeOK', up' \/ \A h \in Handlers : handler'[h] = Idle, Shrinks,
         UNCHANGED <<entries, blobs, client>>, index' = index \/ index' = Indexed(entries')
  PROVE  SaveInv'
<1>1. \A id \in Ids : Follows(id) /\ BlobStep(id) /\ CompletesWhole(id)
  BY DEF Follows, BlobStep, CompletesWhole, Is
<1> QED
  BY <1>1, OnwardSave DEF ClientStep

LEMMA GcSave == ASSUME CacheInv, CacheTypeOK', up, NEW ok \in BOOLEAN, Gc(ok) PROVE SaveInv' /\ StoreInv'
<1>1. /\ UNCHANGED <<nextID, handler, client, up>> /\ blobs' = Without(blobs, Abandoned, NoBlob)
      /\ index' = index \/ index' = Indexed(entries')
  BY DEF Gc, Save
<1>2. ASSUME NEW id \in Ids PROVE Follows(id) /\ BlobStep(id) /\ CompletesWhole(id)
  <2>1. BlobStep(id)
    BY <1>1 DEF BlobStep, Without
  <2>2. CASE id \in Abandoned
    <3>1. entries[id] \in Entry /\ entries[id] # NoEntry /\ entries[id].state = "reserved"
      BY <2>2 DEF Abandoned, Reserved, Is, CacheInv, CacheTypeOK
    <3>2. entries'[id] = [entries[id] EXCEPT !.state = "reclaimed"] /\ entries'[id] \in Entry
      BY <2>2, <3>1, GcFacts DEF CacheInv, Reclaims, Entry, States
    <3>3. /\ entries'[id].by = entries[id].by /\ entries'[id].key = entries[id].key
          /\ entries'[id].state = "reclaimed" /\ entries'[id] # NoEntry
      BY <3>1, <3>2, NothingAssumption DEF Entry
    <3> QED
      BY <2>1, <3>1, <3>3 DEF Follows, CompletesWhole
  <2>3. CASE id \notin Abandoned
    BY <2>1, <2>3, GcFacts DEF CacheInv, Follows, CompletesWhole, Is
  <2> QED
    BY <2>2, <2>3
<1>3. Shrinks /\ ClientStep
  BY <1>1 DEF Shrinks, ClientStep
<1> QED
  BY <1>1, <1>2, <1>3, OnwardSave, FollowStore DEF CacheInv

\* The body of an upload, a block or a block list has come, or has not.
LEMMA WriteSave ==
  ASSUME CacheInv, CacheTypeOK', up, NEW h \in Handlers, NEW ok \in BOOLEAN,
         WriteBlob(h, ok) \/ PutBlock(h, ok) \/ CommitBlocks(h, ok)
  PROVE  SaveInv'
<1> DEFINE q == handler[h]
<1>1. /\ q # Idle /\ q.at = "write" /\ Answer(h) /\ UNCHANGED <<entries, index, up>>
  BY DEF WriteBlob, PutBlock, CommitBlocks, Writing
<1>2. /\ q.op \in Uploads /\ entries[q.id] # NoEntry /\ entries[q.id].by = q.by
      /\ entries[q.id].state \in {"reserved", "reclaimed"}
      /\ q.op # "upload" \/ blobs[q.id] = NoBlob \/ blobs[q.id].by = q.by
  BY <1>1 DEF CacheInv, SaveInv, Writers, BlobBy
<1>3. q.op # "create" /\ q.id \in Ids
  BY <1>1, <1>2 DEF CacheInv, SaveInv, Requests, Uploads
<1>4. Shrinks /\ handler'[h] = Idle
  BY <1>1, AnswerShrinks DEF CacheInv
<1>5. /\ blobs'[q.id] \in {NoBlob, blobs[q.id]} \/ blobs'[q.id].by = q.by
      /\ \A id \in Ids \ {q.id} : blobs'[id] = blobs[id]
      /\ \/ UNCHANGED client \/ Tells(q.by, "staged", q.id)
         \/ /\ Tells(q.by, "uploaded", q.id)
            /\ blobs'[q.id] = NoBlob \/ blobs'[q.id].by = q.by
  <2>1. CASE WriteBlob(h, ok)
    <3>1. blobs[q.id] # NoBlob =>
            blobs[q.id] \in Blob /\ [blobs[q.id] EXCEPT !.whole = TRUE].by = blobs[q.id].by
      BY <1>3 DEF CacheInv, CacheTypeOK, Blob
    <3>2. \/ blobs' = [blobs EXCEPT ![q.id] = NoBlob] /\ UNCHANGED client
          \/ /\ blobs' = [blobs EXCEPT ![q.id] =
                             IF @ = NoBlob THEN @ ELSE [@ EXCEPT !.whole = TRUE]]
             /\ Tells(q.by, "uploaded", q.id)
      BY <2>1 DEF WriteBlob
    <3>3. blobs[q.id] = NoBlob \/ blobs[q.id].by = q.by
      BY <1>2, <2>1 DEF WriteBlob, Writing
    <3> QED
      BY <1>3, <3>1, <3>2, <3>3 DEF CacheInv, CacheTypeOK
  <2>2. CASE PutBlock(h, ok)
    BY <2>2 DEF PutBlock
  <2>3. CASE CommitBlocks(h, ok)
    <3> DEFINE blob == [by |-> q.by, whole |-> blocks[q.id] = "whole"]
    <3>1. \/ UNCHANGED <<blobs, client>>
          \/ blobs' = [blobs EXCEPT ![q.id] = blob] /\ Tells(q.by, "uploaded", q.id)
      BY <2>3 DEF CommitBlocks
    <3>2. blob.by = q.by /\ DOMAIN blobs = Ids
      BY DEF CacheInv, CacheTypeOK
    <3> HIDE DEF blob
    <3> QED
      BY <1>3, <3>1, <3>2
  <2> QED
    BY <2>1, <2>2, <2>3
<1>6. ClientStep
  BY <1>1, <1>3, <1>4, <1>5 DEF ClientStep
<1>7. \A id \in Ids : Follows(id) /\ BlobStep(id) /\ CompletesWhole(id)
  BY <1>1, <1>2, <1>5 DEF Follows, BlobStep, CompletesWhole, Is
<1> QED
  BY <1>1, <1>4, <1>6, <1>7, OnwardSave

LEMMA FinishSave ==
  ASSUME CacheInv, CacheTypeOK', up, NEW h \in Handlers, NEW ok \in BOOLEAN, Finalize(h, ok)
  PROVE  SaveInv' /\ StoreInv'
<1> DEFINE q == handler[h]
<1>1. Locked(h, "finalize") /\ Answer(h) /\ UNCHANGED <<nextID, up>>
  BY FinalizeFacts DEF CacheInv, SaveInv
<1>2. /\ q # Idle /\ q.op = "finalize" /\ q.id \in Ids /\ q.by \in Runners
      /\ entries[q.id] \in Entry /\ entries[q.id] # NoEntry /\ entries[q.id].by = q.by
      /\ \A g \in Handlers : ~Holds(g, q.id)
  BY <1>1, LockedFacts, NothingAssumption DEF CacheInv, SaveInv, Ops
<1>3. Shrinks /\ handler'[h] = Idle
  BY <1>1, AnswerShrinks DEF CacheInv
<1>4. CASE UNCHANGED <<entries, blobs, blocks, staged, stale, index, client>>
  <2>1. SaveInv'
    BY <1>1, <1>3, <1>4, QuietSave
  <2>2. \A id \in Ids : Follows(id)
    BY <1>4 DEF Follows
  <2> QED
    BY <1>1, <1>4, <2>1, <2>2, FollowStore DEF CacheInv
<1>5. ASSUME NEW gone, Finishes(h, gone, ok) PROVE SaveInv' /\ StoreInv'
  <2>1. /\ q.id \in Reserved /\ SizeOK(q.id) /\ gone \subseteq Complete /\ q.id \notin gone
        /\ entries'[q.id] = [entries[q.id] EXCEPT !.state = "complete"]
        /\ \A id \in gone : entries'[id] = [entries[id] EXCEPT !.state = "evicted"]
        /\ \A id \in Ids \ (gone \cup {q.id}) : entries'[id] = entries[id]
        /\ blobs' = Without(blobs, gone, NoBlob)
        /\ index' = IF ok THEN Indexed(entries') ELSE index
        /\ IF ok THEN Tells(q.by, "saved", q.id) ELSE UNCHANGED client
    BY <1>5 DEF Finishes, Save
  <2>2. blobs[q.id] = [by |-> q.by, whole |-> TRUE]
    <3>1. blobs[q.id] \in Blob /\ blobs[q.id] # NoBlob /\ blobs[q.id].whole
      BY <1>2, <2>1 DEF SizeOK, CacheInv, CacheTypeOK
    <3>2. client[q.by].id = q.id
      BY <1>2 DEF CacheInv, SaveInv, Requests
    <3>3. blobs[q.id].by = q.by
      BY <1>2, <3>1, <3>2 DEF CacheInv, SaveInv, Uploaded, BlobBy, Serves
    <3> QED
      BY <3>1, <3>3 DEF Blob
  <2>3. /\ Follows(q.id) /\ BlobStep(q.id) /\ CompletesWhole(q.id)
        /\ entries'[q.id] # NoEntry /\ entries'[q.id].state = "complete"
    <3>1. /\ entries[q.id].state = "reserved" /\ entries'[q.id].state = "complete"
          /\ entries'[q.id].by = entries[q.id].by /\ entries'[q.id].key = entries[q.id].key
      BY <1>2, <2>1 DEF Reserved, Is, Entry
    <3>2. entries'[q.id] \in Entry
      BY <1>2, <2>1 DEF Entry, States
    <3>3. blobs'[q.id] = blobs[q.id]
      BY <1>2, <2>1 DEF Without
    <3> QED
      BY <1>2, <2>2, <3>1, <3>2, <3>3, NothingAssumption DEF Follows, BlobStep, CompletesWhole
  <2>4. ASSUME NEW id \in gone PROVE id \in Ids /\ Follows(id) /\ BlobStep(id) /\ CompletesWhole(id)
    <3>1. id \in Ids /\ entries[id] \in Entry /\ entries[id] # NoEntry /\ entries[id].state = "complete"
      BY <2>1, <2>4 DEF Complete, Is, CacheInv, CacheTypeOK
    <3>2. /\ entries'[id].state = "evicted"
          /\ entries'[id].by = entries[id].by /\ entries'[id].key = entries[id].key
          /\ entries'[id] \in Entry
      <4>1. entries'[id] = [entries[id] EXCEPT !.state = "evicted"]
        BY <2>1, <2>4
      <4> QED
        BY <3>1, <4>1 DEF Entry, States
    <3>3. blobs'[id] = NoBlob
      BY <2>1, <2>4, <3>1 DEF Without
    <3> QED
      BY <3>1, <3>2, <3>3, NothingAssumption DEF Follows, BlobStep, CompletesWhole, Is
  <2>5. ASSUME NEW id \in Ids \ (gone \cup {q.id}) PROVE Follows(id) /\ BlobStep(id) /\ CompletesWhole(id)
    BY <2>1, <2>5 DEF Follows, BlobStep, CompletesWhole, Is, Without
  <2>6. \A id \in Ids : Follows(id) /\ BlobStep(id) /\ CompletesWhole(id)
    BY <2>3, <2>4, <2>5
  <2>7. ClientStep
    <3>1. CASE ~ok
      BY <2>1, <3>1 DEF ClientStep
    <3>2. CASE ok
      <4>1. ASSUME NEW id \in Ids, entries'[id] # NoEntry, entries'[id].by = q.by,
                   entries'[id].state = "reserved"
            PROVE  FALSE
        <5>1. entries[id] # NoEntry /\ entries[id].by = q.by /\ entries[id].state = "reserved"
          BY <2>6, <4>1 DEF Follows
        <5>2. client[q.by].id = id
          BY <1>2, <5>1 DEF CacheInv, SaveInv, Reservers, Is
        <5>3. client[q.by].id = q.id
          BY <1>2 DEF CacheInv, SaveInv, Requests
        <5> QED
          BY <2>3, <4>1, <5>2, <5>3
      <4>2. \A id \in Ids : index'[id] # NoEntry => entries'[id] # NoEntry /\ index'[id] = entries'[id]
        BY <2>1, <3>2 DEF Indexed
      <4> QED
        BY <1>2, <1>3, <2>1, <3>2, <4>1, <4>2 DEF ClientStep
    <3> QED
      BY <3>1, <3>2
  <2>8. index' = index \/ index' = Indexed(entries')
    BY <2>1
  <2> QED
    BY <1>1, <1>3, <2>6, <2>7, <2>8, OnwardSave, FollowStore DEF CacheInv
<1> QED
  BY <1>4, <1>5, FinalizeFacts DEF CacheInv, SaveInv

\* A request gets to the lock, or through it, at the entry its guest is at.
LEMMA AdvanceSave ==
  ASSUME CacheInv, CacheTypeOK', up', NEW h \in Handlers, NEW at \in {"io", "write"},
         handler[h] # Idle, handler' = [handler EXCEPT ![h].at = at],
         handler[h].op # "create", UNCHANGED <<entries, index, client>>,
         entries[handler[h].id] # NoEntry, entries[handler[h].id].by = handler[h].by,
         \/ UNCHANGED blobs /\ (at = "io" \/ handler[h].op # "upload")
         \/ /\ at = "write"
            /\ blobs' = [blobs EXCEPT ![handler[h].id] = [by |-> handler[h].by, whole |-> FALSE]],
         at = "write" =>
            /\ handler[h].op \in Uploads
            /\ entries[handler[h].id].state \in {"reserved", "reclaimed"}
            /\ \A g \in Handlers : ~Holds(g, handler[h].id)
  PROVE  SaveInv'
<1> DEFINE q == handler[h]
<1>1. /\ handler'[h] # Idle /\ handler'[h].op = q.op /\ handler'[h].by = q.by
      /\ handler'[h].id = q.id /\ handler'[h].at = at
      /\ \A g \in Handlers \ {h} : handler'[g] = handler[g]
  <2>1. q \in Request
    BY RequestTypes DEF CacheInv
  <2>2. handler'[h] = [q EXCEPT !.at = at] /\ [q EXCEPT !.at = at] \in Request
    BY <2>1 DEF Request, CacheInv, CacheTypeOK
  <2>3. \A g \in Handlers \ {h} : handler'[g] = handler[g]
    BY DEF CacheInv, CacheTypeOK
  <2> QED
    BY <2>1, <2>2, <2>3, NothingAssumption DEF Request
<1>2. q.id \in Ids /\ q.id = client[q.by].id
  BY DEF CacheInv, SaveInv, Requests
<1>3. /\ \A id \in Ids \ {q.id} : blobs'[id] = blobs[id]
      /\ \/ blobs'[q.id] = blobs[q.id] /\ (at = "io" \/ q.op # "upload")
         \/ at = "write" /\ blobs'[q.id].by = q.by
  <2>1. CASE UNCHANGED blobs /\ (at = "io" \/ q.op # "upload")
    BY <2>1
  <2>2. CASE /\ at = "write"
             /\ blobs' = [blobs EXCEPT ![q.id] = [by |-> q.by, whole |-> FALSE]]
    <3> DEFINE blob == [by |-> q.by, whole |-> FALSE]
    <3>1. blobs' = [blobs EXCEPT ![q.id] = blob] /\ blob.by = q.by
      BY <2>2
    <3>2. DOMAIN blobs = Ids
      BY DEF CacheInv, CacheTypeOK
    <3> HIDE DEF blob
    <3>3. blobs'[q.id] = blob /\ \A id \in Ids \ {q.id} : blobs'[id] = blobs[id]
      BY <1>2, <3>1, <3>2
    <3> QED
      BY <2>2, <3>1, <3>3
  <2> QED
    BY <2>1, <2>2
<1>4. \A g \in Handlers, r \in Runners :
         handler'[g] # Idle /\ handler'[g].by = r <=> handler[g] # Idle /\ handler[g].by = r
  BY <1>1
<1>5. Whole'
  BY <1>3 DEF CacheInv, SaveInv, Whole, OwnBlob, Is
<1>6. Reservers'
  BY DEF CacheInv, SaveInv, Reservers, Is
<1>7. Uploaded'
  <2> SUFFICES ASSUME NEW r \in Runners,
                      \/ client[r].at = "uploaded"
                      \/ \E g \in Handlers : handler'[g] # Idle /\ handler'[g].by = r /\ handler'[g].op = "finalize",
                      client[r].id \in Ids, entries[client[r].id] # NoEntry,
                      entries[client[r].id].by = r
               PROVE  blobs'[client[r].id] = NoBlob \/ blobs'[client[r].id].by = r
    BY DEF Uploaded, Serves, BlobBy
  <2>1. blobs[client[r].id] = NoBlob \/ blobs[client[r].id].by = r
    BY <1>1 DEF CacheInv, SaveInv, Uploaded, Serves, BlobBy
  <2> QED
    BY <1>3, <2>1
<1>8. Requests'
  <2>1. \A g \in Handlers : handler'[g] # Idle =>
          /\ handler[g] # Idle /\ handler'[g].id = handler[g].id /\ handler'[g].by = handler[g].by
          /\ handler'[g].op = handler[g].op
          /\ handler'[g].at = handler[g].at \/ g = h
    BY <1>1
  <2>2. ASSUME NEW g \in Handlers, handler'[g] # Idle
        PROVE  /\ handler'[g].id = client[handler'[g].by].id
               /\ handler'[g].op = "create" =>
                    /\ handler'[g].at = "auth"
                    /\ client[handler'[g].by].at \in {"new", "saved"}
                    /\ \A f \in Handlers : handler'[f] # Idle /\ handler'[f].by = handler'[g].by => f = g
               /\ handler'[g].op # "create" => handler'[g].id \in Ids
               /\ handler'[g].at = "io" =>
                    entries[handler'[g].id] # NoEntry /\ entries[handler'[g].id].by = handler'[g].by
    <3>1. CASE g = h
      BY <1>1, <1>2, <3>1
    <3>2. CASE g # h
      BY <2>1, <2>2, <3>2 DEF CacheInv, SaveInv, Requests, Serves
    <3> QED
      BY <3>1, <3>2
  <2> QED
    BY <2>2 DEF Requests, Serves, CacheInv, SaveInv
<1>9. Writers'
  <2> SUFFICES ASSUME NEW g \in Handlers, handler'[g] # Idle, handler'[g].at = "write"
               PROVE  /\ handler'[g].op \in Uploads
                      /\ entries[handler'[g].id] # NoEntry
                      /\ entries[handler'[g].id].by = handler'[g].by
                      /\ entries[handler'[g].id].state \in {"reserved", "reclaimed"}
                      /\ \/ handler'[g].op # "upload"
                         \/ blobs'[handler'[g].id] = NoBlob
                         \/ blobs'[handler'[g].id].by = handler'[g].by
                      /\ \A f \in Handlers :
                           handler'[f] # Idle /\ handler'[f].id = handler'[g].id /\ handler'[f].at = "write"
                           => f = g
    BY DEF Writers, BlobBy, Holds
  <2>1. CASE g = h
    <3>1. /\ at = "write" /\ q.op \in Uploads /\ entries[q.id].state \in {"reserved", "reclaimed"}
          /\ \A f \in Handlers : ~(handler[f] # Idle /\ handler[f].id = q.id /\ handler[f].at = "write")
      BY <1>1, <2>1 DEF Holds
    <3>2. q.op # "upload" \/ blobs'[q.id].by = q.by
      BY <1>3, <3>1
    <3>3. \A f \in Handlers :
             handler'[f] # Idle /\ handler'[f].id = q.id /\ handler'[f].at = "write" => f = h
      BY <1>1, <3>1
    <3> QED
      BY <1>1, <2>1, <3>1, <3>2, <3>3
  <2>2. CASE g # h
    <3>1. /\ handler'[g] = handler[g] /\ handler[g] # Idle /\ handler[g].at = "write"
          /\ handler[g].op \in Uploads /\ entries[handler[g].id] # NoEntry
          /\ entries[handler[g].id].by = handler[g].by
          /\ entries[handler[g].id].state \in {"reserved", "reclaimed"}
          /\ handler[g].op # "upload" \/ blobs[handler[g].id] = NoBlob \/ blobs[handler[g].id].by = handler[g].by
          /\ \A f \in Handlers : Holds(f, handler[g].id) => f = g
      BY <1>1, <2>2 DEF CacheInv, SaveInv, Writers, BlobBy
    <3>2. handler[g].id \in Ids
      BY <3>1 DEF CacheInv, SaveInv, Requests, Uploads
    <3>3. at = "write" => handler[g].id # q.id
      BY <3>1 DEF Holds
    <3>4. handler[g].op # "upload" \/ blobs'[handler[g].id] = NoBlob \/ blobs'[handler[g].id].by = handler[g].by
      BY <1>3, <3>1, <3>2, <3>3
    <3>5. \A f \in Handlers :
             handler'[f] # Idle /\ handler'[f].id = handler[g].id /\ handler'[f].at = "write" => f = g
      BY <1>1, <3>1, <3>3 DEF Holds
    <3> QED
      BY <3>1, <3>4, <3>5
  <2> QED
    BY <2>1, <2>2
<1> QED
  BY <1>5, <1>6, <1>7, <1>8, <1>9 DEF SaveInv

LEMMA OpenSave ==
  ASSUME CacheInv, CacheTypeOK', up, NEW h \in Handlers, OpenUpload(h)
  PROVE  SaveInv'
<1> DEFINE q == handler[h]
<1>1. PICK op \in Uploads : Locked(h, op) /\ MayWrite(q.id)
  BY DEF OpenUpload
<1>2. op \in Ops \ {"create"}
  BY DEF Uploads, Ops
<1>3. /\ q # Idle /\ q.op \in Uploads /\ q.op # "create" /\ q.id \in Ids /\ q.by \in Runners
      /\ entries[q.id] \in Entry /\ entries[q.id] # NoEntry /\ entries[q.id].by = q.by
      /\ \A g \in Handlers : ~Holds(g, q.id)
  BY <1>1, <1>2, LockedFacts, NothingAssumption DEF CacheInv, SaveInv
<1>4. entries[q.id].state \in {"reserved", "reclaimed"}
  BY <1>1, <1>3 DEF MayWrite, Entry, States
<1>5. /\ handler' = [handler EXCEPT ![h].at = "write"] /\ UNCHANGED <<entries, index, client, up>>
      /\ \/ UNCHANGED blobs /\ q.op # "upload"
         \/ blobs' = [blobs EXCEPT ![q.id] = [by |-> q.by, whole |-> FALSE]]
  BY DEF OpenUpload, To, memory
<1> QED
  BY <1>3, <1>4, <1>5, AdvanceSave

\* A finalize finds by its key what the guest reserved: it can be nothing else.
LEMMA FoundSave ==
  ASSUME CacheInv, CacheTypeOK', up, NEW h \in Handlers, FoundOwn(h)
  PROVE  SaveInv'
<1> DEFINE q == handler[h]
<1>1. /\ q # Idle /\ q.at = "auth" /\ q.op # "create"
      /\ UNCHANGED <<entries, index, blobs, client, up>>
  BY DEF FoundOwn, memory, disk
<1>2. CASE Answer(h)
  BY <1>1, <1>2, AnswerShrinks, QuietSave DEF CacheInv
<1>3. CASE ~Answer(h)
  <2>1. PICK id \in IF q.op = "finalize" THEN LiveOf(q.key) \cap Reserved ELSE {q.id} \cap Live :
          Owns(q, id) /\ handler' = [handler EXCEPT ![h].at = "io", ![h].id = id]
    BY <1>3 DEF FoundOwn
  <2>2. /\ q \in Request /\ Authority(q) = q.by /\ q.by \in Runners
        /\ entries[id].by = Authority(q)
    BY <1>1, <2>1, RequestTypes DEF CacheInv, Request, Owns, Authority
  <2>3. id \in Live /\ id \in Ids /\ entries[id] # NoEntry
    <3>1. id \in Live
      BY <2>1 DEF Live
    <3> QED
      BY <3>1 DEF Live, Reserved, Complete, Is
  <2>4. id = q.id
    <3>1. CASE q.op = "finalize"
      <4>1. Is(id, "reserved") /\ entries[id].by = q.by
        BY <2>1, <2>2, <3>1 DEF Reserved
      <4>2. client[q.by].id = id
        BY <2>2, <2>3, <4>1 DEF CacheInv, SaveInv, Reservers
      <4> QED
        BY <1>1, <4>2 DEF CacheInv, SaveInv, Requests
    <3>2. CASE q.op # "finalize"
      BY <2>1, <3>2
    <3> QED
      BY <3>1, <3>2
  <2>5. handler' = [handler EXCEPT ![h].at = "io"]
    <3>1. [[q EXCEPT !.at = "io"] EXCEPT !.id = q.id] = [q EXCEPT !.at = "io"]
      BY <2>2 DEF Request
    <3> QED
      BY <2>1, <2>4, <3>1 DEF CacheInv, CacheTypeOK
  <2> QED
    BY <1>1, <2>1, <2>2, <2>3, <2>4, <2>5, AdvanceSave
<1> QED
  BY <1>2, <1>3

LEMMA SendSave ==
  ASSUME CacheInv, CacheTypeOK', up, NEW h \in Handlers, NEW r \in Runners, NEW a \in Addrs,
         NEW op \in Ops, NEW key \in Keys, Send(h, r, a, op, key)
  PROVE  SaveInv'
<1> DEFINE q == [op |-> op, by |-> r, addr |-> a, key |-> key, id |-> client[r].id, at |-> "auth"]
<1>1. /\ handler[h] = Idle /\ client[r].at \in Asks(op)
      /\ \A g \in Handlers : handler[g] # Idle /\ handler[g].by = r =>
            handler[g].op \in {"upload", "block"} /\ op # "create"
      /\ handler' = [handler EXCEPT ![h] = q]
      /\ UNCHANGED <<entries, index, blobs, client, up>>
  BY DEF Send, memory, disk
<1>2. q \in Request /\ q # Idle
  BY NothingAssumption DEF Request, CacheInv, CacheTypeOK
<1>3. /\ handler'[h] = q /\ \A g \in Handlers \ {h} : handler'[g] = handler[g]
  BY <1>1 DEF CacheInv, CacheTypeOK
<1>4. /\ handler'[h] # Idle /\ handler'[h].op = op /\ handler'[h].by = r
      /\ handler'[h].id = client[r].id /\ handler'[h].at = "auth"
  BY <1>2, <1>3
<1>5. /\ op = "create" => client[r].at \in {"new", "saved"}
      /\ op = "finalize" => client[r].at = "uploaded"
      /\ op # "create" => client[r].at # "new"
  BY <1>1 DEF Asks, Ops
<1> HIDE DEF q
<1>6. Whole' /\ Reservers'
  BY <1>1 DEF CacheInv, SaveInv, Whole, OwnBlob, Reservers, Is
<1>7. Uploaded'
  <2> SUFFICES ASSUME NEW s \in Runners,
                      \/ client[s].at = "uploaded"
                      \/ \E g \in Handlers : handler'[g] # Idle /\ handler'[g].by = s /\ handler'[g].op = "finalize",
                      client[s].id \in Ids, entries[client[s].id] # NoEntry,
                      entries[client[s].id].by = s
               PROVE  blobs[client[s].id] = NoBlob \/ blobs[client[s].id].by = s
    BY <1>1 DEF Uploaded, Serves, BlobBy
  <2>1. \/ client[s].at = "uploaded"
        \/ \E g \in Handlers : Serves(g, s) /\ handler[g].op = "finalize"
    BY <1>3, <1>4, <1>5 DEF Serves
  <2> QED
    BY <2>1 DEF CacheInv, SaveInv, Uploaded, BlobBy
<1>8. Requests'
  <2>1. ASSUME NEW g \in Handlers, handler'[g] # Idle
        PROVE  /\ handler'[g].id = client[handler'[g].by].id
               /\ handler'[g].op = "create" =>
                    /\ handler'[g].at = "auth"
                    /\ client[handler'[g].by].at \in {"new", "saved"}
                    /\ \A f \in Handlers : handler'[f] # Idle /\ handler'[f].by = handler'[g].by => f = g
               /\ handler'[g].op # "create" => handler'[g].id \in Ids
               /\ handler'[g].at = "io" =>
                    entries[handler'[g].id] # NoEntry /\ entries[handler'[g].id].by = handler'[g].by
    <3>1. CASE g = h
      <4>1. op # "create" => client[r].id \in Ids
        BY <1>5 DEF CacheInv, SaveInv, Requests
      <4>2. op = "create" => \A f \in Handlers \ {h} : ~(handler'[f] # Idle /\ handler'[f].by = r)
        BY <1>1, <1>3
      <4> QED
        BY <1>4, <1>5, <3>1, <4>1, <4>2
    <3>2. CASE g # h
      <4>1. handler'[g] = handler[g] /\ handler[g] # Idle
        BY <1>3, <2>1, <3>2
      <4>2. handler[g].op = "create" => handler[g].by # r
        BY <1>1, <4>1
      <4>3. /\ handler[g].id = client[handler[g].by].id
            /\ handler[g].op = "create" =>
                 /\ handler[g].at = "auth"
                 /\ client[handler[g].by].at \in {"new", "saved"}
                 /\ \A f \in Handlers : handler[f] # Idle /\ handler[f].by = handler[g].by => f = g
            /\ handler[g].op # "create" => handler[g].id \in Ids
            /\ handler[g].at = "io" =>
                 entries[handler[g].id] # NoEntry /\ entries[handler[g].id].by = handler[g].by
        BY <4>1 DEF CacheInv, SaveInv, Requests, Serves
      <4> QED
        BY <1>3, <1>4, <4>1, <4>2, <4>3
    <3> QED
      BY <3>1, <3>2
  <2> QED
    BY <1>1, <2>1 DEF Requests, Serves, CacheInv, SaveInv
<1>9. Writers'
  <2>1. \A g \in Handlers : handler'[g] # Idle /\ handler'[g].at = "write" =>
           g # h /\ handler'[g] = handler[g]
    BY <1>3, <1>4
  <2> QED
    BY <1>1, <2>1 DEF CacheInv, SaveInv, Writers, Holds, BlobBy
<1> QED
  BY <1>6, <1>7, <1>8, <1>9 DEF SaveInv

\* A create is alone, and its guest has no reservation: the new one is its only one.
LEMMA MakeSave ==
  ASSUME CacheInv, CacheTypeOK', up, NEW h \in Handlers, NEW ok \in BOOLEAN, Reserve(h, ok), Makes(h, ok)
  PROVE  SaveInv'
<1> DEFINE q == handler[h]
           old == Replaced(q.key)
           n == nextID
<1>1. q \in Request /\ q # Idle /\ q.op = "create" /\ q.by \in Runners /\ Answer(h) /\ UNCHANGED up
  BY ReserveFacts DEF CacheInv
<1>2. Shrinks /\ handler'[h] = Idle
  BY <1>1, AnswerShrinks DEF CacheInv
<1>3. /\ client[q.by].at \in {"new", "saved"}
      /\ \A g \in Handlers : Serves(g, q.by) => g = h
  BY <1>1 DEF CacheInv, SaveInv, Requests
<1>4. \A g \in Handlers : handler'[g] # Idle => handler'[g] = handler[g] /\ handler[g].by # q.by
  BY <1>2, <1>3 DEF Shrinks, Serves
<1>5. /\ n \in Ids /\ old \subseteq Reserved
      /\ entries'[n] = [by |-> q.by, key |-> q.key, state |-> IF ok THEN "reserved" ELSE "reclaimed"]
      /\ \A id \in Ids \ {n} : IF id \in old THEN Reclaims(id) ELSE entries'[id] = entries[id]
      /\ blobs' = Without(blobs, old, NoBlob)
      /\ index' = IF ok THEN Indexed(entries') ELSE index
      /\ IF ok THEN Tells(q.by, "reserved", n) ELSE UNCHANGED client
  BY DEF Makes, Save
<1>6. entries[n] = NoEntry /\ index[n] = NoEntry
  BY <1>5, IdsFacts DEF CacheInv, StoreInv, Numbered, Ids
<1>7. /\ entries'[n].by = q.by /\ entries'[n].state \in {"reserved", "reclaimed"}
      /\ ~ok => entries'[n].state = "reclaimed"
  BY <1>5
<1>8. ASSUME NEW id \in Ids \ {n}
      PROVE  /\ entries'[id] # NoEntry <=> entries[id] # NoEntry
             /\ entries[id] # NoEntry =>
                  /\ entries'[id].by = entries[id].by
                  /\ \/ entries'[id].state = entries[id].state
                     \/ entries[id].state = "reserved" /\ entries'[id].state = "reclaimed"
  <2>1. CASE id \in old
    <3>1. entries[id] \in Entry /\ entries[id].state = "reserved" /\ entries[id] # NoEntry /\ Reclaims(id)
      BY <1>5, <2>1 DEF Reserved, Is, CacheInv, CacheTypeOK
    <3>2. entries'[id] = [entries[id] EXCEPT !.state = "reclaimed"] /\ entries'[id] \in Entry
      BY <3>1 DEF Reclaims, Entry, States
    <3>3. entries'[id] # NoEntry
      BY <3>2, NothingAssumption
    <3>4. entries'[id].by = entries[id].by /\ entries'[id].state = "reclaimed"
      BY <3>1, <3>2 DEF Entry
    <3> QED
      BY <3>1, <3>3, <3>4
  <2>2. CASE id \notin old
    BY <1>5, <2>2
  <2> QED
    BY <2>1, <2>2
<1>9. \A id \in Ids : blobs'[id] = blobs[id] \/ blobs'[id] = NoBlob
  BY <1>5 DEF Without
<1>10. /\ \A r \in Runners \ {q.by} : client'[r] = client[r]
       /\ client'[q.by] = IF ok THEN [at |-> "reserved", id |-> n] ELSE client[q.by]
  BY <1>1, <1>5 DEF Tells, CacheInv, CacheTypeOK
<1> HIDE DEF n, old
<1>11. Whole'
  <2> SUFFICES ASSUME NEW id \in Ids, entries'[id] # NoEntry, entries'[id].state \in {"complete", "evicted"}
               PROVE  blobs'[id] \in {NoBlob, [by |-> entries'[id].by, whole |-> TRUE]}
    BY DEF Whole, OwnBlob, Is
  <2>1. id # n
    BY <1>7
  <2>2. /\ entries[id] # NoEntry /\ entries[id].state \in {"complete", "evicted"}
        /\ entries'[id].by = entries[id].by
    BY <1>8, <2>1
  <2> QED
    BY <1>9, <2>2 DEF CacheInv, SaveInv, Whole, OwnBlob, Is
<1>12. Reservers'
  <2> SUFFICES ASSUME NEW id \in Ids, NEW r \in Runners,
                      \/ entries'[id] # NoEntry /\ entries'[id].state = "reserved" /\ entries'[id].by = r
                      \/ index'[id] # NoEntry /\ index'[id].state = "reserved" /\ index'[id].by = r
               PROVE  client'[r].id = id /\ client'[r].at \in {"reserved", "staged", "uploaded"}
    BY DEF Reservers, Is
  <2>1. \/ entries'[id] # NoEntry /\ entries'[id].state = "reserved" /\ entries'[id].by = r
        \/ ~ok /\ index[id] # NoEntry /\ index[id].state = "reserved" /\ index[id].by = r
    BY <1>5 DEF Indexed
  <2>2. CASE id = n
    <3>1. ok /\ r = q.by
      BY <1>6, <1>7, <2>1, <2>2
    <3> QED
      BY <1>1, <1>10, <2>2, <3>1
  <2>3. CASE id # n
    <3>1. \/ Is(id, "reserved") /\ entries[id].by = r
          \/ index[id] # NoEntry /\ index[id].state = "reserved" /\ index[id].by = r
      BY <1>8, <2>1, <2>3 DEF Is
    <3>2. client[r].id = id /\ client[r].at \in {"reserved", "staged", "uploaded"}
      BY <3>1 DEF CacheInv, SaveInv, Reservers
    <3>3. r # q.by
      BY <1>3, <3>2
    <3> QED
      BY <1>10, <3>2, <3>3
  <2> QED
    BY <2>2, <2>3
<1>13. Uploaded'
  <2> SUFFICES ASSUME NEW r \in Runners,
                      \/ client'[r].at = "uploaded"
                      \/ \E g \in Handlers : handler'[g] # Idle /\ handler'[g].by = r /\ handler'[g].op = "finalize",
                      client'[r].id \in Ids, entries'[client'[r].id] # NoEntry,
                      entries'[client'[r].id].by = r
               PROVE  blobs'[client'[r].id] = NoBlob \/ blobs'[client'[r].id].by = r
    BY DEF Uploaded, Serves, BlobBy
  <2>1. r # q.by
    BY <1>3, <1>4, <1>10
  <2>2. client'[r] = client[r] /\ client[r].id # n
    BY <1>7, <1>10, <2>1
  <2>3. entries[client[r].id] # NoEntry /\ entries[client[r].id].by = r
    BY <1>8, <2>2
  <2>4. \/ client[r].at = "uploaded"
        \/ \E g \in Handlers : Serves(g, r) /\ handler[g].op = "finalize"
    BY <1>4, <2>2 DEF Serves
  <2>5. blobs[client[r].id] = NoBlob \/ blobs[client[r].id].by = r
    BY <2>2, <2>3, <2>4 DEF CacheInv, SaveInv, Uploaded, BlobBy
  <2> QED
    BY <1>9, <2>2, <2>5
<1>14. Requests'
  <2>1. \A r \in Runners : client'[r].at # "new" => client'[r].id \in Ids
    BY <1>1, <1>5, <1>10 DEF n, CacheInv, SaveInv, Requests
  <2>2. ASSUME NEW g \in Handlers, handler'[g] # Idle
        PROVE  /\ handler'[g].id = client'[handler'[g].by].id
               /\ handler'[g].op = "create" =>
                    /\ handler'[g].at = "auth"
                    /\ client'[handler'[g].by].at \in {"new", "saved"}
                    /\ \A f \in Handlers : handler'[f] # Idle /\ handler'[f].by = handler'[g].by => f = g
               /\ handler'[g].op # "create" => handler'[g].id \in Ids
               /\ handler'[g].at = "io" =>
                    entries'[handler'[g].id] # NoEntry /\ entries'[handler'[g].id].by = handler'[g].by
    <3>1. handler'[g] = handler[g] /\ handler[g] # Idle /\ handler[g].by # q.by
      BY <1>4, <2>2
    <3>2. client'[handler[g].by] = client[handler[g].by]
      BY <1>10, <3>1, RequestTypes DEF Request, CacheInv
    <3>3. /\ handler[g].id = client[handler[g].by].id
          /\ handler[g].op = "create" =>
               /\ handler[g].at = "auth"
               /\ client[handler[g].by].at \in {"new", "saved"}
               /\ \A f \in Handlers : handler[f] # Idle /\ handler[f].by = handler[g].by => f = g
          /\ handler[g].op # "create" => handler[g].id \in Ids
          /\ handler[g].at = "io" =>
               entries[handler[g].id] # NoEntry /\ entries[handler[g].id].by = handler[g].by
      BY <3>1 DEF CacheInv, SaveInv, Requests, Serves
    <3>4. handler[g].at = "io" => handler[g].id \in Ids \ {n}
      BY <1>6, <3>3 DEF n
    <3> QED
      BY <1>4, <1>8, <3>1, <3>2, <3>3, <3>4
  <2> QED
    BY <1>1, <2>1, <2>2 DEF Requests, Serves
<1>15. Writers'
  <2> SUFFICES ASSUME NEW g \in Handlers, handler'[g] # Idle, handler'[g].at = "write"
               PROVE  /\ handler'[g].op \in Uploads
                      /\ entries'[handler'[g].id] # NoEntry
                      /\ entries'[handler'[g].id].by = handler'[g].by
                      /\ entries'[handler'[g].id].state \in {"reserved", "reclaimed"}
                      /\ \/ handler'[g].op # "upload"
                         \/ blobs'[handler'[g].id] = NoBlob
                         \/ blobs'[handler'[g].id].by = handler'[g].by
                      /\ \A f \in Handlers :
                           handler'[f] # Idle /\ handler'[f].id = handler'[g].id /\ handler'[f].at = "write"
                           => f = g
    BY DEF Writers, BlobBy, Holds
  <2>1. /\ handler'[g] = handler[g] /\ handler[g] # Idle /\ handler[g].at = "write"
        /\ handler[g].op \in Uploads /\ entries[handler[g].id] # NoEntry
        /\ entries[handler[g].id].by = handler[g].by
        /\ entries[handler[g].id].state \in {"reserved", "reclaimed"}
        /\ handler[g].op # "upload" \/ blobs[handler[g].id] = NoBlob \/ blobs[handler[g].id].by = handler[g].by
        /\ \A f \in Handlers : Holds(f, handler[g].id) => f = g
    BY <1>4 DEF CacheInv, SaveInv, Writers, BlobBy
  <2>2. handler[g].id \in Ids /\ handler[g].id # n
    BY <1>6, <2>1 DEF n, CacheInv, SaveInv, Requests, Uploads
  <2>3. \A f \in Handlers :
           handler'[f] # Idle /\ handler'[f].id = handler[g].id /\ handler'[f].at = "write" => f = g
    BY <1>4, <2>1 DEF Holds
  <2> QED
    BY <1>8, <1>9, <2>1, <2>2, <2>3
<1> QED
  BY <1>11, <1>12, <1>13, <1>14, <1>15 DEF SaveInv

LEMMA LoadSave == CacheInv /\ CacheTypeOK' /\ Restart => SaveInv'
<1> SUFFICES ASSUME CacheInv, CacheTypeOK', Restart PROVE SaveInv'
  OBVIOUS
<1>1. entries' = index /\ UNCHANGED <<index, blobs, client, handler>> /\ up' /\ ~up
  BY DEF Restart, disk
<1>2. \A h \in Handlers : handler[h] = Idle
  BY <1>1 DEF CacheInv, SaveInv, Requests
<1>3. \A id \in Ids : index[id] # NoEntry =>
         /\ entries[id] # NoEntry /\ index[id].by = entries[id].by
         /\ index[id].state \in {"reserved", "complete"}
         /\ index[id].state = "complete" => entries[id].state \in {"complete", "evicted"}
  BY DEF CacheInv, StoreInv, IndexAgrees, OneLive
<1>4. Whole'
  BY <1>1, <1>3 DEF CacheInv, SaveInv, Whole, OwnBlob, Is
<1>5. Reservers'
  BY <1>1 DEF CacheInv, SaveInv, Reservers, Is
<1>6. Uploaded'
  BY <1>1, <1>2, <1>3 DEF CacheInv, SaveInv, Uploaded, BlobBy, Serves
<1>7. Requests' /\ Writers'
  BY <1>1, <1>2 DEF CacheInv, SaveInv, Requests, Writers
<1> QED
  BY <1>4, <1>5, <1>6, <1>7 DEF SaveInv

LEMMA InitCache == Init => CacheInv
<1> SUFFICES ASSUME Init PROVE CacheInv
  OBVIOUS
<1>1. CacheTypeOK
  BY IdsFacts DEF Init, LeasesInit, CacheTypeOK, LeasesTypeOK, Progress, Parts
<1> QED
  BY <1>1 DEF Init, CacheInv, StoreInv, OneLive, Live, Reserved, Complete, Is, Numbered,
     IndexAgrees,
     SaveInv, Whole, Reservers, Uploaded, Serves, Requests, Writers

LEMMA NextCache == CacheInv /\ [Next]_vars => CacheInv'
<1> SUFFICES ASSUME CacheInv, [Next]_vars PROVE CacheInv'
  OBVIOUS
<1>1. CacheTypeOK'
  BY NextTypes
<1>2. ASSUME UNCHANGED <<entries, blobs, client, nextID>>, Shrinks,
             index' = index \/ index' = Indexed(entries'),
             up' \/ \A h \in Handlers : handler'[h] = Idle
      PROVE  StoreInv' /\ SaveInv'
  <2>1. \A id \in Ids : Follows(id)
    BY <1>2 DEF Follows
  <2> QED
    BY <1>1, <1>2, <2>1, QuietSave, FollowStore DEF CacheInv
<1>3. CASE UNCHANGED vars \/ (Machines /\ UNCHANGED server)
  <2>1. /\ UNCHANGED <<entries, blobs, client, nextID, index, handler, up>> /\ Shrinks
    BY <1>3 DEF vars, server, memory, disk, Shrinks
  <2>2. up' \/ \A h \in Handlers : handler'[h] = Idle
    BY <2>1 DEF CacheInv, SaveInv, Requests
  <2> QED
    BY <1>1, <1>2, <2>1, <2>2 DEF CacheInv
<1>4. ASSUME up, NEW h \in Handlers, Refuse(h) \/ TooLate(h) PROVE CacheInv'
  <2>1. Answer(h) /\ UNCHANGED <<entries, blobs, client, nextID, index, up>>
    BY <1>4 DEF Refuse, TooLate, memory, disk
  <2> QED
    BY <1>1, <1>2, <1>4, <2>1, AnswerShrinks DEF CacheInv
<1>5. ASSUME up, NEW h \in Handlers, NEW ok \in BOOLEAN,
             \/ FoundOwn(h) \/ OpenUpload(h) \/ WriteBlob(h, ok)
             \/ PutBlock(h, ok) \/ CommitBlocks(h, ok)
      PROVE  CacheInv'
  <2>1. UNCHANGED <<entries, nextID, index>>
    BY <1>5 DEF FoundOwn, OpenUpload, WriteBlob, PutBlock, CommitBlocks, memory, disk
  <2>2. StoreInv'
    <3>1. \A id \in Ids : Follows(id)
      BY <2>1 DEF Follows
    <3> QED
      BY <1>1, <2>1, <3>1, FollowStore DEF CacheInv
  <2> QED
    BY <1>1, <1>5, <2>2, FoundSave, OpenSave, WriteSave DEF CacheInv
<1>6. ASSUME up, NEW h \in Handlers, NEW ok \in BOOLEAN, Reserve(h, ok) PROVE CacheInv'
  <2>1. CASE UNCHANGED <<memory, disk, client>>
    <3>1. Answer(h) /\ UNCHANGED <<entries, blobs, client, nextID, index, up>>
      BY <1>6, <2>1 DEF Reserve, memory, disk
    <3> QED
      BY <1>1, <1>2, <1>6, <3>1, AnswerShrinks DEF CacheInv
  <2>2. CASE Makes(h, ok)
    BY <1>1, <1>6, <2>2, MakeSave, MakeStore, ReserveFacts DEF CacheInv
  <2> QED
    BY <1>6, <2>1, <2>2, ReserveFacts DEF CacheInv
<1>7. ASSUME up, NEW h \in Handlers, HandlerSteps(h) PROVE CacheInv'
  BY <1>1, <1>4, <1>5, <1>6, <1>7, FinishSave DEF HandlerSteps, CacheInv
<1>8. ASSUME up, NEW h \in Handlers, NEW r \in Runners, NEW a \in Addrs, NEW op \in Ops,
             NEW key \in Keys, Send(h, r, a, op, key)
      PROVE  CacheInv'
  <2>1. UNCHANGED <<entries, nextID, index>> /\ \A id \in Ids : Follows(id)
    BY <1>8 DEF Send, memory, disk, Follows
  <2> QED
    BY <1>1, <1>8, <2>1, SendSave, FollowStore DEF CacheInv
<1>9. ASSUME up, \/ \E key \in Keys : GetURL(key)
                 \/ \E id \in Ids : GrowsOld(id)
      PROVE  CacheInv'
  <2>1. /\ UNCHANGED <<entries, blobs, client, nextID, handler, up>> /\ Shrinks
        /\ index' = index \/ index' = Indexed(entries')
    BY <1>9 DEF GetURL, GrowsOld, memory, disk, Shrinks
  <2> QED
    BY <1>1, <1>2, <1>9, <2>1 DEF CacheInv
<1>10. ASSUME up, NEW ok \in BOOLEAN, Gc(ok) PROVE CacheInv'
  BY <1>1, <1>10, GcSave DEF CacheInv
<1>11. CASE Crash
  <2>1. /\ UNCHANGED <<entries, blobs, client, nextID, index>>
        /\ \A h \in Handlers : handler'[h] = Idle
    BY <1>11 DEF Crash, memory, disk
  <2> QED
    BY <1>1, <1>2, <2>1 DEF CacheInv, Shrinks
<1>12. CASE Restart
  BY <1>1, <1>12, LoadStore, LoadSave DEF CacheInv
<1> QED
  BY <1>3, <1>7, <1>8, <1>9, <1>10, <1>11, <1>12 DEF Next

LEMMA SpecCache == Spec => []CacheInv
BY InitCache, NextCache, PTL DEF Spec

-----------------------------------------------------------------------------
(* Theorems.                                                               *)

\* Server.entries keeps its types, through handlers, gc, eviction and restarts.
THEOREM CacheTypesHold == Spec => []CacheTypeOK
<1>1. CacheInv => CacheTypeOK
  BY DEF CacheInv
<1> QED
  BY <1>1, SpecCache, PTL

\* handleCreateCacheEntry never makes a second entry for a key, so that what
\* FinalizeCacheEntryUpload finds by key is what its caller reserved.
THEOREM OneEntryHolds == Spec => []OneEntryPerKey
<1>1. CacheInv => OneEntryPerKey
  <2> SUFFICES ASSUME CacheInv, NEW key \in Keys PROVE Cardinality(LiveOf(key)) <= 1
    BY DEF OneEntryPerKey
  <2>1. CASE LiveOf(key) = {}
    BY <2>1, FS_EmptySet
  <2>2. ASSUME NEW id \in LiveOf(key) PROVE Cardinality(LiveOf(key)) <= 1
    <3>1. LiveOf(key) = {id}
      BY <2>2 DEF LiveOf, CacheInv, StoreInv, OneLive
    <3> QED
      BY <3>1, FS_Singleton
  <2> QED
    BY <2>1, <2>2
<1> QED
  BY <1>1, SpecCache, PTL

\* What can be restored is all of what the job that reserved it uploaded: uploads
\* sent twice, cut off or overtaken by the finalize, gc and crashes included.
THEOREM WholeHolds == Spec => []CompleteIsWhole
<1>1. CacheInv => CompleteIsWhole
  BY DEF CacheInv, SaveInv, Whole, OwnBlob, CompleteIsWhole, Complete
<1> QED
  BY <1>1, SpecCache, PTL

\* handleFinalize answers ok only with the entry in the map, on disk and indexed.
THEOREM SavedHolds == Spec => SavedIsThere
<1> DEFINE Saved == \A r \in Runners :
                      client'[r].at = "saved" /\ client[r].at # "saved" =>
                         /\ client'[r].id \in Complete'
                         /\ blobs'[client'[r].id] # NoBlob
                         /\ index'[client'[r].id] = entries'[client'[r].id]
<1>1. CacheInv /\ [Next]_vars => [Saved]_vars
  <2> SUFFICES ASSUME CacheInv, Next, NEW r \in Runners,
                      client'[r].at = "saved", client[r].at # "saved"
               PROVE  /\ client'[r].id \in Complete'
                      /\ blobs'[client'[r].id] # NoBlob
                      /\ index'[client'[r].id] = entries'[client'[r].id]
    OBVIOUS
  <2>1. PICK h \in Handlers : HandlerSteps(h)
    BY DEF Next, server, Send, GetURL, GrowsOld, Gc, Crash, Restart
  <2>2. PICK ok \in BOOLEAN :
          Reserve(h, ok) \/ WriteBlob(h, ok) \/ PutBlock(h, ok) \/ CommitBlocks(h, ok) \/ Finalize(h, ok)
    BY <2>1 DEF HandlerSteps, Refuse, FoundOwn, TooLate, OpenUpload
  <2>3. ASSUME NEW s \in Runners, NEW at \in Progress \ {"saved"}, NEW id, Tells(s, at, id) PROVE FALSE
    BY <2>3 DEF Tells, CacheInv, CacheTypeOK
  <2>4. CASE Reserve(h, ok)
    <3>1. handler[h].by \in Runners /\ (UNCHANGED client \/ Tells(handler[h].by, "reserved", nextID))
      BY <2>4, ReserveFacts DEF CacheInv, Makes
    <3> QED
      BY <2>3, <3>1 DEF Progress
  <2>5. CASE WriteBlob(h, ok) \/ PutBlock(h, ok) \/ CommitBlocks(h, ok)
    <3>1. handler[h] # Idle /\ handler[h].by \in Runners
      BY <2>5, RequestTypes DEF WriteBlob, PutBlock, CommitBlocks, Writing, Request, CacheInv
    <3>2. \/ UNCHANGED client
          \/ Tells(handler[h].by, "uploaded", handler[h].id)
          \/ Tells(handler[h].by, "staged", handler[h].id)
      BY <2>5 DEF WriteBlob, PutBlock, CommitBlocks
    <3> QED
      BY <2>3, <3>1, <3>2 DEF Progress
  <2>6. CASE Finalize(h, ok)
    <3>1. /\ handler[h].id \in Ids /\ handler[h].by \in Runners
          /\ entries[handler[h].id] \in Entry
      BY <2>6, FinalizeFacts, LockedFacts DEF CacheInv, SaveInv, Ops
    <3>2. PICK gone : Finishes(h, gone, ok)
      BY <2>6, FinalizeFacts DEF CacheInv, SaveInv
    <3>3. ok /\ Tells(handler[h].by, "saved", handler[h].id)
      BY <3>2 DEF Finishes
    <3>4. r = handler[h].by /\ client'[r].id = handler[h].id
      BY <3>1, <3>3 DEF Tells, CacheInv, CacheTypeOK
    <3>5. /\ entries'[handler[h].id] = [entries[handler[h].id] EXCEPT !.state = "complete"]
          /\ blobs' = Without(blobs, gone, NoBlob) /\ handler[h].id \notin gone
          /\ index' = Indexed(entries') /\ blobs[handler[h].id] # NoBlob
      BY <3>2, <3>3 DEF Finishes, Save, SizeOK
    <3>6. entries'[handler[h].id] # NoEntry /\ entries'[handler[h].id].state = "complete"
      <4>1. entries'[handler[h].id] \in Entry
        BY <3>1, <3>5 DEF Entry, States
      <4> QED
        BY <3>1, <3>5, <4>1, NothingAssumption DEF Entry
    <3> QED
      BY <3>1, <3>4, <3>5, <3>6 DEF Complete, Is, Without, Indexed
  <2> QED
    BY <2>2, <2>4, <2>5, <2>6
<1> QED
  BY <1>1, SpecCache, PTL DEF SavedIsThere, Spec

-----------------------------------------------------------------------------
(* What a step makes of the entries.                                       *)

LEMMA SameEntries == UNCHANGED entries => UNCHANGED <<Live, Complete>>
BY DEF Live, Reserved, Complete, Is

\* The steps that change an entry.
LEMMA Changes ==
  ASSUME CacheInv, Next
  PROVE  \/ UNCHANGED entries
         \/ \E h \in Handlers, ok \in BOOLEAN : Reserve(h, ok) /\ Makes(h, ok)
         \/ \E h \in Handlers, ok \in BOOLEAN :
               Finalize(h, ok) /\ \E gone \in Victims(handler[h].id) : Finishes(h, gone, ok)
         \/ \E ok \in BOOLEAN : Gc(ok)
         \/ Restart
<1>1. CacheTypeOK /\ Requests
  BY DEF CacheInv, SaveInv
<1>2. ASSUME NEW h \in Handlers, NEW ok \in BOOLEAN, Reserve(h, ok)
      PROVE  UNCHANGED entries \/ (Reserve(h, ok) /\ Makes(h, ok))
  BY <1>1, <1>2, ReserveFacts DEF memory
<1>3. ASSUME NEW h \in Handlers, NEW ok \in BOOLEAN, Finalize(h, ok)
      PROVE  \/ UNCHANGED entries
             \/ Finalize(h, ok) /\ \E gone \in Victims(handler[h].id) : Finishes(h, gone, ok)
  BY <1>1, <1>3, FinalizeFacts
<1>4. ASSUME NEW h \in Handlers, NEW ok \in BOOLEAN,
             \/ Refuse(h) \/ FoundOwn(h) \/ TooLate(h) \/ OpenUpload(h)
             \/ WriteBlob(h, ok) \/ PutBlock(h, ok) \/ CommitBlocks(h, ok)
      PROVE  UNCHANGED entries
  BY <1>4 DEF Refuse, FoundOwn, TooLate, OpenUpload, WriteBlob, PutBlock, CommitBlocks, memory
<1>5. CASE Machines /\ UNCHANGED server
  BY <1>5 DEF server, memory
<1>6. CASE Crash
  BY <1>6 DEF Crash, memory
<1>7. CASE \/ \E h \in Handlers, r \in Runners, a \in Addrs, op \in Ops, key \in Keys :
                Send(h, r, a, op, key)
           \/ \E key \in Keys : GetURL(key)
           \/ \E id \in Ids : GrowsOld(id)
  BY <1>7 DEF Send, GetURL, GrowsOld, memory
<1>8. CASE \E h \in Handlers : HandlerSteps(h)
  BY <1>2, <1>3, <1>4, <1>8 DEF HandlerSteps
<1> QED
  BY <1>5, <1>6, <1>7, <1>8 DEF Next

\* gc publishes nothing, and makes nothing new.
LEMMA GcShrinks ==
  ASSUME CacheInv, NEW ok \in BOOLEAN, Gc(ok)
  PROVE  Live' \subseteq Live /\ Complete' \subseteq Complete /\ UNCHANGED handler
<1>1. \A id \in Ids : IF id \in Abandoned THEN Reclaims(id) ELSE entries'[id] = entries[id]
  BY GcFacts DEF CacheInv
<1>2. \A id \in Abandoned : entries[id] \in Entry
  BY DEF Abandoned, Reserved, Is, CacheInv, CacheTypeOK
<1>3. \A id \in Abandoned : entries'[id].state = "reclaimed"
  BY <1>1, <1>2 DEF Reclaims, Entry, Abandoned, Reserved
<1> QED
  BY <1>1, <1>3 DEF Gc, Live, Reserved, Complete, Is

\* handleCreateCacheEntry: the new entry is the only one to enter the map.
LEMMA MakesOne ==
  ASSUME CacheInv, NEW h \in Handlers, NEW ok \in BOOLEAN, Makes(h, ok)
  PROVE  /\ Complete' = Complete /\ Live' \subseteq Live \cup {nextID}
         /\ nextID \in Ids /\ entries'[nextID].by = handler[h].by
<1>1. /\ nextID \in Ids /\ entries[nextID] = NoEntry
      /\ entries'[nextID].by = handler[h].by
      /\ entries'[nextID].state # "complete"
  BY DEF Makes, CacheInv, StoreInv, Numbered, CacheTypeOK
<1>2. \A id \in Ids \ {nextID} :
         IF id \in Replaced(handler[h].key) THEN Reclaims(id) ELSE entries'[id] = entries[id]
  BY DEF Makes
<1>3. \A id \in Replaced(handler[h].key) : id \in Ids /\ entries[id] \in Entry /\ entries[id].state = "reserved"
  BY DEF Makes, Reserved, Is, CacheInv, CacheTypeOK
<1>4. \A id \in Replaced(handler[h].key) \ {nextID} : entries'[id].state = "reclaimed"
  BY <1>2, <1>3 DEF Reclaims, Entry
<1>5. \A id \in Ids \ {nextID} :
         \/ entries'[id] = entries[id]
         \/ entries'[id].state = "reclaimed" /\ entries[id].state = "reserved"
  BY <1>2, <1>3, <1>4
<1> QED
  BY <1>1, <1>5 DEF Live, Reserved, Complete, Is

\* handleFinalize: what is complete after it.
LEMMA FinishesOne ==
  ASSUME CacheInv, NEW h \in Handlers, NEW ok \in BOOLEAN, NEW gone, Finishes(h, gone, ok)
  PROVE  LET id == handler[h].id
         IN /\ id \in Ids \ Complete /\ gone \subseteq Complete
            /\ Complete' = (Complete \ gone) \cup {id}
            /\ Live' \subseteq Live
            /\ staged' = staged \ (gone \cup {id})
<1> DEFINE id == handler[h].id
<1>1. /\ id \in Ids /\ entries[id] \in Entry /\ entries[id] # NoEntry /\ entries[id].state = "reserved"
      /\ gone \subseteq Complete /\ id \notin gone
      /\ staged' = staged \ (gone \cup {id})
  BY DEF Finishes, Reserved, Is, CacheInv, CacheTypeOK
<1>2. entries'[id] # NoEntry /\ entries'[id].state = "complete"
  <2>1. entries'[id] = [entries[id] EXCEPT !.state = "complete"]
    BY DEF Finishes
  <2>2. entries'[id] \in Entry
    BY <1>1, <2>1 DEF Entry, States
  <2> QED
    BY <1>1, <2>1, <2>2, NothingAssumption DEF Entry
<1>3. \A g \in gone : g \in Ids /\ entries[g] \in Entry /\ entries[g] # NoEntry
  BY <1>1 DEF Complete, Is, CacheInv, CacheTypeOK
<1>4. \A g \in gone : entries'[g].state = "evicted"
  <2>1. \A g \in gone : entries'[g] = [entries[g] EXCEPT !.state = "evicted"]
    BY DEF Finishes
  <2> QED
    BY <1>3, <2>1 DEF Entry
<1>5. \A other \in Ids \ (gone \cup {id}) : entries'[other] = entries[other]
  BY DEF Finishes
<1>6. id \notin Complete /\ id \in Live
  BY <1>1 DEF Complete, Live, Reserved, Is
<1>7. Complete' = (Complete \ gone) \cup {id}
  BY <1>1, <1>2, <1>3, <1>4, <1>5, <1>6 DEF Complete, Is
<1>8. Live' \subseteq Live
  BY <1>1, <1>4, <1>5, <1>6 DEF Live, Reserved, Complete, Is
<1> QED
  BY <1>1, <1>6, <1>7, <1>8

\* The victims make room for the entry, or are all there is.
LEMMA VictimsFit ==
  ASSUME CacheTypeOK, NEW id \in Ids \ Complete, NEW gone \in Victims(id)
  PROVE  LET after == (Complete \ gone) \cup {id}
             uploads == staged \ (gone \cup {id})
         IN Cardinality(after) + Cardinality(uploads) <= MaxSize \/ Cardinality(after) = 1
<1> DEFINE after == (Complete \ gone) \cup {id}
           uploads == staged \ (gone \cup {id})
           c == Cardinality(Complete)
           s == Cardinality(staged \ {id})
           g == Cardinality(gone)
<1>1. Complete \subseteq Ids /\ staged \subseteq Ids /\ Complete \ {id} = Complete
  BY DEF Complete, CacheTypeOK
<1>2. gone \subseteq Complete
  BY <1>1 DEF Victims, kSubset
<1>3. /\ IsFiniteSet(Complete) /\ IsFiniteSet(staged \ {id}) /\ IsFiniteSet(gone)
      /\ IsFiniteSet(Complete \ gone) /\ IsFiniteSet(uploads)
  BY <1>1, <1>2, IdsFacts, FS_Subset
<1>4. c \in Nat /\ s \in Nat /\ g \in Nat /\ Cardinality(uploads) \in Nat
  BY <1>3, FS_CardinalityType
<1>5. Cardinality(Complete \ gone) = c - g
  <2>1. Complete \cap gone = gone
    BY <1>2
  <2> QED
    BY <1>3, <2>1, FS_Difference
<1>6. Cardinality(after) = c - g + 1
  BY <1>2, <1>3, <1>5, FS_AddElement
<1>7. Cardinality(uploads) <= s
  <2>1. uploads \in SUBSET (staged \ {id})
    OBVIOUS
  <2> QED
    BY <1>3, <2>1, FS_Subset
<1>8. Cardinality(Complete \cup {id}) = c + 1
  BY <1>3, FS_AddElement
<1>9. Total(id) = c + 1 + s
  BY <1>8 DEF Total
<1> DEFINE excess == IF (c + 1 + s) - MaxSize < c THEN (c + 1 + s) - MaxSize ELSE c
<1>10. IF excess <= 0 THEN gone = {} ELSE g = excess
  <2>1. Least(Total(id) - MaxSize, Cardinality(Complete \ {id})) = excess
    <3>1. Cardinality(Complete \ {id}) = c
      BY <1>1, Zenon
    <3>2. Total(id) - MaxSize = (c + 1 + s) - MaxSize
      BY <1>9
    <3> HIDE DEF c, s
    <3> QED
      BY <3>1, <3>2 DEF Least
  <2>2. gone \in IF excess <= 0 THEN {{}} ELSE kSubset(excess, Complete \ {id})
    BY <2>1 DEF Victims
  <2> HIDE DEF excess
  <2> QED
    BY <2>2 DEF kSubset
<1>11. gone = {} => g = 0
  BY FS_EmptySet
<1>12. MaxSize \in Nat
  BY CacheAssumption
<1>13. Cardinality(after) + Cardinality(uploads) <= MaxSize \/ Cardinality(after) = 1
  <2> HIDE DEF after, uploads, c, s, g
  <2> QED
    BY <1>4, <1>6, <1>7, <1>10, <1>11, <1>12
<1> QED
  BY <1>13

\* Every entry is made, and every one published, for the guest whose request it
\* was when its connection was opened (identity), and for no one who has the
\* address by the time the handler gets to it.
THEOREM ActsForItselfHolds == Spec => ActsForItself
<1> DEFINE Own == \A h \in Handlers, id \in Ids :
                    /\ handler[h] # Idle /\ handler'[h] = Idle
                    /\ (id \in Live') # (id \in Live) \/ (id \in Complete') # (id \in Complete)
                    /\ id \in Live'
                    => entries'[id].by = handler[h].by
<1>1. CacheInv /\ [Next]_vars => [Own]_vars
  <2> SUFFICES ASSUME CacheInv, Next, NEW h \in Handlers, NEW id \in Ids,
                      handler[h] # Idle, handler'[h] = Idle, id \in Live',
                      id \notin Live \/ (id \in Complete') # (id \in Complete)
               PROVE  entries'[id].by = handler[h].by
    OBVIOUS
  <2>1. CacheTypeOK /\ SaveInv
    BY DEF CacheInv
  <2>2. CASE UNCHANGED entries
    BY <2>2, SameEntries
  <2>3. ASSUME NEW g \in Handlers, NEW ok \in BOOLEAN, Reserve(g, ok), Makes(g, ok)
        PROVE  entries'[id].by = handler[h].by
    <3>1. h = g
      BY <2>1, <2>3 DEF Reserve, Answer, CacheTypeOK
    <3> QED
      BY <2>3, <3>1, MakesOne
  <2>4. ASSUME NEW g \in Handlers, NEW ok \in BOOLEAN, NEW gone, Finalize(g, ok), Finishes(g, gone, ok)
        PROVE  entries'[id].by = handler[h].by
    <3>1. h = g
      BY <2>1, <2>4 DEF Finalize, Answer, CacheTypeOK
    <3>2. /\ Complete' = (Complete \ gone) \cup {handler[h].id} /\ Live' \subseteq Live
          /\ gone \subseteq Complete
      BY <2>4, <3>1, FinishesOne
    <3>3. id = handler[h].id \/ id \in gone
      BY <3>2
    <3>4. handler[h].id \in Ids /\ entries[handler[h].id] \in Entry
          /\ entries[handler[h].id].by = handler[h].by
      BY <2>1, <2>4, <3>1, LockedFacts DEF Finalize, SaveInv, Ops
    <3>5. \A x \in gone : x \notin Live'
      <4>1. \A x \in gone : x \in Ids /\ entries[x] \in Entry
        BY <2>1, <3>2 DEF Complete, Is, CacheTypeOK
      <4>2. \A x \in gone : entries'[x].state = "evicted"
        BY <2>4, <4>1 DEF Finishes, Entry
      <4> QED
        BY <4>2 DEF Live, Reserved, Complete, Is
    <3>6. id = handler[h].id
      BY <3>3, <3>5
    <3>7. entries'[id] = [entries[id] EXCEPT !.state = "complete"]
      BY <2>4, <3>1, <3>6 DEF Finishes
    <3> QED
      BY <3>4, <3>6, <3>7 DEF Entry
  <2>5. CASE \E ok \in BOOLEAN : Gc(ok)
    BY <2>5, GcShrinks
  <2>6. CASE Restart
    BY <2>6 DEF Restart
  <2> QED
    BY <2>2, <2>3, <2>4, <2>5, <2>6, Changes
<1> QED
  BY <1>1, SpecCache, PTL DEF ActsForItself, Spec

\* evictLRU evicts enough: after handleFinalize the complete entries and the bytes
\* of the uploads under way fit -max-size, or nothing but the new entry is left.
THEOREM CapHolds == Spec => FitsTheCap
<1> DEFINE Fits == Complete' \ Complete # {} /\ up =>
                     \/ Cardinality(Complete') + Cardinality(staged') <= MaxSize
                     \/ Cardinality(Complete') = 1
<1>1. CacheInv /\ [Next]_vars => [Fits]_vars
  <2> SUFFICES ASSUME CacheInv, Next, Complete' \ Complete # {}, up
               PROVE  \/ Cardinality(Complete') + Cardinality(staged') <= MaxSize
                      \/ Cardinality(Complete') = 1
    OBVIOUS
  <2>1. CASE UNCHANGED entries
    BY <2>1, SameEntries
  <2>2. ASSUME NEW h \in Handlers, NEW ok \in BOOLEAN, Makes(h, ok) PROVE FALSE
    BY <2>2, MakesOne
  <2>3. ASSUME NEW h \in Handlers, NEW ok \in BOOLEAN, NEW gone \in Victims(handler[h].id),
               Finishes(h, gone, ok)
        PROVE  \/ Cardinality(Complete') + Cardinality(staged') <= MaxSize
               \/ Cardinality(Complete') = 1
    <3>1. /\ handler[h].id \in Ids \ Complete
          /\ Complete' = (Complete \ gone) \cup {handler[h].id}
          /\ staged' = staged \ (gone \cup {handler[h].id})
      BY <2>3, FinishesOne
    <3> QED
      BY <2>3, <3>1, VictimsFit DEF CacheInv
  <2>4. CASE \E ok \in BOOLEAN : Gc(ok)
    BY <2>4, GcShrinks
  <2>5. CASE Restart
    BY <2>5 DEF Restart
  <2> QED
    BY <2>1, <2>2, <2>3, <2>4, <2>5, Changes
<1> QED
  BY <1>1, SpecCache, PTL DEF FitsTheCap, Spec

-----------------------------------------------------------------------------
(* What can be restored until the process dies.                            *)

Present == \A id \in Complete : blobs[id] # NoBlob

\* A write replaces the blob by another, or is at an entry that is not complete.
LEMMA WritePresent ==
  ASSUME CacheInv, Present, NEW h \in Handlers, NEW ok \in BOOLEAN,
         OpenUpload(h) \/ WriteBlob(h, ok) \/ CommitBlocks(h, ok)
  PROVE  Present'
<1> DEFINE q == handler[h]
<1>1. UNCHANGED entries /\ Complete' = Complete
  BY SameEntries DEF OpenUpload, WriteBlob, CommitBlocks, memory
<1>2. q \in Request /\ q.by \in Runners /\ blobs \in [Ids -> Blob \cup {NoBlob}]
  BY RequestTypes DEF OpenUpload, WriteBlob, CommitBlocks, Locked, TakesIoMu, Writing, CacheInv,
     CacheTypeOK, Request
<1>3. \A whole \in BOOLEAN : [by |-> q.by, whole |-> whole] # NoBlob
  BY <1>2, NothingAssumption DEF Blob
<1>4. CASE OpenUpload(h) \/ CommitBlocks(h, ok)
  <2>1. \/ UNCHANGED blobs
        \/ \E whole \in BOOLEAN : blobs' = [blobs EXCEPT ![q.id] = [by |-> q.by, whole |-> whole]]
    BY <1>4 DEF OpenUpload, CommitBlocks
  <2> QED
    BY <1>1, <1>2, <1>3, <2>1 DEF Present, Complete
<1>5. CASE WriteBlob(h, ok)
  <2>1. q.id \notin Complete
    BY <1>5 DEF WriteBlob, Writing, CacheInv, SaveInv, Writers, Complete, Is
  <2>2. \E b : blobs' = [blobs EXCEPT ![q.id] = b]
    BY <1>5 DEF WriteBlob
  <2> QED
    BY <1>1, <1>2, <2>1, <2>2 DEF Present, Complete
<1> QED
  BY <1>4, <1>5

\* What is taken off the disk is not complete, or no longer.
LEMMA TakenPresent ==
  ASSUME CacheInv, Present, NEW ids, ids \cap Complete' = {}, blobs' = Without(blobs, ids, NoBlob),
         \A id \in Complete' : blobs[id] # NoBlob
  PROVE  Present'
BY DEF Present, Without, Complete

LEMMA NextPresent ==
  ASSUME CacheInv, Present, Next PROVE Present' \/ Restart
<1>1. ASSUME UNCHANGED <<entries, blobs>> PROVE Present'
  BY <1>1, SameEntries DEF Present
<1>2. ASSUME NEW h \in Handlers, NEW ok \in BOOLEAN, Reserve(h, ok) PROVE Present'
  <2>1. CASE UNCHANGED <<memory, disk, client>>
    BY <1>1, <2>1 DEF memory, disk
  <2>2. CASE Makes(h, ok)
    <3>1. Complete' = Complete /\ Replaced(handler[h].key) \cap Complete = {}
      BY <2>2, MakesOne DEF Makes, Reserved, Complete, Is
    <3> QED
      BY <2>2, <3>1, TakenPresent DEF Makes, Present
  <2> QED
    BY <1>2, <2>1, <2>2, ReserveFacts DEF CacheInv
<1>3. ASSUME NEW h \in Handlers, NEW ok \in BOOLEAN, Finalize(h, ok) PROVE Present'
  <2>1. ASSUME NEW gone, Finishes(h, gone, ok) PROVE Present'
    <3>1. /\ Complete' = (Complete \ gone) \cup {handler[h].id}
          /\ handler[h].id \notin gone /\ blobs[handler[h].id] # NoBlob
          /\ blobs' = Without(blobs, gone, NoBlob)
      BY <2>1, FinishesOne DEF Finishes, SizeOK
    <3> QED
      BY <3>1, TakenPresent DEF Present
  <2> QED
    BY <1>1, <1>3, <2>1, FinalizeFacts DEF CacheInv, SaveInv
<1>4. ASSUME NEW ok \in BOOLEAN, Gc(ok) PROVE Present'
  <2>1. \A id \in Abandoned : id \in Ids /\ entries[id].state = "reserved"
    BY DEF Abandoned, Reserved, Is
  <2>2. Complete' \subseteq Complete /\ Abandoned \cap Complete = {}
    BY <1>4, <2>1, GcShrinks DEF Complete, Is
  <2> QED
    BY <1>4, <2>2, TakenPresent DEF Gc, Present
<1>5. ASSUME NEW h \in Handlers, HandlerSteps(h) PROVE Present'
  <2>1. CASE Refuse(h) \/ FoundOwn(h) \/ TooLate(h) \/ \E ok \in BOOLEAN : PutBlock(h, ok)
    BY <1>1, <2>1 DEF Refuse, FoundOwn, TooLate, PutBlock, memory, disk
  <2> QED
    BY <1>2, <1>3, <1>5, <2>1, WritePresent DEF HandlerSteps
<1>6. CASE \/ Machines /\ UNCHANGED server
           \/ \E h \in Handlers, r \in Runners, a \in Addrs, op \in Ops, key \in Keys :
                 Send(h, r, a, op, key)
           \/ \E key \in Keys : GetURL(key)
           \/ \E id \in Ids : GrowsOld(id)
           \/ Crash
  BY <1>1, <1>6 DEF server, memory, disk, Send, GetURL, GrowsOld, Crash
<1> QED
  BY <1>4, <1>5, <1>6 DEF Next

\* A running server keeps the blob of every complete entry, whichever uploads are
\* sent twice, cut off or late, and whatever gc, a reservation made again and the
\* cap take away: only load can bring back an entry without one.
THEOREM OnlyLoadLoses ==
  Spec => [][ CompleteRestorable /\ up => CompleteRestorable' ]_vars
<1>1. CacheInv /\ [Next]_vars => [CompleteRestorable /\ up => CompleteRestorable']_vars
  <2> SUFFICES ASSUME CacheInv, Next, CompleteRestorable, up PROVE CompleteRestorable'
    OBVIOUS
  <2>1. Present /\ ~Restart
    BY DEF CompleteRestorable, Present, Restart
  <2> QED
    BY <2>1, NextPresent DEF CompleteRestorable, Present
<1> QED
  BY <1>1, SpecCache, PTL DEF Spec

\* Until the process first dies, what FinalizeCacheEntryUpload marked complete is
\* restorable: the run that violates CompleteRestorable needs its crash.
THEOREM RestorableUntilCrash == Spec => [](crashes = 0 => CompleteRestorable)
<1> DEFINE First == crashes \in Nat /\ (crashes = 0 => up /\ Present)
<1>1. Init => First
  BY DEF Init, Present, Complete, Is
<1>2. CacheInv /\ First /\ [Next]_vars => First'
  <2> SUFFICES ASSUME CacheInv, First, [Next]_vars PROVE First'
    OBVIOUS
  <2>1. CASE UNCHANGED vars
    <3>1. UNCHANGED <<crashes, up, entries, blobs>>
      BY <2>1 DEF vars, server, memory, disk
    <3>2. UNCHANGED Present
      BY <3>1, SameEntries DEF Present
    <3> QED
      BY <3>1, <3>2
  <2>2. CASE Next /\ UNCHANGED <<crashes, up>>
    <3>1. up => ~Restart
      BY DEF Restart
    <3> QED
      BY <2>2, <3>1, NextPresent
  <2>3. CASE Crash \/ Restart
    <3>1. crashes' \in Nat /\ crashes' # 0
      BY <2>3 DEF Crash, Restart
    <3> QED
      BY <3>1
  <2>4. Next => UNCHANGED <<crashes, up>> \/ Crash \/ Restart
    <3>1. ASSUME NEW h \in Handlers, HandlerSteps(h) PROVE UNCHANGED <<crashes, up>>
      BY <3>1 DEF HandlerSteps, Refuse, FoundOwn, TooLate, OpenUpload, Reserve, WriteBlob,
         PutBlock, CommitBlocks, Finalize
    <3>2. CASE \/ Machines /\ UNCHANGED server
               \/ \E h \in Handlers, r \in Runners, a \in Addrs, op \in Ops, key \in Keys :
                     Send(h, r, a, op, key)
               \/ \E key \in Keys : GetURL(key)
               \/ \E id \in Ids : GrowsOld(id)
               \/ \E ok \in BOOLEAN : Gc(ok)
      BY <3>2 DEF server, Send, GetURL, GrowsOld, Gc
    <3> QED
      BY <3>1, <3>2 DEF Next
  <2> QED
    BY <2>1, <2>2, <2>3, <2>4
<1>3. First => (crashes = 0 => CompleteRestorable)
  BY DEF Present, CompleteRestorable
<1> QED
  BY <1>1, <1>2, <1>3, SpecCache, PTL DEF Spec

-----------------------------------------------------------------------------
(* Requests that wait.                                                     *)

\* Whoever waits for ioMu, and whoever holds it while a body arrives, found the
\* entry as its own, so that only one guest's requests are ever at an entry.
THEOREM StallsHold == Spec => []StallsOwnOnly
<1>1. CacheInv => StallsOwnOnly
  <2> SUFFICES ASSUME CacheInv, NEW g \in Handlers, NEW h \in Handlers,
                      handler[g] # Idle, handler[h] # Idle,
                      handler[h].at = "io", Holds(g, handler[h].id)
               PROVE  handler[h].by = handler[g].by
    BY DEF StallsOwnOnly
  <2>1. entries[handler[h].id].by = handler[h].by
    BY DEF CacheInv, SaveInv, Requests
  <2>2. handler[g].id = handler[h].id /\ entries[handler[g].id].by = handler[g].by
    BY DEF Holds, CacheInv, SaveInv, Writers
  <2> QED
    BY <2>1, <2>2
<1> QED
  BY <1>1, SpecCache, PTL

-----------------------------------------------------------------------------
(* What the cache server relies on of Leases, for any numbers of machines  *)
(* and addresses.                                                          *)

\* OwnRecord alone is not inductive: a machine could arrive at an address where a
\* record of an earlier one was left.
NothingLeft == \A a \in Addrs : occupant[a] = Nobody => record[a] = NoRecord

LeasesInv == LeasesTypeOK /\ NothingLeft /\ OwnRecord

\* Each step of the protocol keeps the types, and leaves no record at a free
\* address or another's at one in use.
LEMMA LeasesStep ==
    ASSUME LeasesInv, [LeasesNext]_leases
    PROVE  LeasesInv'
<1> USE LeasesAssumption DEF LeasesInv, LeasesTypeOK, NothingLeft, OwnRecord, Records
<1>1. CASE UNCHANGED leases
  BY <1>1 DEF leases
<1>2. ASSUME NEW a \in Addrs, NEW r \in Runners, Arrives(a, r)
      PROVE  LeasesInv'
  BY <1>2 DEF Arrives
<1>3. ASSUME NEW a \in Addrs, NEW r \in Runners, Publishes(a, r)
      PROVE  LeasesInv'
  BY <1>3 DEF Publishes, Published
<1>4. ASSUME NEW a \in Addrs, NEW r \in Runners, Leaves(a, r)
      PROVE  LeasesInv'
  BY <1>4 DEF Leaves
<1>5. ASSUME NEW a \in Addrs, NEW r \in Runners, NEW rights \in {"granted", "refused"},
             Answers(a, r, rights)
      PROVE  LeasesInv'
  BY <1>5 DEF Answers, Published
<1>6. CASE Ends
  BY <1>6 DEF Ends
<1>7. CASE Returns
  BY <1>7 DEF Returns
<1> QED
  BY <1>1, <1>2, <1>3, <1>4, <1>5, <1>6, <1>7 DEF LeasesNext

\* The identity a cache server finds at the address of a machine is that
\* machine's, however often the address was used before: Registry.Register and
\* Release, and what Start's goroutine publishes late, never leave another's.
THEOREM RecordIsOwn == LeasesSpec => []OwnRecord
<1>1. LeasesInit => LeasesInv
  BY LeasesAssumption DEF LeasesInit, LeasesInv, LeasesTypeOK, NothingLeft, OwnRecord
<1>2. LeasesInv /\ [LeasesNext]_leases => LeasesInv'
  BY LeasesStep
<1>3. LeasesInv => OwnRecord
  BY DEF LeasesInv
<1> QED
  BY <1>1, <1>2, <1>3, PTL DEF LeasesSpec
=============================================================================
