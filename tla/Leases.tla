------------------------------- MODULE Leases --------------------------------
(***************************************************************************)
(* What a guest address of the host promises to whoever reads the identity *)
(* published at it: one machine uses it at a time, the record found there  *)
(* is that machine's and only gains an answer, and once a machine has left *)
(* an address nothing of it is ever published again.  Host.tla implements  *)
(* this; CacheServer.tla relies on it.                                     *)
(***************************************************************************)
CONSTANTS
    Runners,     \* machines; a runner's name is used once and is its generation
    Addrs,       \* guest addresses
    Nobody,      \* the address is free
    Unusable,    \* it is not given out: quarantined, or the process is down
    NoRecord     \* no identity is published there

Records == [gen : Runners, rights : {"pending", "granted", "refused"}]

ASSUME LeasesAssumption ==
    /\ {Nobody, Unusable} \cap Runners = {} /\ Nobody # Unusable
    /\ NoRecord \notin Records

VARIABLES
    occupant,    \* who uses an address
    record,      \* what is published at it
    past         \* machines that have had an address

leases == <<occupant, record, past>>

LeasesTypeOK ==
    /\ occupant \in [Addrs -> Runners \cup {Nobody, Unusable}]
    /\ record \in [Addrs -> Records \cup {NoRecord}]
    /\ past \subseteq Runners

LeasesInit ==
    /\ occupant = [a \in Addrs |-> Nobody]
    /\ record = [a \in Addrs |-> NoRecord]
    /\ past = {}

Published(a, r, rights) == record' = [record EXCEPT ![a] = [gen |-> r, rights |-> rights]]

Arrives(a, r) ==
    /\ occupant[a] = Nobody /\ r \notin past
    /\ occupant' = [occupant EXCEPT ![a] = r]
    /\ past' = past \cup {r}
    /\ UNCHANGED record

Publishes(a, r) ==
    /\ occupant[a] = r /\ record[a] = NoRecord
    /\ Published(a, r, "pending")
    /\ UNCHANGED <<occupant, past>>

\* The job's rights are known, or will never be.
Answers(a, r, rights) ==
    /\ occupant[a] = r /\ record[a] = [gen |-> r, rights |-> "pending"]
    /\ Published(a, r, rights)
    /\ UNCHANGED <<occupant, past>>

\* A machine leaves: its record goes with it, or the address is not used again.
Leaves(a, r) ==
    /\ occupant[a] = r
    /\ \/ /\ occupant' = [occupant EXCEPT ![a] = Nobody]
          /\ record' = [record EXCEPT ![a] = NoRecord]
       \/ occupant' = [occupant EXCEPT ![a] = Unusable] /\ UNCHANGED record
    /\ UNCHANGED past

\* The daemon ends, with its machines; what it published stays until it is back.
Ends ==
    /\ occupant' = [a \in Addrs |-> Unusable]
    /\ UNCHANGED <<record, past>>

Returns ==
    /\ \A a \in Addrs : occupant[a] = Unusable
    /\ occupant' = [a \in Addrs |-> Nobody]
    /\ record' = [a \in Addrs |-> NoRecord]
    /\ UNCHANGED past

LeasesNext ==
    \/ \E a \in Addrs, r \in Runners :
          \/ Arrives(a, r) \/ Publishes(a, r) \/ Leaves(a, r)
          \/ \E rights \in {"granted", "refused"} : Answers(a, r, rights)
    \/ Ends \/ Returns

LeasesSpec == LeasesInit /\ [][LeasesNext]_leases

-----------------------------------------------------------------------------
\* The record at an address in use is its user's.
OwnRecord ==
    \A a \in Addrs :
        occupant[a] \in Runners /\ record[a] # NoRecord => record[a].gen = occupant[a]
=============================================================================
