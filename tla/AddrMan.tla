------------------------------ MODULE AddrMan ------------------------------
(***************************************************************************)
(* The address manager (CAddrMan, src/addrman.cpp, src/addrman.h): the     *)
(* addresses of peers the node has heard of (the "new" table, in which an  *)
(* address may stand in several buckets) and of those it has connected to  *)
(* (the "tried" table, one place each), the index from an IP to its entry, *)
(* the vector of all entries in random order, and the file peers.dat they  *)
(* survive a restart in.                                                   *)
(*                                                                         *)
(* Every public operation holds CAddrMan::cs, so each is one step.  Which  *)
(* bucket and which position of it an address belongs to is a hash keyed   *)
(* with nKey: the functions are constants here, given so that addresses    *)
(* collide.  Times are not kept: what the code decides by the age of an    *)
(* entry or of its last try may go either way.                             *)
(***************************************************************************)
EXTENDS Integers, Sequences, FiniteSets, FiniteSetsExt, SequencesExt

CONSTANTS Services,                         \* addresses with their ports
          IpOf(_),                          \* the CNetAddr of a CService
          Sources,                          \* who tells us of addresses
          Keys,                             \* values of the secret nKey
          NewBuckets, TriedBuckets, Positions,
          GetNewBucket(_, _, _),            \* key, service, source
          GetTriedBucket(_, _),             \* key, service
          GetBucketPosition(_, _, _, _),    \* key, service, fNew, bucket
          ADDRMAN_NEW_BUCKETS_PER_ADDRESS, ADDRMAN_RETRIES,
          ADDRMAN_MAX_FAILURES,
          MaxIds                            \* bound: entries ever created

VARIABLES man       \* the CAddrMan object

vars == <<man>>

Nobody == -1        \* an empty place of a bucket

(* CAddrInfo(addr, source): an entry with no history.                      *)
CAddrInfo(s, source) ==
    [service |-> s, source |-> source, fSuccess |-> FALSE, nAttempts |-> 0,
     nRefCount |-> 0, fInTried |-> FALSE, nRandomPos |-> 0]

(* Clear: nothing known, a fresh key.                                      *)
Clear(k) ==
    [nKey |-> k, nIdCount |-> 0, mapInfo |-> << >>, mapAddr |-> << >>,
     vRandom |-> << >>, nNew |-> 0, nTried |-> 0,
     vvNew |-> [p \in NewBuckets \X Positions |-> Nobody],
     vvTried |-> [p \in TriedBuckets \X Positions |-> Nobody],
     asserts |-> TRUE]

Assert_(m, condition) == [m EXCEPT !.asserts = @ /\ condition]

Without(f, x) == [y \in DOMAIN f \ {x} |-> f[y]]

With(f, x, v) == [y \in DOMAIN f \cup {x} |-> IF y = x THEN v ELSE f[y]]

NewPlace(m, s, bucket) == <<bucket, GetBucketPosition(m.nKey, s, TRUE, bucket)>>

TriedPlace(m, s) ==
    LET b == GetTriedBucket(m.nKey, s)
    IN  <<b, GetBucketPosition(m.nKey, s, FALSE, b)>>

(* IsTerrible: bad enough to be forgotten.  when says whether nLastTry is  *)
(* within the last minute, nTime beyond ADDRMAN_HORIZON_DAYS and           *)
(* nLastSuccess (fSuccess: not 0) beyond ADDRMAN_MIN_FAIL_DAYS.            *)
IsTerrible(info, when) ==
    /\ ~when.justTried
    /\ \/ when.notSeen
       \/ ~info.fSuccess /\ info.nAttempts >= ADDRMAN_RETRIES
       \/ when.failing /\ info.nAttempts >= ADDRMAN_MAX_FAILURES

(* Find looks an entry up by IP, whatever the port: none, or one, id.      *)
Find(m, s) == IF IpOf(s) \in DOMAIN m.mapAddr THEN {m.mapAddr[IpOf(s)]} ELSE {}

(* Create: a new entry, at the end of the random order.                    *)
Create(m, s, source) ==
    [m EXCEPT !.nIdCount = @ + 1,
              !.mapInfo = With(@, m.nIdCount, [CAddrInfo(s, source)
                                 EXCEPT !.nRandomPos = Len(m.vRandom) + 1]),
              !.mapAddr = With(@, IpOf(s), m.nIdCount),
              !.vRandom = Append(@, m.nIdCount)]

SwapRandom(m, i, j) ==
    IF i = j THEN m
    ELSE LET a == m.vRandom[i]
             b == m.vRandom[j]
         IN  Assert_([m EXCEPT !.mapInfo[a].nRandomPos = j,
                               !.mapInfo[b].nRandomPos = i,
                               !.vRandom = [@ EXCEPT ![i] = b, ![j] = a]],
                     {a, b} \subseteq DOMAIN m.mapInfo)

(* A mutant: Delete leaves the place of the swapped entry as it was.       *)
DeleteUnswapped(m, id) ==
    LET info == m.mapInfo[id]
    IN  [m EXCEPT !.vRandom = Front([@ EXCEPT ![info.nRandomPos] = Last(m.vRandom)]),
                  !.mapAddr = Without(@, IpOf(info.service)),
                  !.mapInfo = Without(@, id),
                  !.nNew = @ - 1]

(* Delete: only an entry no bucket refers to any more.                     *)
Delete(m, id) ==
    LET info == m.mapInfo[id]
        n == SwapRandom(Assert_(m, ~info.fInTried /\ info.nRefCount = 0),
                        info.nRandomPos, Len(m.vRandom))
    IN  [n EXCEPT !.vRandom = Front(@),
                  !.mapAddr = Without(@, IpOf(info.service)),
                  !.mapInfo = Without(@, id),
                  !.nNew = @ - 1]

(* ClearNew: whoever stands there loses a reference, and with the last one *)
(* its entry.                                                              *)
ClearNew(m, place) ==
    LET id == m.vvNew[place]
        n == Assert_([m EXCEPT !.vvNew[place] = Nobody,
                               !.mapInfo[id].nRefCount = @ - 1],
                     m.mapInfo[id].nRefCount > 0)
    IN  IF id = Nobody THEN m
        ELSE IF n.mapInfo[id].nRefCount = 0 THEN Delete(n, id) ELSE n

(* A mutant: whoever stood in the tried place is forgotten.               *)
MakeTriedAlone(m, id) ==
    LET s == m.mapInfo[id].service
        mine == {p \in NewBuckets \X Positions :
                    p = NewPlace(m, s, p[1]) /\ m.vvNew[p] = id}
        left == [m EXCEPT
                   !.vvNew = [p \in DOMAIN @ |-> IF p \in mine THEN Nobody ELSE @[p]],
                   !.mapInfo[id].nRefCount = 0]
        place == TriedPlace(m, s)
        old == left.vvTried[place]
        room == IF old = Nobody THEN [left EXCEPT !.nNew = @ - 1, !.nTried = @ + 1]
                ELSE Delete([left EXCEPT !.mapInfo[old].fInTried = FALSE], old)
    IN  [room EXCEPT !.vvTried[place] = id, !.mapInfo[id].fInTried = TRUE]

(* MakeTried: the entry leaves all its new buckets for its one tried       *)
(* place; whoever stood there goes back to the new bucket of its source,   *)
(* and what stands there loses that place.                                 *)
MakeTried(m, id) ==
    LET s == m.mapInfo[id].service
        mine == {p \in NewBuckets \X Positions :
                    p = NewPlace(m, s, p[1]) /\ m.vvNew[p] = id}
        left == [m EXCEPT
                   !.vvNew = [p \in DOMAIN @ |-> IF p \in mine THEN Nobody ELSE @[p]],
                   !.mapInfo[id].nRefCount = @ - Cardinality(mine),
                   !.nNew = @ - 1]
        place == TriedPlace(m, s)
        old == left.vvTried[place]
        back == NewPlace(m, m.mapInfo[old].service,
                         GetNewBucket(m.nKey, m.mapInfo[old].service,
                                      m.mapInfo[old].source))
        free == ClearNew([left EXCEPT !.mapInfo[old].fInTried = FALSE,
                                      !.nTried = @ - 1], back)
        room == IF old = Nobody THEN left
                ELSE [free EXCEPT !.mapInfo[old].nRefCount = 1,
                                  !.vvNew[back] = old,
                                  !.nNew = @ + 1]
    IN  Assert_([room EXCEPT !.vvTried[place] = id, !.nTried = @ + 1,
                             !.mapInfo[id].fInTried = TRUE],
                left.mapInfo[id].nRefCount = 0)

-----------------------------------------------------------------------------
(* Good_: a peer at this very address and port answered.                   *)
Good_(m, s) ==
    LET ids == {i \in Find(m, s) : m.mapInfo[i].service = s}
    IN  IF ids = {} THEN m
        ELSE LET id == CHOOSE i \in ids : TRUE
                 n == [m EXCEPT !.mapInfo[id].fSuccess = TRUE,
                                !.mapInfo[id].nAttempts = 0]
                 places == {p \in NewBuckets \X Positions :
                              p = NewPlace(m, s, p[1]) /\ m.vvNew[p] = id}
             IN  IF m.mapInfo[id].fInTried \/ places = {} THEN n
                 ELSE MakeTried(n, id)

(* Add_'s second half: a place in the bucket the source selects, which the *)
(* entry takes if it is free, if a terrible entry stands there, or if that *)
(* one has other places and the new one none.                              *)
Place(m, id, source, when) ==
    LET s == m.mapInfo[id].service
        place == NewPlace(m, s, GetNewBucket(m.nKey, s, source))
        there == m.vvNew[place]
        fInsert == \/ there = Nobody
                   \/ IsTerrible(m.mapInfo[there], when)
                   \/ /\ m.mapInfo[there].nRefCount > 1
                      /\ m.mapInfo[id].nRefCount = 0
    IN  IF there = id THEN m
        ELSE IF fInsert
             THEN [ClearNew(m, place) EXCEPT !.mapInfo[id].nRefCount = @ + 1,
                                             !.vvNew[place] = id]
        ELSE IF m.mapInfo[id].nRefCount = 0 THEN Delete(m, id) ELSE m

(* Add_: a known address perhaps gets one more place, an unknown one gets  *)
(* an entry first.  when.again says that the time told is later than ours  *)
(* and that the stochastic test lets the entry have one more place.        *)
Add_(m, s, source, when) ==
    IF Find(m, s) = {}
    THEN Place([Create(m, s, source) EXCEPT !.nNew = @ + 1], m.nIdCount, source, when)
    ELSE LET id == m.mapAddr[IpOf(s)]
             info == m.mapInfo[id]
         IN  IF \/ ~when.again
                \/ info.fInTried
                \/ info.nRefCount = ADDRMAN_NEW_BUCKETS_PER_ADDRESS
             THEN m
             ELSE Place(m, id, source, when)

(* Attempt_: we tried to connect to this very address and port.            *)
Attempt_(m, s) ==
    [m EXCEPT !.mapInfo = [i \in DOMAIN @ |->
        IF i \in Find(m, s) /\ @[i].service = s
        THEN [@[i] EXCEPT !.nAttempts = @ + 1] ELSE @[i]]]

(* mapUnkIds: the index an entry of the new table has in the file.         *)
UnkId(m, id) ==
    Cardinality({i \in DOMAIN m.mapInfo : i <= id /\ m.mapInfo[i].nRefCount # 0})

(* Serialize: the entries with a place in new, then the tried ones, and    *)
(* for every new bucket the indices of the entries that stand in it.       *)
Serialize(m) ==
    LET Entries(P(_)) == SetToSortSeq({i \in DOMAIN m.mapInfo : P(m.mapInfo[i])}, <)
        HasPlace(info) == info.nRefCount # 0
        InTried(info) == info.fInTried
        newIds == Entries(HasPlace)
        triedIds == Entries(InTried)
        Kept(i) == [m.mapInfo[i] EXCEPT !.nRefCount = 0, !.fInTried = FALSE,
                                        !.nRandomPos = 0]
    IN  [nKey |-> m.nKey, nNew |-> m.nNew, nTried |-> m.nTried,
         news |-> [k \in DOMAIN newIds |-> Kept(newIds[k])],
         trieds |-> [k \in DOMAIN triedIds |-> Kept(triedIds[k])],
         buckets |-> [b \in NewBuckets |->
                        {UnkId(m, m.vvNew[<<b, p>>]) :
                            p \in {q \in Positions : m.vvNew[<<b, q>>] # Nobody}}]]

(* Unserialize: the entries anew, numbered from 0 with the tried ones      *)
(* last, a tried one only if its place is free; the places of the new      *)
(* table from the bucket lists; entries that got no place are deleted.     *)
ReadNew(f) ==
    FoldLeft(LAMBDA m, info :
                    [Create(m, info.service, info.source) EXCEPT
                       !.mapInfo[m.nIdCount].fSuccess = info.fSuccess,
                       !.mapInfo[m.nIdCount].nAttempts = info.nAttempts],
                 [Clear(f.nKey) EXCEPT !.nNew = f.nNew, !.nTried = f.nTried],
                 f.news)

ReadTried(f) ==
    FoldLeft(LAMBDA m, info :
                    LET place == TriedPlace(m, info.service)
                    IN  IF m.vvTried[place] # Nobody THEN [m EXCEPT !.nTried = @ - 1]
                        ELSE [Create(m, info.service, info.source) EXCEPT
                                !.mapInfo[m.nIdCount].fSuccess = info.fSuccess,
                                !.mapInfo[m.nIdCount].nAttempts = info.nAttempts,
                                !.mapInfo[m.nIdCount].fInTried = TRUE,
                                !.vvTried[place] = m.nIdCount],
                 ReadNew(f), f.trieds)

Unserialize(f) ==
    LET placed ==
          FoldSet(LAMBDA e, m :
                    LET info == m.mapInfo[e[2] - 1]
                        place == NewPlace(m, info.service, e[1])
                    IN  IF \/ m.vvNew[place] # Nobody
                           \/ info.nRefCount >= ADDRMAN_NEW_BUCKETS_PER_ADDRESS
                        THEN m
                        ELSE [m EXCEPT !.vvNew[place] = e[2] - 1,
                                       !.mapInfo[e[2] - 1].nRefCount = @ + 1],
                  ReadTried(f),
                  {<<b, k>> \in NewBuckets \X DOMAIN f.news : k \in f.buckets[b]})
    IN  FoldSet(LAMBDA id, m : Delete(m, id), placed,
                {i \in DOMAIN placed.mapInfo :
                    ~placed.mapInfo[i].fInTried /\ placed.mapInfo[i].nRefCount = 0})
-----------------------------------------------------------------------------
(* What the clock may say when an address is told.                        *)
Whens == [justTried : BOOLEAN, notSeen : BOOLEAN, failing : BOOLEAN, again : BOOLEAN]

Init == \E k \in Keys : man = Clear(k)

(* Add, for one address of an addr message, a DNS seed or a fixed seed.    *)
Add ==
    /\ man.nIdCount < MaxIds
    /\ \E s \in Services, source \in Sources, when \in Whens :
          man' = Add_(man, s, source, when)

(* Good, when the version handshake of a peer we connected to completes.   *)
Good == \E s \in Services : man' = Good_(man, s)

(* Attempt, at every attempt to connect (the bound keeps nAttempts small). *)
Attempt ==
    \E s \in Services :
        /\ \A i \in Find(man, s) : man.mapInfo[i].nAttempts < ADDRMAN_MAX_FAILURES
        /\ man' = Attempt_(man, s)

(* GetAddr_ shuffles the front of the random order as it picks entries.    *)
GetAddr ==
    \E i, j \in 1..Len(man.vRandom) : i < j /\ man' = SwapRandom(man, i, j)

(* A restart: StopNode dumps the addresses, StartNode reads them.  A crash *)
(* reads an older dump, which is what an earlier state would have written. *)
Restart == man' = Unserialize(Serialize(man))

Next == Add \/ Good \/ Attempt \/ GetAddr \/ Restart

Spec == Init /\ [][Next]_vars
-----------------------------------------------------------------------------
(* The variables have the types their declarations give them.              *)
TypeOK ==
    /\ man.asserts \in BOOLEAN
    /\ DOMAIN man.mapInfo \subseteq 0..MaxIds
    /\ \A i \in DOMAIN man.mapInfo :
          man.mapInfo[i].service \in Services /\ man.mapInfo[i].source \in Sources

(* Check_: the consistency check of the whole structure that a build with  *)
(* DEBUG_ADDRMAN runs before and after every operation.                    *)
Check_(m) ==
    LET ids == DOMAIN m.mapInfo
        triedIds == {i \in ids : m.mapInfo[i].fInTried}
        newIds == ids \ triedIds
        PlacesOf(table, i) == {p \in DOMAIN table : table[p] = i}
    IN  /\ Len(m.vRandom) = m.nTried + m.nNew
        /\ \A i \in ids :
              LET info == m.mapInfo[i]
              IN  /\ IF info.fInTried
                     THEN info.fSuccess /\ info.nRefCount = 0
                     ELSE info.nRefCount \in 1..ADDRMAN_NEW_BUCKETS_PER_ADDRESS
                  /\ IpOf(info.service) \in DOMAIN m.mapAddr
                  /\ m.mapAddr[IpOf(info.service)] = i
                  /\ info.nRandomPos \in 1..Len(m.vRandom)
                  /\ m.vRandom[info.nRandomPos] = i
        /\ Cardinality(triedIds) = m.nTried
        /\ Cardinality(newIds) = m.nNew
        /\ \A i \in triedIds : PlacesOf(m.vvTried, i) = {TriedPlace(m, m.mapInfo[i].service)}
        /\ \A i \in newIds :
              /\ Cardinality(PlacesOf(m.vvNew, i)) = m.mapInfo[i].nRefCount
              /\ \A p \in PlacesOf(m.vvNew, i) :
                    p = NewPlace(m, m.mapInfo[i].service, p[1])
        /\ \A p \in DOMAIN m.vvTried : m.vvTried[p] \in triedIds \cup {Nobody}
        /\ \A p \in DOMAIN m.vvNew : m.vvNew[p] \in newIds \cup {Nobody}

(* The tables and the indexes agree after every operation: Check_ finds    *)
(* nothing, no assertion of Delete, ClearNew, MakeTried or SwapRandom      *)
(* fails, and the search of Good_ for a place of a new entry, which bails  *)
(* out "if no bucket is found, something bad happened", always finds one.  *)
TablesConsistent == man.asserts /\ Check_(man)

(* What a table looks like without the numbers of its entries.             *)
Content(m) ==
    [services |-> {m.mapInfo[i].service : i \in DOMAIN m.mapInfo},
     trieds   |-> {m.mapInfo[i].service : i \in {j \in DOMAIN m.mapInfo : m.mapInfo[j].fInTried}},
     places   |-> {<<p, m.mapInfo[m.vvNew[p]].service>> :
                     p \in {q \in DOMAIN m.vvNew : m.vvNew[q] # Nobody}}]

(* A restart loses and moves nothing: what Unserialize rebuilds from the   *)
(* file Serialize wrote has the same addresses, the same of them tried,    *)
(* and every one in the same new buckets, although ids, reference counts,  *)
(* the tried table and the indexes are not in the file.                    *)
RestartKeeps ==
    LET m == Unserialize(Serialize(man))
    IN  Content(m) = Content(man) /\ m.asserts /\ Check_(m)

(* An address the node has connected to is not forgotten at once: the      *)
(* collision that takes it out of the tried table puts it back into a new  *)
(* bucket in the same operation.                                           *)
TriedNotForgotten ==
    [][Content(man).trieds \subseteq Content(man').services]_vars
=============================================================================
