--------------------------- MODULE StorageQuorums ---------------------------
(***************************************************************************)
(* How FileStorageClient (packages/file-storage/src/client.ts) reads from  *)
(* and writes to the nodes of a committee, of which each keeps some of the *)
(* shards: one call of getBlobMetadata, getSlivers, getVerifiedBlobStatus  *)
(* or writeEncodedBlobToNodes.  Loops (lanes) ask one node after another,  *)
(* count what they are told, and settle the promise of the call.           *)
(* Faulty nodes, of at most as many shards as the code tolerates, answer   *)
(* anything; any request may fail.  The caller's own signal is left out.   *)
(***************************************************************************)
EXTENDS Integers, Sequences, FiniteSets, SequencesExt

CONSTANTS Nodes,   \* the committee
          Holder,  \* the node of each shard
          Limits   \* values of #blobMetadataConcurrencyLimit

ASSUME QuorumsAssumption == /\ IsFiniteSet(Nodes) /\ IsFiniteSet(DOMAIN Holder)
                            /\ DOMAIN Holder # {} /\ Holder \in [DOMAIN Holder -> Nodes]
                            /\ Limits \subseteq Nat \ {0}

VARIABLES kind,     \* which of the four functions is called
          limit,    \* its #blobMetadataConcurrencyLimit
          truth,    \* what correct nodes know: "ok", "notFound" or "blocked"
          faulty,   \* nodes that may lie
          lanes,    \* the nodes, or shards, each loop still asks for, the first of them now
          caught,   \* lanes whose executor has failed and whose catch block is due
          told,     \* weight of each answer: slivers, successWeight, numNotFoundWeight..
          errors,   \* totalErrorCount or failures
          failed,   \* nodes that failed a request; failedNodes
          outcome   \* how the promise was settled, or "none"

quorums == <<kind, limit, truth, faulty, lanes, caught, told, errors, failed, outcome>>
call == <<kind, limit, truth, faulty>>

Held(S) == {d \in DOMAIN Holder : Holder[d] \in S}   \* shardIndices
ShardsOf(S) == Cardinality(Held(S))
NShards == Cardinality(DOMAIN Holder)

\* getMaxFaultyNodes, isQuorum, isAboveValidity and getSourceSymbols of RS2
MaxFaulty == (NShards - 1) \div 3
IsQuorum(size) == size > 2 * MaxFaulty
IsAboveValidity(size) == size > MaxFaulty
MinSymbols == NShards - 2 * MaxFaulty

Ceil(a, b) == (a + b - 1) \div b
Chunk(s, size) ==
    [i \in 1..Ceil(Len(s), size) |-> SubSeq(s, (i - 1) * size + 1, Min({i * size, Len(s)}))]

\* Shards in the order of their nodes, in rows of minSymbols; a lane is a column.
Columns(order) ==
    LET pairs == FoldLeft(LAMBDA s, m : s \o SetToSeq(Held({m})), <<>>, order)
    IN [c \in 1..MinSymbols |->
          [r \in 1..Ceil(NShards - c + 1, MinSymbols) |-> pairs[c + (r - 1) * MinSymbols]]]

Lanes(k, order) == CASE k = "metadata" -> <<order>>
                     [] k = "slivers" -> Columns(order)
                     [] OTHER -> Chunk(order, 1)

QuorumsInit ==
    /\ kind \in {"metadata", "slivers", "status", "write"}
    /\ limit \in Limits /\ (kind # "metadata" => limit = Max(Limits))
    /\ truth \in {"ok", "notFound", "blocked"} /\ (kind = "write" => truth = "ok")
    /\ faulty \in {S \in SUBSET Nodes : ShardsOf(S) <= MaxFaulty}
    /\ \E order \in SetToSeqs(Nodes) :
          /\ kind \in {"status", "write"} => order = SetToSeq(Nodes)
          /\ lanes = Lanes(kind, order)
    /\ caught = {} /\ failed = {} /\ errors = 0 /\ outcome = "none"
    /\ told = [a \in {"ok", "lie", "notFound", "blocked"} |-> 0]

-----------------------------------------------------------------------------
\* A request of lane i is under way; what its node may answer.
Asks(i) == outcome = "none" /\ i \in DOMAIN lanes \ caught /\ lanes[i] # <<>>
Node(x) == IF kind = "slivers" THEN Holder[x] ELSE x
MayAnswer(i) == IF Node(Head(lanes[i])) \in faulty THEN DOMAIN told ELSE {truth}
WeightAsked(i) == IF kind = "slivers" THEN 1 ELSE ShardsOf({Head(lanes[i])})

Tally(i, a) == told' = IF a \in DOMAIN told THEN [told EXCEPT ![a] = @ + WeightAsked(i)] ELSE told
Fails(i, a) == /\ a \in (MayAnswer(i) \ {"ok", "lie"}) \cup {"error"}
               /\ failed' = failed \cup {Node(Head(lanes[i]))}

\* The blob is denied by so many shards that the call can stop.
Denied(t) == IsQuorum(t["notFound"] + t["blocked"])
Denial(t) == IF t["notFound"] > t["blocked"] THEN "notCertified" ELSE "blocked"

\* getBlobMetadata: the first node alone, then the others in lanes
FirstAttempt == Len(lanes) = 1 /\ Len(lanes[1]) = Cardinality(Nodes)

MetadataArrives(i) ==
    /\ kind = "metadata" /\ Asks(i) /\ "ok" \in MayAnswer(i)
    /\ outcome' = "ok"
    /\ UNCHANGED <<call, lanes, caught, told, errors, failed>>

\* The catch block of an executor; the one of its lane runs later.
MetadataFails(i) ==
    /\ kind = "metadata" /\ Asks(i)
    /\ \E a \in {"notFound", "blocked", "error"} :
          Fails(i, a) /\ Tally(i, a)
    /\ errors' = errors + 1 /\ caught' = caught \cup {i}
    /\ UNCHANGED <<call, lanes, outcome>>

ExecutorsLeft == Cardinality(Nodes) - 1   \* metadataExecutors.length after the shift

\* Chunks of floor(length / limit) executors; of none, and an exception, if too few.
StartLanes ==
    LET size == ExecutorsLeft \div limit
    IN /\ kind = "metadata" /\ outcome = "none" /\ caught # {} /\ FirstAttempt
       /\ caught' = {}
       /\ IF size = 0 THEN outcome' = "rangeError" /\ lanes' = lanes
                      ELSE lanes' = Chunk(Tail(lanes[1]), size) /\ outcome' = outcome
       /\ UNCHANGED <<call, told, errors, failed>>

\* Mutant: a lane gives up as soon as it is through.
GivesUpEarly == \E i \in caught : Len(lanes[i]) = 1
AllFailed == errors = ExecutorsLeft

LaneCatches(i) ==
    /\ kind = "metadata" /\ outcome = "none" /\ i \in caught /\ ~ FirstAttempt
    /\ caught' = caught \ {i}
    /\ lanes' = [lanes EXCEPT ![i] = Tail(@)]
    /\ outcome' = CASE Denied(told) -> Denial(told)
                    [] ~ Denied(told) /\ AllFailed -> "tooFew"
                    [] OTHER -> "none"
    /\ UNCHANGED <<call, told, errors, failed>>

-----------------------------------------------------------------------------
\* getSlivers: the end of one request, after which the lane goes on and passes over the
\* shards of nodes that have failed, each of which counts as an error.
Passed(lane, nodes) ==
    LET left == {p \in DOMAIN lane : Holder[lane[p]] \notin nodes}
    IN IF left = {} THEN Len(lane) ELSE Min(left) - 1
GoOn(i, ended) ==
    LET passed == Passed(Tail(lanes[i]), failed')
    IN /\ lanes' = [lanes EXCEPT ![i] = SubSeq(@, 2 + passed, Len(@))]
       /\ errors' = errors + ended + passed
       /\ outcome' = IF NShards - errors' < MinSymbols THEN "tooFew" ELSE "none"

SliverArrives(i) ==
    /\ kind = "slivers" /\ Asks(i) /\ "ok" \in MayAnswer(i)
    /\ IF told["ok"] = MinSymbols THEN /\ outcome' = "ok"
                                       /\ UNCHANGED <<lanes, told, errors, failed>>
       ELSE Tally(i, "ok") /\ failed' = failed /\ GoOn(i, 0)
    /\ UNCHANGED <<call, caught>>

SliverFails(i) ==
    /\ kind = "slivers" /\ Asks(i)
    /\ \E a \in {"notFound", "blocked", "error"} : Fails(i, a) /\ Tally(i, a)
    /\ IF Denied(told') THEN outcome' = Denial(told') /\ UNCHANGED <<lanes, errors>>
                        ELSE GoOn(i, 1)
    /\ UNCHANGED <<call, caught>>

-----------------------------------------------------------------------------
\* Mutant: nobody notices that all nodes have answered.
LastUnnoticed(i, end) == lanes' = [lanes EXCEPT ![i] = <<>>] /\ outcome' = "none"

\* All nodes at once: lane i ends, and what becomes of the call when it was the last.
LastOf(i, end) == /\ lanes' = [lanes EXCEPT ![i] = <<>>]
                  /\ outcome' = IF \A j \in DOMAIN lanes \ {i} : lanes[j] = <<>> THEN end
                                                                                ELSE "none"

\* getVerifiedBlobStatus: the latest status of which enough shards speak.  A lie may
\* rank before or after the truth.
Verified ==
    LET enough == {a \in {"ok", "lie"} : IsAboveValidity(told[a])}
    IN IF enough = {} THEN {"unverified"} ELSE enough

StatusArrives(i) ==
    /\ kind = "status" /\ Asks(i)
    /\ \E a \in MayAnswer(i) \cap {"ok", "lie"} :
          IF IsQuorum(told["ok"] + told["lie"])
          THEN outcome' \in Verified /\ UNCHANGED <<lanes, told>>
          ELSE Tally(i, a) /\ LastOf(i, "tooFew")
    /\ UNCHANGED <<call, caught, errors, failed>>

StatusFails(i) ==
    /\ kind = "status" /\ Asks(i)
    /\ \E a \in {"notFound", "error"} : Fails(i, a) /\ Tally(i, a)
    /\ IF IsQuorum(told'["notFound"]) THEN outcome' = "notCertified" /\ lanes' = lanes
                                      ELSE LastOf(i, "tooFew")
    /\ UNCHANGED <<call, caught, errors>>

\* writeEncodedBlobToNodes: metadata, slivers and confirmation of a node are one request.
Stored(i) ==
    /\ kind = "write" /\ Asks(i) /\ "ok" \in MayAnswer(i)
    /\ LastOf(i, "ok")
    /\ UNCHANGED <<call, caught, told, errors, failed>>

StoreFails(i) ==
    /\ kind = "write" /\ Asks(i) /\ Fails(i, "error")
    /\ errors' = errors + WeightAsked(i)
    /\ IF IsAboveValidity(errors') THEN outcome' = "tooFew" /\ lanes' = lanes
                                   ELSE LastOf(i, "ok")
    /\ UNCHANGED <<call, caught, told>>

-----------------------------------------------------------------------------
LaneStep(i) == \/ MetadataArrives(i) \/ MetadataFails(i) \/ LaneCatches(i)
               \/ SliverArrives(i) \/ SliverFails(i)
               \/ StatusArrives(i) \/ StatusFails(i)
               \/ Stored(i) \/ StoreFails(i)

QuorumsNext == StartLanes \/ \E i \in DOMAIN lanes : LaneStep(i)

\* Every request has a timeout, and catch blocks run.
QuorumsFairness == WF_quorums(QuorumsNext)
QuorumsSpec == QuorumsInit /\ [][QuorumsNext]_quorums

-----------------------------------------------------------------------------
\* What a read or write needs of the nodes, if none of them lies.
Enough(S) == CASE kind = "metadata" -> S # {}
               [] kind = "slivers" -> ShardsOf(S) >= MinSymbols
               [] kind = "status" -> IsQuorum(ShardsOf(S))
               [] OTHER -> ShardsOf(S) >= NShards - MaxFaulty

\* Whatever faulty nodes say and in whatever order answers come, the blob is denied only if
\* correct nodes deny it, slivers and a status are found only of a blob that is there, and
\* a write is a success only if more correct shards keep it than may be faulty.
DeniedRightly == /\ outcome = "notCertified" => truth = "notFound"
                 /\ outcome = "blocked" => truth = "blocked"
FoundRightly ==
    /\ outcome = "ok" /\ kind \in {"slivers", "status"} => truth = "ok"
    /\ outcome \notin {"lie", "unverified"}
    /\ outcome = "ok" /\ kind = "write" => IsAboveValidity(ShardsOf(Nodes \ (failed \cup faulty)))

\* A call gives up only if the nodes that have not failed it are too few for what it wants.
\* There are two exceptions, by one node each: a status whose last answer is not counted,
\* so that a quorum needs it, and metadata with one node still to ask or to hear from.
LastNotCounted == /\ kind = "status" /\ \A i \in DOMAIN lanes : lanes[i] = <<>>
                  /\ \E m \in Nodes \ failed : ~ Enough(Nodes \ (failed \cup {m}))
OneNotAsked == kind = "metadata" /\ \E m \in Nodes : Nodes \ failed = {m}
GivesUpRightly ==
    outcome = "tooFew" => ~ Enough(Nodes \ failed) \/ LastNotCounted \/ OneNotAsked

\* Verdicts follow from what the nodes are like, over all orders of their answers.
VerdictIsDeserved == DeniedRightly /\ FoundRightly /\ GivesUpRightly

\* A call ends.  Two of them may be over with nothing left to answer and never settle:
\* slivers of which exactly as many have arrived as are needed, because only one more makes
\* the call resolve, and metadata whose last executors have failed in one turn, because the
\* count has passed the number that is compared with.
NobodyAsked == caught = {} /\ \A i \in DOMAIN lanes : lanes[i] = <<>>
ExactlyEnough == kind = "slivers" /\ told["ok"] = MinSymbols
CountedPast == kind = "metadata" /\ errors > ExecutorsLeft
EveryFanOutEnds == <>(outcome # "none" \/ (NobodyAsked /\ (ExactlyEnough \/ CountedPast)))
=============================================================================
