------------------------------ MODULE MCGroup ------------------------------
(***************************************************************************)
(* Small instances of group commit.                                        *)
(***************************************************************************)
EXTENDS GroupProps, TLC

CONSTANTS l1, l2, l3, o1, o2, o3

Give(o, payload) == [op |-> o, payload |-> payload]

SomeEvents == {"a", "b", "c"}

SomePayloads == {<<"a">>, <<"b">>, <<"b", "c">>}

\* Two batches share a companion, which also is the leader of one of them.
SharedBatches == {<<Give(o1, <<"a">>), Give(o2, <<"b", "c">>)>>, <<Give(o2, <<"b", "c">>), Give(o3, <<"a">>)>>}

OneBatch == {<<Give(o1, <<"a">>), Give(o2, <<"b", "c">>)>>}

\* The leader is submitted twice, and the companion's id for two payloads.
DoubledBatch == {<<Give(o1, <<"a">>), Give(o2, <<"b", "c">>), Give(o1, <<"a">>), Give(o2, <<"b">>)>>}

CompanionAppend == {Give(o2, <<"b", "c">>), Give(o3, <<"a">>)}

Nobody == {}

\* An id of the batch is misused for a payload no other submission has.
MisusedAppend == {Give(o2, <<"b">>), Give(o2, <<"b", "c">>)}

\* A companion's id is presented again with the payload of its leader.
LeadersPayload == {Give(o2, <<"a">>)}

TaskSymmetry == Permutations(GroupTask)
=============================================================================
