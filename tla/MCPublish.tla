----------------------------- MODULE MCPublish -----------------------------
(***************************************************************************)
(* Small instances of the publication engine.                              *)
(***************************************************************************)
EXTENDS PublishInv, TLC

CONSTANTS c1, c2, o1, o2, o3, w1, w2, t1, t2

Set(o, t, fence)   == [op |-> o, mutation |-> [kind |-> "set-target", target |-> t, fence |-> fence]]
Take(o, w, steal)  == [op |-> o, mutation |-> [kind |-> "claim", writer |-> w, steal |-> steal]]
Free(o, fence, w)  == [op |-> o, mutation |-> [kind |-> "release", fence |-> fence, writer |-> w]]

\* One id retried, the same id misused for another target, and a rival id.
RetryCalls == {Set(o1, t1, None), Set(o1, t2, None), Set(o2, t2, None)}

\* Two writers contend for the lease while fenced and unfenced writes race them.
FenceCalls == {Take(o1, w1, FALSE), Take(o2, w2, TRUE), Set(o3, t1, None), Set(o3, t1, 1)}

ReleaseCalls == {Take(o1, w1, FALSE), Take(o2, w2, FALSE), Free(o3, 1, w1), Free(o3, 1, None)}

ClientSymmetry == Permutations(Client)
=============================================================================
