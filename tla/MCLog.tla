------------------------------- MODULE MCLog -------------------------------
(* An instance of the log store.  Appends and compactions come through       *)
(* handles of either mode, one operation id even through both.               *)
EXTENDS LogProps

CONSTANTS w1, w2, t1, t2, p, q

AppendJob(op, writer, feed, payloads) ==
  [kind |-> "append", op |-> op, writer |-> writer, feed |-> feed, payloads |-> payloads]
StableJob(key, payload) ==
  [kind |-> "stable", op |-> key, writer |-> w1, feed |-> "complete", payloads |-> <<payload>>]

MCJob == {
  AppendJob("o1", w1, "trimmable", <<p>>),
  AppendJob("o2", w2, "trimmable", <<p, q>>),
  AppendJob("o1", w1, "complete", <<p>>),
  StableJob("k", p), StableJob("k", q),
  [kind |-> "steal", op |-> "o4", writer |-> w2],
  [kind |-> "compact", op |-> "o5", feed |-> "trimmable"],
  [kind |-> "compact", op |-> "o5", feed |-> "complete"],
  [kind |-> "trim", op |-> "o6", feed |-> "trimmable", before |-> 2]}

TaskSymmetry == Permutations(Task)
=============================================================================
