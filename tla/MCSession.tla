----------------------------- MODULE MCSession -----------------------------
(* Two sessions: two concurrent calls on the first, one on the second, whose *)
(* clock is ahead by the whole slack.                                        *)
EXTENDS SessionProps

CONSTANTS s1, s2, t1, t2, t3, k1, k2, p1, p2

MCOf(t)  == IF t = t3 THEN s2 ELSE s1
MCSkew   == [s \in {s1, s2} |-> IF s = s2 THEN Slack ELSE 0]

Call(kind)     == [kind |-> kind, key |-> None, payload |-> None]
AppendOf(k, p) == [kind |-> "append", key |-> k, payload |-> p]

MCJob(t) ==
  CASE t = t1 -> {Call("ready"), Call("close")}
    [] t = t2 -> {AppendOf(k1, p1)}
    [] t = t3 -> {AppendOf(k1, p1), AppendOf(k1, p2)}
=============================================================================
