------------------------------ MODULE MCBridge ------------------------------
(* An instance of the bridge: three logs for a registry of two, the first    *)
(* two of them appended to.                                                  *)
EXTENDS BridgeProps

AppendTo(log) == [kind |-> "append", log |-> log]
HeadOf(log)   == [kind |-> "head", log |-> log]
NoLog(kind)   == [kind |-> kind, log |-> None]

MCFrame(n) ==
  CASE n = 1 -> {AppendTo("a"), HeadOf("a"), NoLog("hello")}
    [] n = 2 -> {AppendTo("a"), AppendTo("b"), NoLog("oversized")}
    [] n = 3 -> {AppendTo("a"), HeadOf("c"), NoLog("invalid")}
    [] OTHER -> {}
=============================================================================
