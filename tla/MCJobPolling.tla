----------------------------- MODULE MCJobPolling -----------------------------
(***************************************************************************)
(* JobPolling with a second of two ticks; Retry-After is absent, zero,     *)
(* nonsensical, within MaxDelay and beyond both MaxDelay and Timeout.      *)
(***************************************************************************)
EXTENDS JobPolling

In(s) == [kind |-> "seconds", value |-> s]
At(t) == [kind |-> "date", value |-> t]

SecondsHeaders == {NoHeader, In(-1), In(0), In(1), In(3), In(9)}
AllKinds == {"ready", "attachment", "document"}
ReadyKind == {"ready"}
=============================================================================
