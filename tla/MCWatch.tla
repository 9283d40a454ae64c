------------------------------ MODULE MCWatch -------------------------------
(***************************************************************************)
(* Instances of Watch for TLC: who holds which connection and sends what.  *)
(***************************************************************************)
EXTENDS Watch, TLC

CONSTANTS t1, t2, c1, c2

\* Two clients with one connection each.
TwoClients == (t1 :> c1) @@ (t2 :> c2)
MixedModeOf == (t1 :> "command") @@ (t2 :> "watch")

WriterAndAnything == (t1 :> {"SET"}) @@ (t2 :> {"GET", "GET.WATCH", "SET", "UNWATCH"})
WriterAndWatcher == (t1 :> {"SET"}) @@ (t2 :> {"GET.WATCH"})
WriterAndUnwatcher == (t1 :> {"SET"}) @@ (t2 :> {"GET.WATCH", "UNWATCH"})
ReaderAndWriter == (t1 :> {"GET"}) @@ (t2 :> {"SET"})

=============================================================================
