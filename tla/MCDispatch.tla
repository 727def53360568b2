----------------------------- MODULE MCDispatch -----------------------------
(* Small instances of Dispatch for TLC.                                    *)
EXTENDS Dispatch, TLC

CONSTANTS tf, j, k, x, c, e, l, v

NoRuns == {}

\* The kinds of the steps; each configuration takes some of them.
KindTable ==
  (tf :> "transform_chip") @@ (j :> "job") @@ (k :> "job")
    @@ (c :> "plain_chip") @@ (e :> "extract_chip") @@ (x :> "extract") @@ (l :> "load")
    @@ (v :> "serve_chip")

KindOfStep == [s \in Step |-> KindTable[s]]

\* Every step is of a chip of its own.
ChipOfStep == [s \in Step |-> s]

AllStandalone == [s \in Step |-> NoRun]

TaskSymmetry == Permutations(Task)
=============================================================================
