--------------------------- MODULE MCWorkspaceRun ---------------------------
(* Small instances of WorkspaceRun for TLC.                                *)
EXTENDS WorkspaceRun, TLC

CONSTANTS a, b, c, d, f, v, w, alone, r1, r2

\* a is an extract chip or, where the job w is there, a transform chip.
\* b, d and alone are runs of one chip: in a run, in the next run, and on its own.
KindTable ==
  (a :> IF w \in Step THEN "transform_chip" ELSE "extract_chip")
    @@ (b :> "plain_chip") @@ (c :> "plain_chip") @@ (d :> "plain_chip")
    @@ (f :> "plain_chip") @@ (alone :> "plain_chip")
    @@ (v :> "serve_chip") @@ (w :> "job")

KindOfStep == [x \in Step |-> KindTable[x]]
ChipOfStep == [x \in Step |-> IF x \in {d, alone} THEN b ELSE x]

RunTable ==
  (a :> r1) @@ (b :> r1) @@ (c :> r1) @@ (f :> r1) @@ (v :> r1) @@ (d :> r2) @@ (alone :> NoRun) @@ (w :> NoRun)

RunOfStep == [x \in Step |-> RunTable[x]]

\* b takes the data of a; f and v, the publication of the result, come after the
\* success of b, and c is there for the failures of a.
Connection(from, to, kind) == [from |-> from, to |-> to, kind |-> kind]

Canvas ==
  { e \in { Connection(a, b, "data"), Connection(a, c, "on_error"),
            Connection(b, f, "on_success"), Connection(b, v, "on_success"),
            Connection(b, c, "always") } :
      e.from \in Step /\ e.to \in Step }

PlanTable == (r1 :> <<a, b, f, v, c>>) @@ (r2 :> <<d>>)
PlanOfRun == [r \in Run |-> SelectSeq(PlanTable[r], LAMBDA x : x \in Step)]
Extractions == {a} \cap Step

TaskSymmetry == Permutations(Task)
=============================================================================
