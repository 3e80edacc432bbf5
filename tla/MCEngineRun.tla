----------------------------- MODULE MCEngineRun -----------------------------
(* Plans of different layouts in one workspace: a on one core, b and c by    *)
(* two threads with rows of different widths, g and h on the device, c of    *)
(* device size but not on the device; f is another engine's.  The refused    *)
(* lists fail at each check, first and later; the last one in its sum.       *)
EXTENDS EngineRun, TLC

CONSTANTS ma, mb, mc, mg, mh, mf, qa, qb1, qb2, qc, qg1, qg2, qh

MCMatrices == {ma, mb, mc, mg, mh, mf}
MCOwn == MCMatrices \ {mf}
MCResident == {mg, mh}
MCRows == ma :> 2 @@ mb :> 2 @@ mc :> 4 @@ mg :> 1 @@ mh :> 1 @@ mf :> 1
MCBlocks == ma :> 1 @@ mb :> 2 @@ mc :> 1 @@ mg :> 2 @@ mh :> 1 @@ mf :> 1
MCWidth == ma :> 1 @@ mb :> 2 @@ mc :> 16 @@ mg :> 16 @@ mh :> 16 @@ mf :> 1
MCQueries == {qa, qb1, qb2, qc, qg1, qg2, qh}
MCInstance ==
  qa :> ma @@ qb1 :> mb @@ qb2 :> mb @@ qc :> mc @@ qg1 :> mg @@ qg2 :> mg @@ qh :> mh

Job(m, qs) == [matrix |-> m, queries |-> qs]

Executed ==
  { << Job(mg, <<qg1, qg2>>), Job(mb, <<qb1, qb2>>), Job(mh, <<qh>>) >>,
    << Job(mh, <<qh>>), Job(mc, <<qc>>), Job(mg, <<qg2>>) >>,
    << Job(ma, <<qa>>), Job(mb, <<qb2, qb1>>) >> }

Refused ==
  { <<>>,
    << Job(ma, <<qa>>), Job(mf, <<qa>>) >>,
    << Job(ma, <<qa>>), Job(mg, <<qg1>>), Job(ma, <<qa>>) >>,
    << Job(mg, <<qg1>>), Job(mb, <<>>) >>,
    << Job(mb, <<qb1, qa>>) >>,
    << Job(mb, <<qb1, qb2, qb1, qb2>>), Job(mc, <<qc, qc>>) >> }

MCJobLists == Executed \cup Refused

=============================================================================
