------------------------- MODULE MCDiagnosisPipeline -------------------------
EXTENDS DiagnosisPipeline, TLC

\* no better, faster, faster and less steady, zero
MCOutcomes == {<<2, 2>>, <<1, 2>>, <<1, 1>>, <<0, 2>>}
\* A pilot is a formal campaign during which HEAD stays.
MCKinds == {<<"closed", "pilot">>, <<"repeated", "test">>}
MCThresholds == {<<<<0, 1>>, <<1, 1>>>>, <<<<1, 2>>, <<1, 1>>>>, <<<<1, 2>>, <<0, 1>>>>}

\* A profile over three causes, two of which are in conflict; and one whose
\* minimum score and margin are zero.
MCWeights == [planner_compute_ns |-> 3, off_cpu_ns |-> 2, dds_transfer_ns |-> 3]
MCProfiles == {Profile(MCWeights, 1, 1, 2, 1, <<1, 1>>),
               Profile(MCWeights, 2, 1, 0, 0, <<1, 2>>)}
MCSymmetry ==
    {values @@ threads @@ commits : values  \in Permutations(Values \ Baselines),
                                    threads \in Permutations(Threads),
                                    commits \in Permutations(Commits)}
==============================================================================
