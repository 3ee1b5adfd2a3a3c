----------------------------- MODULE MCCoreMark -----------------------------
(***************************************************************************)
(* The builds of core_portme.c: PERFORMANCE_RUN, VALIDATION_RUN and        *)
(* PROFILE_RUN.                                                            *)
(***************************************************************************)
EXTENDS CoreMark

Build(seeds, iterations, total, tpi, clock) ==
    [seed |-> seeds, iterations |-> iterations, total |-> total,
     tpi |-> tpi, clock |-> clock]

PerformanceRun == Build(<<0, 0, 102>>, 1, 2000, 6, 0)
ValidationRun  == Build(<<13333, 13333, 102>>, 1, 2000, 6, 0)
Performance6k  == Build(<<0, 0, 102>>, 1, 6000, 6, 0)
Validation6k   == Build(<<13333, 13333, 102>>, 1, 6000, 6, 0)
ProfileRun     == Build(<<8, 8, 8>>, 2, 1200, 6, 0)

(* ITERATIONS = 0: iterations of 1 ms to 8.5 s, the clock about to wrap.   *)
Calibrated == {Build(<<8, 8, 8>>, 0, 1200, tpi, 85000) : tpi \in {1, 6, 95, 999, 8500}}

MCInputs == {PerformanceRun, ValidationRun, ProfileRun, Performance6k, Validation6k} \union Calibrated
=============================================================================
