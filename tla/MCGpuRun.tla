------------------------------ MODULE MCGpuRun ------------------------------
(* GpuRun with the real programs: every run_* function, one call each.     *)
EXTENDS GpuRun

CONSTANT BenchIters

Programs == INSTANCE GpuPrograms

MCProgram == Programs!ProgramOf
MCFns     == DOMAIN MCProgram
MCModules == UNION {{MCProgram[f].loads[k] : k \in DOMAIN MCProgram[f].loads}
                      : f \in MCFns}
=============================================================================
