----------------------------- MODULE MCForecastRuns -----------------------------
(* One doubt about a source; two processes, so that one can meet the traces of    *)
(* another.                                                                       *)
EXTENDS ForecastRuns

MCProcs == 1..2
=============================================================================
