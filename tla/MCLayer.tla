------------------------------ MODULE MCLayer -------------------------------
(* Two layers over one Registry for TLC.  The filter of the first hides    *)
(* the spans of the "noise" site, that of the second nothing; the second   *)
(* leaves out the span list.                                               *)
EXTENDS Layer, TLC

CONSTANTS app_site, noise

TwoFilters == <<{app_site}, {app_site, noise}>>

=============================================================================
