----------------------------- MODULE MCUpscalers ------------------------------
(***************************************************************************)
(* Upscalers with the failures that leave a pass half built.               *)
(***************************************************************************)
EXTENDS Upscalers

MCFailing == {<<"native", "pipeline">>, <<"temporal", "history1">>, <<"fsr", "module">>, <<"debug", "pipeline">>}
===============================================================================
