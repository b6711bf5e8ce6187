---------------------------- MODULE MCGroth16Prover ----------------------------
(* Two commitments, evaluated by one worker or by two at the same time.           *)
EXTENDS Groth16Prover

OneWorker  == <<1, 1>>
TwoWorkers == <<1, 2>>
===============================================================================
