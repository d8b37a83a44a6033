---------------------------- MODULE MCFileLanding ----------------------------
(* Two tasks for TLC: one lands its files itself, the other proposes them. *)
EXTENDS FileLanding, TLC
CONSTANTS t1, t2, f1, f2, contracts

MCFiles == <<f1, f2, contracts>>
MCTaskFiles == (t1 :> {f1, f2}) @@ (t2 :> {f2})
AutoReview == (t1 :> "auto") @@ (t2 :> "review")
AutoMicro == (t1 :> "auto") @@ (t2 :> "micro")
=============================================================================
