-------------------------- MODULE MCModelPipeline --------------------------
(* Four traced checkpoints of Arm: one run in the order of the table, one  *)
(* that ran two layers of one shape the other way round, one that ran two  *)
(* of different shapes so, and one that lacks a tensor.  Two by name: one  *)
(* of somebody else, one that lacks a tensor.  Only kpn_params has a shape *)
(* of its own.                                                             *)
EXTENDS ModelPipeline

CONSTANTS t1, t2, t3

Exchanged(k, l) == [EXEC_ORDER EXCEPT ![k] = EXEC_ORDER[l], ![l] = EXEC_ORDER[k]]

Traced(trace, has) ==
  [weights |-> "arm", traced |-> TRUE, has |-> has, trace |-> trace]
Named(weights, has) ==
  [weights |-> weights, traced |-> FALSE, has |-> has, trace |-> EXEC_ORDER]

MCCheckpoints ==
  {Traced(EXEC_ORDER, Params),
   Traced(Exchanged(12, 13), Params),
   Traced(Exchanged(10, 11), Params),
   Traced(EXEC_ORDER, Params \ {<<"temporal_params_out_conv", "bias">>}),
   Named("other", Params),
   Named("arm", Params \ {<<"conv2d_0", "weight">>})}

MCShapeOf == [l \in Layers |-> IF l = "kpn_params" THEN "head" ELSE "conv"]

(* t3 has another size than the reference t1.                              *)
MCSizes == {540, 1080}
MCSizeOf == [t \in {t1, t2, t3} |-> IF t = t3 THEN 1080 ELSE 540]
=============================================================================
