----------------------------- MODULE MCNssServer -----------------------------
(***************************************************************************)
(* NssServer on small instances.  The sizes keep the relations of the real *)
(* ones: a header shorter than a frame, a float wider than an int8, a      *)
(* reply longer than a socket buffer.                                      *)
(***************************************************************************)
EXTENDS NssServer, TLC

(* NSS: float in, two outputs.                                             *)
NssFloat == [inputElems |-> 1, inElemSize |-> SizeofFloat,
             outElems |-> (0 :> 1) @@ (1 :> 1), outputCount |-> 2]

(* A graph with one output, such as the super-resolution model.            *)
OneOutput == [inputElems |-> 1, inElemSize |-> SizeofFloat,
              outElems |-> (0 :> 1) @@ (1 :> 0), outputCount |-> 1]

(* What strip_io_quant.py makes of NSS.                                    *)
NssInt8 == [inputElems |-> 1, inElemSize |-> 1,
            outElems |-> (0 :> 1) @@ (1 :> 1), outputCount |-> 2]

FloatModels == {NssFloat, OneOutput}
TwoModels == {NssFloat, NssInt8}
Int8Only  == {NssInt8}
FloatOnly == {NssFloat}

(* No connection is told from another one; used for safety only.          *)
Symmetry == Permutations(Conns)
=============================================================================
