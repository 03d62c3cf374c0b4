---------------------------- MODULE MCNodeInvokes ----------------------------
(* Two turns whose keys meet: the gateway's name for the session of t1,    *)
(* whose raw key is not in lower case, is the raw key of t2.               *)
EXTENDS NodeInvokes

CONSTANTS i1, i2, i3, t1, t2, Mixed, plain, full

RawKey == [t \in Turns |-> IF t = t1 THEN Mixed ELSE full]
CanonKey == [k \in Keys |-> full]
LowerKey == [k \in Keys |-> IF k = Mixed THEN plain ELSE k]
ByTurn == [i \in Invokes |-> IF i = i1 THEN t1 ELSE None]
AnyCaller == [i \in Invokes |-> IF i = i1 THEN Turns ELSE {Operator}]
=============================================================================
