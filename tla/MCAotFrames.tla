------------------------------ MODULE MCAotFrames ------------------------------
(* Instances of AotFrames for TLC: one function calls and loops, the other *)
(* is interrupted, uses a metamethod and calls.                            *)
EXTENDS AotFrames

TwoProtos == {"f", "g"}
TwoCodes == [p \in TwoProtos |-> IF p = "f" THEN <<"call", "loop">>
                                            ELSE <<"interrupt", "meta", "call">>]
=============================================================================
