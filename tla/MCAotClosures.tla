----------------------------- MODULE MCAotClosures -----------------------------
(* An instance of AotClosures for TLC.  The chunk makes a counter with a   *)
(* captured variable, itself (count), and a recursive function that shares *)
(* a template (loop); the counter makes a function that shares its         *)
(* variable and a local of its own, the other one a function that captures *)
(* nothing.                                                                *)
EXTENDS AotClosures, TLC

CONSTANTS root, count, inner, loop, plain,
          SelfFirst   \* loop refers to itself before it refers to the other local

Capture(kind, source) == [kind |-> kind, source |-> source]

MCChildren == {count, inner, loop, plain}
MCParent == count :> root @@ inner :> count @@ loop :> root @@ plain :> loop

(* local function loop() ... x ... loop ... end: register 1 is x, 0 loop.  *)
LoopCaptures ==
    IF SelfFirst THEN <<Capture("val", 0), Capture("val", 1)>>
    ELSE <<Capture("val", 1), Capture("val", 0)>>
MCSite == count :> [dest |-> 0, captures |-> <<Capture("ref", 0)>>]
          @@ inner :> [dest |-> 0, captures |-> <<Capture("upval", 1), Capture("ref", 1)>>]
          @@ loop :> [dest |-> 0, captures |-> LoopCaptures]
          @@ plain :> [dest |-> 0, captures |-> <<>>]
===============================================================================
