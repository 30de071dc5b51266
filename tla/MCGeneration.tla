---- MODULE MCGeneration ----
EXTENDS Generation

CONSTANTS MaxSegments, MaxBase

\* The first segment of a batch has no predecessor (the contract refuses a
\* bridge there); input modes matter to Ark only.
Bridges(op) ==
  CASE op = "batch"   -> UNION {{b \in [1..k -> BOOLEAN] : ~b[1]} : k \in 2..MaxSegments}
    [] op = "segment" -> {<<TRUE>>, <<FALSE>>}
    [] OTHER          -> {<<FALSE>>}

MCRequests ==
  UNION {[op : {op}, ark : BOOLEAN, count : 1..2, base : 0..MaxBase,
          input_mode : InputModes, save : BOOLEAN, bridges : Bridges(op),
          given : BOOLEAN] : op \in {"media", "text", "batch", "segment"}}

SomeRequests ==
  {r \in MCRequests :
     /\ r.op # "segment" => ~r.given
     /\ r.op # "media" => r.count = 1
     /\ r.op = "text" => ~r.ark /\ r.base = 0
     /\ ~r.ark => r.input_mode = "unset"}

out(content, last_frame) == [content |-> content, last_frame |-> last_frame]

SomeOutputs ==
  {<<>>,
   <<out("storable", TRUE)>>, <<out("storable", FALSE)>>,
   <<out("none", FALSE)>>, <<out("invalid", FALSE)>>,
   <<out("storable", FALSE), out("none", TRUE)>>}
====
