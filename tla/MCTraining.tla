----------------------------- MODULE MCTraining -----------------------------
(* Datasets of none to six items, and batch sizes that divide them, leave a  *)
(* short last batch, and exceed them.  The models: layers with and without   *)
(* the parameters they return, one whose weights w and b are sent the same   *)
(* tensor by backward, one whose weights u and v are sent two views of the   *)
(* tensor that x is sent, and two that an optimizer cannot be made for.      *)
EXTENDS Training

MCKind == [linear |-> "Linear", tied |-> "Linear", norm |-> "BatchNorm", id |-> "Identity"]
MCParams == [linear |-> <<"w", "b">>, tied |-> <<"u", "v", "x">>, norm |-> <<"n">>, id |-> <<>>]
MCSource == [w |-> "sum", b |-> "sum", u |-> "view1", v |-> "view2", x |-> "whole", n |-> "norm"]
MCBase == [sum |-> "sum", view1 |-> "whole", view2 |-> "whole", whole |-> "whole", norm |-> "norm"]
MCSetups ==
    ({0, 1, 6} \X {<<"norm">>, <<"id">>}) \cup
    ({3} \X {<<"linear", "norm">>, <<"id", "linear">>, <<"tied">>})
=============================================================================
