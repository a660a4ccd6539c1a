--------------------- MODULE MC_RenderWidgetCompositor ---------------------
(* The selections Blink reports in the model: none, a caret, a range in    *)
(* each text direction, and a range whose bounds differ in direction and   *)
(* layer (a selection across a bidirectional boundary and two layers).     *)
EXTENDS RenderWidgetCompositor

LTR(layer) == [layerId |-> layer, isTextDirectionRTL |-> FALSE,
               edgeTopInLayer |-> 0, edgeBottomInLayer |-> 1]
RTL(layer) == [LTR(layer) EXCEPT !.isTextDirectionRTL = TRUE]
Sel(type, start, end) ==
  [type |-> type, start |-> start, end |-> end,
   isEditable |-> TRUE, isEmptyTextFormControl |-> FALSE]

MCWebSelections ==
  {Sel("none", NoWebBound, NoWebBound), Sel("caret", LTR(1), LTR(1)),
   Sel("range", LTR(1), LTR(1)), Sel("range", RTL(1), RTL(1)),
   Sel("range", LTR(1), RTL(2))}
=============================================================================
