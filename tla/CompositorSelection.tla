------------------------ MODULE CompositorSelection ------------------------
(* How RenderWidgetCompositor hands Blink's selection to the compositor:  *)
(* ConvertWebSelectionBound and ConvertWebSelection turn a WebSelection   *)
(* into a cc::LayerSelection, which registerSelection registers; and      *)
(* clearSelection registers a default-constructed one. The functions are  *)
(* pure, so the module has operators and no variables. Edge points are    *)
(* abstracted to members of a small set, which the code copies unchanged. *)
EXTENDS Naturals

\* Layer ids (0 is the default of a bound, which no layer has) and edge
\* points of a bound inside its layer.
LayerIds == 0..2
Points == {0, 1}

\* A blink::WebSelectionBound: the layer, the text direction and the two
\* edge points.
WebBounds == [layerId : LayerIds, isTextDirectionRTL : BOOLEAN,
              edgeTopInLayer : Points, edgeBottomInLayer : Points]
NoWebBound == [layerId |-> 0, isTextDirectionRTL |-> FALSE,
               edgeTopInLayer |-> 0, edgeBottomInLayer |-> 0]

\* A blink::WebSelection. A selection of type "none" has default bounds;
\* a caret or a range has bounds on a layer (DCHECK(web_bound.layerId)).
WebSelections ==
  [type : {"none"}, start : {NoWebBound}, end : {NoWebBound},
   isEditable : BOOLEAN, isEmptyTextFormControl : BOOLEAN]
  \cup
  [type : {"caret", "range"},
   start : {b \in WebBounds : b.layerId # 0},
   end : {b \in WebBounds : b.layerId # 0},
   isEditable : BOOLEAN, isEmptyTextFormControl : BOOLEAN]

\* cc::LayerSelectionBound and cc::LayerSelection.
BoundTypes == {"EMPTY", "CENTER", "LEFT", "RIGHT"}
LayerSelectionBounds == [type : BoundTypes, layerId : LayerIds,
                         edgeTop : Points, edgeBottom : Points]
LayerSelections == [start : LayerSelectionBounds, end : LayerSelectionBounds,
                    isEditable : BOOLEAN, isEmptyTextFormControl : BOOLEAN]

\* The default-constructed cc::LayerSelectionBound.
EmptyBound == [type |-> "EMPTY", layerId |-> 0, edgeTop |-> 0, edgeBottom |-> 0]

\* The handle a bound of a range gets: the start faces left in left-to-right
\* text and right in right-to-left text, the end the other way.
RangeHandle(rtl, isStart) ==
  IF isStart = rtl THEN "RIGHT" ELSE "LEFT"

\* The bound as the conversion builds it once past the early return.
ConvertedBound(webSel, isStart) ==
  LET b == IF isStart THEN webSel.start ELSE webSel.end
  IN [type |-> IF webSel.type = "range"
                 THEN RangeHandle(b.isTextDirectionRTL, isStart)
                 ELSE "CENTER",
      layerId |-> b.layerId,
      edgeTop |-> b.edgeTopInLayer,
      edgeBottom |-> b.edgeBottomInLayer]

\* Mutant: the end bound given the start's handle.
ConvertWebSelectionBoundSameSides(webSel, isStart) ==
  LET b == IF isStart THEN webSel.start ELSE webSel.end
  IN IF webSel.type = "none" THEN EmptyBound
     ELSE [ConvertedBound(webSel, isStart) EXCEPT
             !.type = IF @ = "CENTER" THEN @
                      ELSE RangeHandle(b.isTextDirectionRTL, TRUE)]

\* ConvertWebSelectionBound: a none selection gives the default bound.
ConvertWebSelectionBound(webSel, isStart) ==
  IF webSel.type = "none" THEN EmptyBound
  ELSE ConvertedBound(webSel, isStart)

\* ConvertWebSelection, which registerSelection registers.
ConvertWebSelection(webSel) ==
  [start |-> ConvertWebSelectionBound(webSel, TRUE),
   end |-> ConvertWebSelectionBound(webSel, FALSE),
   isEditable |-> webSel.isEditable,
   isEmptyTextFormControl |-> webSel.isEmptyTextFormControl]

\* The empty_selection clearSelection registers.
EmptySelection ==
  [start |-> EmptyBound, end |-> EmptyBound,
   isEditable |-> FALSE, isEmptyTextFormControl |-> FALSE]

=============================================================================
