--------------------------- MODULE AnnotationBoard ---------------------------
(***************************************************************************)
(* AnnotationLayer implements Whiteboard: the map from the struct and its  *)
(* objects to sheets, pen and picture.                                     *)
(***************************************************************************)
EXTENDS AnnotationLayer

Board == INSTANCE Whiteboard WITH
  open  <- managed,
  ink   <- layer.strokes,
  used  <- 1 .. layer.next - 1,
  pen   <- layer.current,
  shown <- Visible(layer) /\ layer.surface,
  stale <- layer.owed \ {"bystander"} # {}

\* Every dispatch is one move of the whiteboard or none: strokes are added by
\* a pen over a shown layer only, to the sheet of a managed window or of the
\* desktop; they are removed by erasing, undo, gestures, clearing and closing
\* only, never come back, and are out of the pen's hand when they go; and what
\* is shown stale is composed in the end.
ImplementsWhiteboard == Board!Spec
=============================================================================
