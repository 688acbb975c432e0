-------------------------- MODULE MCAnnotationLayer -------------------------
(* AnnotationLayer, and the whiteboard it implements, on small instances. *)
EXTENDS AnnotationBoard

\* All windows belong to one process, so that the PID-keyed calls reach them
\* together.
OnePid == [w \in Window |-> CHOOSE p \in Pid : TRUE]
=============================================================================
