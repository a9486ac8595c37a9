--------------------------- MODULE MCHandlerRegistry ---------------------------
(* A small instance of HandlerRegistry for TLC. *)
EXTENDS HandlerRegistry

=============================================================================
