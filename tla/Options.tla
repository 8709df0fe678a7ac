------------------------------- MODULE Options -------------------------------
(* Option values: None, or Some of a value. *)
CONSTANT None

Some(value) == [some |-> value]

unwrap_or(option, default) == IF option = None THEN default ELSE option.some
=============================================================================
