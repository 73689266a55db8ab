----------------------------- MODULE MCCoreNote -----------------------------
(* Bounded instance of CoreNote: documents of at most three lines.         *)
EXTENDS CoreNote

MCTargets == {d \in UNION {[1..n -> {Blank, "a"}] : n \in 0..3} : d = joinLines(d)}

(* Raw events: an insert before the first line, an insert followed by a    *)
(* write below it, a write beyond the end, an insert followed by a delete, *)
(* and the empty entry list, which is refused.                             *)
MCRawPayloads ==
  { <<Entry(1, "insert", "b")>>,
    <<Entry(1, "insert", "b"), Entry(2, "set", "a")>>,
    <<Entry(3, "set", "b")>>,
    <<Entry(1, "insert", "b"), Entry(2, "delete", Blank)>>,
    << >> }
=============================================================================
