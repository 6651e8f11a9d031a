------------------------------ MODULE JSONWriter ------------------------------
(***************************************************************************)
(* fsm::json::JSONWriter (src/util.cc:228): a writer that puts a comma     *)
(* before what follows a finished element, and keeps track of the nesting  *)
(* by its indentation.  What is written is a sequence of tokens; a name    *)
(* with its value is one token, and so is a value.                         *)
(***************************************************************************)
EXTENDS Naturals, Sequences

Openers == {"[", "{"}
Closers == {"]", "}"}
Comma == ","

-------------------------------------------------------------------------------
(* Slips that are easy to make in this code, kept to show that the         *)
(* property below notices them.                                            *)
KeepFlag(w) == [w EXCEPT !.out = IF w.end THEN Append(@, Comma) ELSE @]
-------------------------------------------------------------------------------
NewWriter == [out |-> <<>>, indent |-> 0, end |-> FALSE]

\* end()
Separate(w) == [out |-> IF w.end THEN Append(w.out, Comma) ELSE w.out,
                indent |-> w.indent, end |-> FALSE]

Put(w, token, indent, end) == [out |-> Append(w.out, token), indent |-> indent, end |-> end]

Start(w, token) == LET s == Separate(w) IN Put(s, token, s.indent + 2, s.end)
StartArray(w) == Start(w, "[")
StartObject(w) == Start(w, "{")

End(w, token) == Put(w, token, w.indent - 2, TRUE)
EndArray(w) == End(w, "]")
EndObject(w) == End(w, "}")

Write(w) == Put(Separate(w), "value", w.indent, TRUE)

\* The assertion of str().
IsWhole(w) == w.indent = 0

-------------------------------------------------------------------------------
\* Elements next to each other have one comma between them, and there is none anywhere
\* else.
Fits(this, that) == IF this \in Openers \cup {Comma}
                    THEN that # Comma /\ (this = Comma => that \notin Closers)
                    ELSE that \in {Comma} \cup Closers

CommasFit(out) == \A i \in 1..(Len(out) - 1) : Fits(out[i], out[i + 1])
===============================================================================
