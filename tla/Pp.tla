--------------------------------- MODULE Pp ---------------------------------
(***************************************************************************)
(* The function `pp` that cms gives to scripts (pp.c): it converts each    *)
(* argument to a string, objects by JSON, and writes the strings, with a   *)
(* space between them and a newline after them.  The characters of a       *)
(* string go through a small buffer, which is written out when it is full, *)
(* when a NUL, which must be escaped, interrupts it, and at the end.       *)
(***************************************************************************)
EXTENDS Naturals, Sequences

CONSTANTS Size,         \* CMS_PRINT_BUFFER_SIZE
          MaxPrinted,   \* bound: arguments of a call
          MaxLength,    \* bound: length of a converted string
          Char,         \* the bytes a string is made of ...
          Nul           \* ... and the one among them that is escaped

ASSUME BufferAssumption == /\ Size \in Nat \ {0}
                           /\ MaxPrinted \in Nat
                           /\ MaxLength \in Nat
                           /\ Nul \in Char

Space == "space"        \* what pp writes by itself
Newline == "newline"
Escape == "u0000"

Output == Char \cup {Space, Newline, Escape}

VARIABLES args,         \* the kinds of the arguments
          index,        \* the argument being printed
          text,         \* the characters of it that jerry_string_iterate has still to pass on
          buffer,       \* the characters in cms_pp_buffer_t
          out,          \* what jerry_port_print_buffer has received
          status,       \* what cms_handler_pp is doing, or how it ended
          meant         \* history: what a pp without a buffer would have written

ppVars == <<args, index, text, buffer, out, status, meant>>

\* A value that has a string: a primitive, a symbol (by its description), an object
\* that JSON can write.  JSON writes nothing for a function; it throws for a cycle,
\* and when a `toJSON` or a getter throws.
Kinds == {"text", "function", "throws"}

\* A NUL is written as \u0000.
Escaped(s) == [k \in DOMAIN s |-> IF s[k] = Nul THEN Escape ELSE s[k]]

\* The separator in front of every argument but the first.
Separated(o) == IF index > 1 THEN Append(o, Space) ELSE o

Texts == UNION {[1 .. n -> Char] : n \in 0 .. MaxLength}

PpInit == /\ args \in UNION {[1 .. n -> Kinds] : n \in 0 .. MaxPrinted}
          /\ index = 1
          /\ text = <<>>
          /\ buffer = <<>>
          /\ out = <<>>
          /\ status = "convert"
          /\ meant = <<>>

\* The separator and the conversion of the next argument (cms_value_to_string).
Convert(s) ==
  /\ status = "convert"
  /\ index <= Len(args)
  /\ args[index] = "text"
  /\ out' = Separated(out)
  /\ text' = s
  /\ status' = "print"
  /\ meant' = Separated(meant) \o Escaped(s)
  /\ UNCHANGED <<args, index, buffer>>

\* cms_op_to_string hands the exception value that it makes for a function, or
\* the error of ecma_builtin_json_stringify_no_opts, to ecma_op_to_string, whose
\* first line asserts that its argument is a value of the language.
ConvertBad ==
  /\ status = "convert"
  /\ index <= Len(args)
  /\ args[index] \in {"function", "throws"}
  /\ out' = Separated(out)
  /\ meant' = Separated(meant)
  /\ status' = "abort"
  /\ UNCHANGED <<args, index, text, buffer>>

Full(b) == Len(b) >= Size

\* buffered_print, called back by jerry_string_iterate.
BufferedPrint ==
  /\ status = "print"
  /\ text # <<>>
  /\ text' = Tail(text)
  /\ IF Head(text) = Nul
     THEN /\ out' = Append(out \o buffer, Escape)
          /\ buffer' = <<>>
     ELSE LET filled == Append(buffer, Head(text)) IN
          IF Full(filled)
          THEN out' = out \o filled /\ buffer' = <<>>
          ELSE buffer' = filled /\ UNCHANGED out
  /\ UNCHANGED <<args, index, status, meant>>

\* Mutant of EndArgument: the last characters are not written.
EndUnflushed ==
  /\ status = "print"
  /\ text = <<>>
  /\ buffer' = <<>>
  /\ index' = index + 1
  /\ status' = "convert"
  /\ UNCHANGED <<args, text, out, meant>>

\* The rest of cms_pp_value: what is left in the buffer is written.
EndArgument ==
  /\ status = "print"
  /\ text = <<>>
  /\ out' = out \o buffer
  /\ buffer' = <<>>                     \* the next argument has a buffer of its own
  /\ index' = index + 1
  /\ status' = "convert"
  /\ UNCHANGED <<args, text, meant>>

EndCall ==
  /\ status = "convert"
  /\ index > Len(args)
  /\ out' = Append(out, Newline)
  /\ meant' = Append(meant, Newline)
  /\ status' = "undefined"
  /\ UNCHANGED <<args, index, text, buffer>>

PpNext == \/ \E s \in Texts : Convert(s)
          \/ ConvertBad
          \/ BufferedPrint
          \/ EndArgument
          \/ EndCall

PpSpec == PpInit /\ [][PpNext]_ppVars

-----------------------------------------------------------------------------

PpTypeOK ==
  /\ args \in Seq(Kinds)
  /\ index \in 1 .. Len(args) + 1
  /\ text \in Seq(Char)
  /\ buffer \in Seq(Char \ {Nul})
  /\ out \in Seq(Output)
  /\ status \in {"convert", "print", "undefined", "error", "abort"}
  /\ meant \in Seq(Output)

\* Between two callbacks there is room in the buffer for one more character, and
\* nothing is left in it when pp goes on to the next argument or returns: no
\* character of one argument can come out behind the separator of the next.
RoomLeft == /\ Len(buffer) < Size
            /\ status # "print" => buffer = <<>>

\* What was written, what is buffered and what is still to come are the arguments
\* converted so far, escaped and separated: nothing is lost, written twice or
\* reordered, wherever the buffer was cut.
NothingLost == out \o buffer \o Escaped(text) = meant

=============================================================================
