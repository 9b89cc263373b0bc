-------------------------------- MODULE Embed --------------------------------
(***************************************************************************)
(* How a file's bytes get into the guest at boot: embedded in the instance *)
(* template as a YAML block scalar, rewritten by limactl, and evaluated as *)
(* a Go template by Lima.  `profile apply` copies the bytes as they are,   *)
(* so the boot has to deliver the same.  The state is a file being typed.  *)
(***************************************************************************)
EXTENDS Naturals, SequencesExt

CONSTANT MaxLength   \* bound on the file's length

ASSUME LengthAssumption == MaxLength \in Nat

VARIABLE content

\* What the conversions tell apart: "cr" is a carriage return, "nel" a line
\* break of Unicode (NEL, LS, PS), "ctl" what YAML refuses (other control
\* characters, a byte order mark, what is not UTF-8), and "x" the rest.
Byte == {"x", "brace", "space", "tab", "nl", "cr", "nel", "ctl"}

\* What they insert: {{"{{"}}, a template comment, the indentation.
Quoted == "quoted"
Comment == "comment"
Pad == "pad"
\* What limactl makes of a document it breaks.
Corrupt == <<"corrupt">>
Text == Byte \union {Quoted, Comment, "corrupt"}

NoFile == content = <<>>
TypeByte == /\ Len(content) < MaxLength
            /\ \E b \in Byte : content' = Append(content, b)
Files == NoFile /\ [][TypeByte]_content

\* s gone through from the left: step[b] is what an element b makes of what has
\* come of those before it (a value, where FoldLeft takes an operator, so that
\* what holds of every scan can be proved once).
Scan(step, start, s) ==
  LET sofar[n \in 0 .. Len(s)] == IF n = 0 THEN start ELSE step[s[n]][sofar[n - 1]]
  IN  sofar[Len(s)]

-----------------------------------------------------------------------------
(* lima/template.go *)

\* Mutant: the content goes in as it is.
Unescaped(s) == s

\* ReplaceAll, from the left: a brace after a single one makes a pair.
EscapeByte ==
  [b \in Byte |-> [out \in Seq(Text) |->
     IF b = "brace" /\ out # <<>> /\ Last(out) = "brace"
     THEN Append(Front(out), Quoted) ELSE Append(out, b)]]
EscapeGuestTemplate(s) == Scan(EscapeByte, <<>>, s)

GuestBlockContent(s) ==
  LET escaped == EscapeGuestTemplate(s)
  IN  IF escaped # <<>> /\ Head(escaped) \in {"space", "tab"}
      THEN <<Comment>> \o escaped ELSE escaped

TrailingNewlines(s) ==
  CHOOSE n \in 0 .. Len(s) :
    /\ \A i \in Len(s) - n + 1 .. Len(s) : s[i] = "nl"
    /\ n < Len(s) => s[Len(s) - n] # "nl"

WithoutTrailing(s) == SubSeq(s, 1, Len(s) - TrailingNewlines(s))

Chomp(s) == CASE TrailingNewlines(s) = 0 -> "strip"
              [] TrailingNewlines(s) = 1 /\ s # <<"nl">> -> "clip"
              [] OTHER -> "keep"

SplitByte ==
  [b \in Text |-> [lines \in Seq(Seq(Text)) \ {<<>>} |->
     IF b = "nl" THEN Append(lines, <<>>)
     ELSE Append(Front(lines), Append(Last(lines), b))]]
Split(s) == Scan(SplitByte, << <<>> >>, s)

Blanks(n) == [i \in 1 .. n |-> <<>>]

\* The lines of the block: empty ones are not padded, and of the trailing
\* newlines all but one become empty lines.
Indent(s) ==
  LET lines == Split(WithoutTrailing(s))
      padded == [i \in DOMAIN lines |->
                  IF lines[i] = <<>> THEN <<>> ELSE <<Pad>> \o lines[i]]
      trailing == TrailingNewlines(s)
  IN  padded \o Blanks(IF trailing > 1 THEN trailing - 1 ELSE 0)

\* isBlank: what a profile may not ship.
IsBlank(s) == WithoutTrailing(s) = <<>>

-----------------------------------------------------------------------------
(* YAML, limactl and Lima *)

Chomped(indicator, text) ==
  LET stripped == WithoutTrailing(text)
  IN  CASE indicator = "keep" -> text
        [] indicator = "strip" -> stripped
        [] indicator = "clip" -> IF stripped = <<>> THEN <<>>
                                 ELSE Append(stripped, "nl")

AddLine == [line \in Seq(Text) |-> [out \in Seq(Text) |-> out \o Append(line, "nl")]]

\* There is a control character, or a break that indent does not know of: the
\* rest of its line stands without indentation.
Unreadable(text) ==
  \E i \in DOMAIN text :
    \/ text[i] = "ctl"
    \/ text[i] \in {"cr", "nel"} /\ text[i + 1] # "nl"

\* A carriage return and a line feed are one break, every other is its own.
ReadByte ==
  [b \in Text |-> [out \in Seq(Text) |->
     CASE b = "cr" -> out
       [] b = "nel" -> Append(out, "nl")
       [] OTHER -> Append(out, b)]]

\* A literal block scalar with an explicit indentation: each line less its
\* padding and with a line feed, whatever line break it had; then chomping.
ParseBlock(indicator, lines) ==
  LET unpadded == [i \in DOMAIN lines |->
                     IF lines[i] = <<>> THEN <<>> ELSE Tail(lines[i])]
      text == Scan(AddLine, <<>>, unpadded)
  IN  IF Unreadable(text) THEN Corrupt
      ELSE Chomped(indicator, Scan(ReadByte, <<>>, text))

\* `limactl template copy --embed-all` writes the scalar anew: it breaks on a
\* leading tab and on a blank scalar, and forgets the "keep" indicator.
Reserialized(text) ==
  IF IsBlank(text) \/ Head(text) = "tab" THEN Corrupt
  ELSE IF TrailingNewlines(text) > 1 THEN Chomped("clip", text) ELSE text

ExpandByte ==
  [b \in Text |-> [out \in Seq(Text) |->
     CASE b = Comment -> out
       [] b = Quoted -> out \o <<"brace", "brace">>
       [] OTHER -> Append(out, b)]]

\* An action opens at the first pair of braces, be it the content's own.
OpensEarly(text) ==
  \E i \in 1 .. Len(text) - 1 :
    text[i] = "brace" /\ text[i + 1] \in {"brace", Quoted, Comment}
\* Lima evaluates the content as a Go template.
Evaluated(text) ==
  IF OpensEarly(text) THEN Corrupt ELSE Scan(ExpandByte, <<>>, text)

Parsed(s) == ParseBlock(Chomp(s), Indent(GuestBlockContent(s)))
Booted(s) == Evaluated(Reserialized(Parsed(s)))

-----------------------------------------------------------------------------
(* Properties *)

\* A text file as YAML has it, with line feeds.
IsPlain(s) == \A i \in DOMAIN s : s[i] \notin {"cr", "nel", "ctl"}

\* chomp, indent and guestBlockContent: what the template renders reads back
\* as the file's own bytes, and a boot delivers what `profile apply` copies,
\* for every plain text that is not blank.  Load refuses only the blank ones: a
\* control character, a byte order mark or what is not UTF-8 reaches the guest
\* with apply and makes a template that no parser reads, and other line breaks
\* do not come back as they were.  And limactl collapses several trailing
\* newlines (chomp's comment says so).
BootEqualsApply ==
  ~IsBlank(content) /\ IsPlain(content) =>
    /\ Evaluated(Parsed(content)) = content
    /\ TrailingNewlines(content) <= 1 => Booted(content) = content
=============================================================================
