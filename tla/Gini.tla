-------------------------------- MODULE Gini --------------------------------
(***************************************************************************)
(* utils/gini: the reader of config.ini.  A line is a sequence of          *)
(* characters.  back() and front() of an empty line are undefined: the     *)
(* byte in front of and the one at the end of an empty std::string are     *)
(* zero where this is built, and the line stays empty.                     *)
(***************************************************************************)
EXTENDS Naturals, Sequences, SequencesExt

Space == " "
Quote == "\""
Return == "CR"

Least(S) == CHOOSE i \in S : \A j \in S : i <= j
Greatest(S) == CHOOSE i \in S : \A j \in S : j <= i

\* Spaces and carriage returns at the end, then spaces at the start are cut off.
CutEnds(line) ==
  LET kept == {i \in DOMAIN line : line[i] \notin {Space, Return}}
  IN  IF kept = {} THEN <<>>
      ELSE LET cut == SubSeq(line, 1, Greatest(kept))
           IN  SubSeq(cut, Least({i \in DOMAIN cut : cut[i] # Space}), Len(cut))

\* trim_space: then one pair of quotes, if the line has one at either end; of a line that
\* is one quote, substr leaves nothing.
trim_space(line) ==
  LET cut == CutEnds(line)
  IN  IF cut # <<>> /\ cut[1] = Quote /\ Last(cut) = Quote
      THEN SubSeq(cut, 2, Len(cut) - 1) ELSE cut

\* judge_type, which leaves the line trimmed.
judge_type(line) == IF line = <<>> \/ line[1] = "#" THEN "none"
                    ELSE IF line[1] = "[" THEN "section" ELSE "pair"

\* get_section_name takes every bracket out.
get_section_name(line) == SelectSeq(line, LAMBDA c : c \notin {"[", "]"})

\* get_key_value: the first '=' separates.  mutant: the last one does.
KeyValueLast(line) ==
  LET eq == {i \in DOMAIN line : line[i] = "="}
      at == IF eq = {} THEN Len(line) + 1 ELSE Greatest(eq)
  IN  <<trim_space(SubSeq(line, 1, at - 1)), trim_space(SubSeq(line, at + 1, Len(line)))>>

get_key_value(line) ==
  LET eq == {i \in DOMAIN line : line[i] = "="}
      at == IF eq = {} THEN Len(line) + 1 ELSE Least(eq)
  IN  <<trim_space(SubSeq(line, 1, at - 1)), trim_space(SubSeq(line, at + 1, Len(line)))>>

\* One turn of the constructor's loop: the section that is open, and the values so far as
\* triples of section, key and value, one per section and key.
\* mutant: the first value of a key stays.
ReadLineOnce(ini, raw) ==
  LET line == trim_space(raw)
      pair == get_key_value(line)
  IN  CASE judge_type(line) = "section" -> [ini EXCEPT !.section = get_section_name(line)]
        [] judge_type(line) = "pair" /\ ~\E v \in ini.values : <<v[1], v[2]>> = <<ini.section, pair[1]>> ->
             [ini EXCEPT !.values = @ \union {<<ini.section, pair[1], pair[2]>>}]
        [] OTHER -> ini

ReadLine(ini, raw) ==
  LET line == trim_space(raw)
      pair == get_key_value(line)
  IN  CASE judge_type(line) = "section" -> [ini EXCEPT !.section = get_section_name(line)]
        [] judge_type(line) = "pair" ->
             [ini EXCEPT !.values = {v \in @ : <<v[1], v[2]>> # <<ini.section, pair[1]>>}
                                      \union {<<ini.section, pair[1], pair[2]>>}]
        [] OTHER -> ini

\* What the constructor keeps of a file, line by line.
ParseIni(lines) ==
  LET Parsed[n \in 0..Len(lines)] ==
        IF n = 0 THEN [section |-> <<>>, values |-> {}] ELSE ReadLine(Parsed[n - 1], lines[n])
  IN  Parsed[Len(lines)].values
=============================================================================
