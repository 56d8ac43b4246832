------------------------------- MODULE RConf -------------------------------
(***************************************************************************)
(* mk_rconf_create of mk_rconf.c: the configuration reader.  The file is a *)
(* text; fgets hands it out in buffers, and each buffer is one iteration   *)
(* of the while loop, one step here: it is skipped, opens a [section], or  *)
(* is a key line whose key and value go to the last section.  The first   *)
(* key line fixes the indentation every later key line must have.  An     *)
(* error (mk_config_error) ends the process.                               *)
(*                                                                         *)
(* Characters are one-character strings; a line is a sequence of them.    *)
(* Warnings and line numbers only reach the log and are left out.  The    *)
(* string helpers of mk_string.c (not among the sources) follow their     *)
(* documented behaviour.                                                   *)
(***************************************************************************)
EXTENDS Integers, Sequences, SequencesExt

CONSTANTS
  BufSize,    \* sizeof buf: fgets reads at most BufSize - 1 characters
  Lines,      \* the lines, each ending in "\n", a file is made of
  MaxLines    \* the longest file, in lines

Blank == {" ", "\t"}                \* isblank
Space == Blank \cup {"\r", "\n"}    \* isspace, on this alphabet

\* mk_string_char_search: the index (from 0) of the first c in s, or -1.
CharSearch(s, c) == SelectInSeq(s, LAMBDA x : x = c) - 1

\* mk_string_copy_substr(s, a, b): the characters a .. b - 1 (from 0).
CopySubstr(s, a, b) == SubSeq(s, a + 1, b)

\* mk_string_trim: isspace characters removed at both ends.
RECURSIVE TrimFront(_)
TrimFront(s) == IF s # <<>> /\ Head(s) \in Space THEN TrimFront(Tail(s)) ELSE s

Trim(s) == Reverse(TrimFront(Reverse(TrimFront(s))))

\* The buffers fgets(buf, BufSize, f) returns: up to the first "\n" or
\* BufSize - 1 characters, whichever is shorter.
RECURSIVE Fgets(_)
Fgets(t) ==
  IF t = <<>> THEN <<>>
  ELSE LET nl == SelectInSeq(t, LAMBDA x : x = "\n")
           n == IF nl # 0 /\ nl < BufSize THEN nl
                ELSE IF Len(t) < BufSize THEN Len(t) ELSE BufSize - 1
       IN <<SubSeq(t, 1, n)>> \o Fgets(SubSeq(t, n + 1, Len(t)))

\* A trailing "\n" is cut off, and then a "\r" before it.
StripEol(b) ==
  IF b # <<>> /\ Last(b) = "\n"
  THEN IF Len(b) > 1 /\ b[Len(b) - 1] = "\r" THEN SubSeq(b, 1, Len(b) - 2)
       ELSE Front(b)
  ELSE b

(***************************************************************************)
(* The indentation the first key line fixes: i starts at 0 and the do loop *)
(* increments it before testing, so buf[0] always belongs to it, followed  *)
(* by the blanks after it.                                                 *)
(***************************************************************************)
FirstIndent(b) ==
  LET i == CHOOSE j \in 1 .. Len(b) :
             /\ j = Len(b) \/ b[j + 1] \notin Blank
             /\ \A k \in 2 .. j : b[k] \in Blank
  IN SubSeq(b, 1, i)

\* mk_rconf_section_entry_add: to the last section; none: logged, dropped.
EntryAdd(secs, k, v) ==
  IF secs = <<>> THEN secs
  ELSE [secs EXCEPT ![Len(secs)].entries = Append(@, [key |-> k, val |-> v])]

\* mk_rconf_section_add: a new section with no entries at the tail.
SectionAdd(secs, name) == Append(secs, [name |-> name, entries |-> <<>>])

-----------------------------------------------------------------------------
VARIABLES
  text,     \* the file's contents
  bufs,     \* what the fgets calls return, in order
  pos,      \* the next buffer to read
  indent,   \* the indentation fixed so far (<<>>: indent is NULL)
  secs,     \* conf->sections: [name, entries] in list order
  status    \* "reading", "done" (conf returned) or "exit" (mk_config_error)

vars == <<text, bufs, pos, indent, secs, status>>

Reading == status = "reading" /\ pos <= Len(bufs)

\* The current buffer, its end of line removed.
Cur == StripEol(bufs[pos])

\* An empty line, or '#' in the first column: continue.
SkipLine ==
  /\ Reading
  /\ IF Cur = <<>> THEN TRUE ELSE Cur[1] = "#"
  /\ pos' = pos + 1
  /\ UNCHANGED <<text, bufs, indent, secs, status>>

\* '[' in the first column: a header up to the first ']' at index > 0, or
\* "Bad header definition".
SectionLine ==
  /\ Reading
  /\ IF Cur = <<>> THEN FALSE ELSE Cur[1] = "["
  /\ LET end == CharSearch(Cur, "]") IN
       IF end > 0 THEN /\ secs' = SectionAdd(secs, CopySubstr(Cur, 1, end))
                       /\ UNCHANGED status
                  ELSE /\ status' = "exit"
                       /\ UNCHANGED secs
  /\ pos' = pos + 1
  /\ UNCHANGED <<text, bufs, indent>>

(***************************************************************************)
(* Any other line.  Without an indentation yet, this line fixes it, and a *)
(* line that is all indentation is skipped.  Then: the line must start    *)
(* with the indentation and no further blank ("Invalid indentation        *)
(* level"); a comment or nothing after it is skipped; the key runs to the *)
(* first ' ' and the value is the rest ("Each key must have a value"),    *)
(* both trimmed.                                                           *)
(***************************************************************************)
KeyLine ==
  /\ Reading
  /\ IF Cur = <<>> THEN FALSE ELSE Cur[1] \notin {"#", "["}
  /\ LET b == Cur
         ind == IF indent = <<>> THEN FirstIndent(b) ELSE indent
         rest == SubSeq(b, Len(ind) + 1, Len(b))
         i == CharSearch(rest, " ")
     IN /\ indent' = ind
        /\ CASE indent = <<>> /\ Len(ind) = Len(b) ->
                  UNCHANGED <<secs, status>>
             [] ~IsPrefix(ind, b) \/ (rest # <<>> /\ rest[1] \in Blank) ->
                  status' = "exit" /\ UNCHANGED secs
             [] rest = <<>> \/ rest[1] = "#" ->
                  UNCHANGED <<secs, status>>
             [] i < 0 ->
                  status' = "exit" /\ UNCHANGED secs
             [] OTHER ->
                  /\ secs' = EntryAdd(secs, Trim(CopySubstr(rest, 0, i)),
                                      Trim(CopySubstr(rest, i + 1, Len(rest))))
                  /\ UNCHANGED status
  /\ pos' = pos + 1
  /\ UNCHANGED <<text, bufs>>

\* fgets returns NULL: fclose, free the indentation, return conf.
Finish ==
  /\ status = "reading" /\ pos > Len(bufs)
  /\ status' = "done"
  /\ UNCHANGED <<text, bufs, pos, indent, secs>>

\* The files: up to MaxLines of the given lines.
Files == {FlattenSeq(ls) : ls \in BoundedSeq(Lines, MaxLines)}

Init ==
  /\ text \in Files
  /\ bufs = Fgets(text)
  /\ pos = 1
  /\ indent = <<>>
  /\ secs = <<>>
  /\ status = "reading"

Next == SkipLine \/ SectionLine \/ KeyLine \/ Finish

Spec == Init /\ [][Next]_vars

-----------------------------------------------------------------------------
(***************************************************************************)
(* The format, as the reader's checks and comments describe it: blank and *)
(* '#' lines are skipped, a header is '[' name ']', and every key line is *)
(* indented by the same run of blanks and holds a key, a ' ' and a value. *)
(***************************************************************************)
RECURSIVE TextLines(_)
TextLines(t) ==
  IF t = <<>> THEN <<>>
  ELSE LET nl == SelectInSeq(t, LAMBDA x : x = "\n")
           n == IF nl = 0 THEN Len(t) ELSE nl
       IN <<StripEol(SubSeq(t, 1, n))>> \o TextLines(SubSeq(t, n + 1, Len(t)))

LeadBlanks(l) ==
  LET k == SelectInSeq(l, LAMBDA x : x \notin Blank)
  IN IF k = 0 THEN l ELSE SubSeq(l, 1, k - 1)

RefLine(r, l) ==
  LET lead == LeadBlanks(l)
      body == SubSeq(l, Len(lead) + 1, Len(l))
      sp == CharSearch(body, " ")
      end == CharSearch(l, "]")
  IN CASE ~r.ok \/ body = <<>> \/ l[1] = "#" -> r
       [] l[1] = "[" ->
            IF end > 0 THEN [r EXCEPT !.secs = SectionAdd(@, SubSeq(l, 2, end))]
            ELSE [r EXCEPT !.ok = FALSE]
       [] lead = <<>> \/ (r.indent # <<>> /\ lead # r.indent) ->
            [r EXCEPT !.ok = FALSE]
       [] body[1] = "#" -> [r EXCEPT !.indent = lead]
       [] sp < 0 -> [r EXCEPT !.ok = FALSE]
       [] OTHER ->
            [r EXCEPT !.indent = lead,
                      !.secs = EntryAdd(@, Trim(SubSeq(body, 1, sp)),
                                        Trim(SubSeq(body, sp + 2, Len(body))))]

RefParse(t) ==
  FoldLeft(RefLine, [ok |-> TRUE, indent |-> <<>>, secs |-> <<>>], TextLines(t))

(***************************************************************************)
(* mk_rconf_create reads the file as the format says: it ends the process *)
(* exactly on the files the format rejects, and otherwise returns the     *)
(* sections and entries the file spells out.                               *)
(***************************************************************************)
MatchesFormat ==
  status # "reading" =>
    LET r == RefParse(text) IN
    /\ (status = "done") = r.ok
    /\ status = "done" => secs = r.secs
=============================================================================
