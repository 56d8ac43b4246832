------------------------------ MODULE MCRConf ------------------------------
(***************************************************************************)
(* Files of up to three lines drawn from the line shapes the reader tells *)
(* apart: empty, comment, header, broken header, key lines with no, one   *)
(* or two blanks or a tab of indentation, a key without a value, a line   *)
(* of blanks only, and a CRLF ending.                                      *)
(***************************************************************************)
EXTENDS RConf

MCLines == {
  <<"\n">>,
  <<"#", "\n">>,
  <<"[", "a", "]", "\n">>,
  <<"[", "a", "\n">>,
  <<"a", "b", " ", "b", "\n">>,
  <<" ", "a", " ", "b", "\n">>,
  <<" ", " ", "a", " ", "b", "\n">>,
  <<"\t", "a", " ", "b", "\r", "\n">>,
  <<" ", "a", "\n">>,
  <<" ", "#", "\n">>,
  <<" ", " ", "\n">>}
=============================================================================
