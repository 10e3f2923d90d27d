------------------------------- MODULE MCText -------------------------------
(***************************************************************************)
(* ObjText for TLC: lines of every kind that parse_buffer knows, whole and   *)
(* broken, with corners of every form, written in many ways.                *)
(***************************************************************************)
EXTENDS ObjText

MCLineTexts == {
    <<>>,
    <<"f">>,
    <<"v">>,
    <<"o">>,
    <<"f", " ", "1">>,
    <<"f", " ", " ", "2", " ", "-", "1", "\r">>,
    <<"f", " ", "1", "/", "2", "/", "1">>,
    <<"f", " ", "-", "1", "/", "/", "2", " ", "2">>,
    <<"f", " ", "1", "/", "/">>,
    <<"f", " ", "3", "/", " ", "-", "2", "/", "-", "1">>,
    <<"f", " ", "2", "x", " ", "1">>,
    <<"f", " ", "1", "2", " ", "1", "9">>,
    <<"v", " ", "1", " ", "2", " ", "1">>,
    <<"v", "1", " ", "1", " ", "1", " ", "2">>,
    <<"v", " ", "1", " ", "1", " ", "1", " ", "2">>,
    <<"v", "t", " ", "1", " ", "1">>,
    <<"v", "n", " ", "1", " ", "1", " ", "1">>,
    <<"g", " ", "x", " ", "x", " ">>,
    <<"o", " ", "x">>,
    <<"u", "s", "e", "m", "t", "l", " ", "x">>,
    <<"m", "t", "l", "l", "i", "b", " ", "x">>,
    <<"u", "s", "e", "m", "t", "l", "x">>,
    <<" ", "f", " ", "1">>
}

MCLetters == FileLetters \cup UNION {Range(text) : text \in MCLineTexts}
=============================================================================
