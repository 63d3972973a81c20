------------------------------- MODULE MCSdk -------------------------------
(***************************************************************************)
(* Three asks; each may have an argument of one character, one with a      *)
(* character of two bytes, the longest that can be sent, and one too long. *)
(***************************************************************************)
EXTENDS Sdk

MCArgsOf == [k \in 1..MaxAsk |->
    { << <<k + 2>> >>, << <<k + 2>>, <<7, 8>> >>,
      << <<k + 2>>, <<7>>, <<8>> >>, << <<k + 2>>, <<7>>, <<8>>, <<7>> >> }]
=============================================================================
