------------------------------ MODULE MCFusion ------------------------------
(* Aliases with and without a judge, with explicit and default roles, with *)
(* limits below, at and above the size of the panel.                       *)
EXTENDS Fusion, TLC

MCEntries ==
  {<<"fusion", "panel", "fusion">>, <<"fusion", "judge", "plain", "synth", "panel">>,
   <<"panel", "judge", "judge", "fusion">>, <<"judge", "synth">>, <<"plain", "plain">>}

MCOptions ==
  [min_panel : 0..3, max_concurrent : 0..4, judge_required : BOOLEAN, token_limit : {FALSE}]
    \cup [min_panel : {1}, max_concurrent : {2}, judge_required : {FALSE}, token_limit : {TRUE}]

MCAliases == [entries : MCEntries, options : MCOptions]
=============================================================================
