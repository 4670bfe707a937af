----------------------------- MODULE MCTerminal -----------------------------
(* What the switch may print in the runs of Terminal.                      *)
EXTENDS Terminal

MCBanners == {<<>>, <<Prompt(Foreign, TRUE), Text>>, <<Prompt(Foreign, FALSE)>>}

MCAnswers ==
    {<<>>, <<Text>>, <<Error>>, <<Prompt(Foreign, TRUE), Text>>,
     <<Text, Prompt(Foreign, FALSE)>>, <<Text, Text, Text, Text, Text>>}
=============================================================================
